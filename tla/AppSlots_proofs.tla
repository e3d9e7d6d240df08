---------------------------- MODULE AppSlots_proofs ----------------------------
(***************************************************************************)
(* Proofs about AppSlots: staging, production and the report only have     *)
(* what was earned, and a job that ran alone leaves what it was asked for  *)
(* and the slot it replaced, for any number of jobs, files and versions.   *)
(***************************************************************************)
EXTENDS AppSlots, Hosts, FiniteSetTheorems, WellFoundedInduction, NaturalsInduction, TLAPS

Pcs == {"idle", "clear", "backup", "rename", "open", "fill", "wipe", "save", "list", "install", "done", "failed"}

\* Kinds that fill a slot, and report it.
Fillers == {"upload", "folder", "write", "deploy", "apply"}

-----------------------------------------------------------------------------
(* Where files come from                                                   *)

\* Whatever is in a slot has been in dev.
SlotsHaveDevFiles ==
    \A s \in Slots, p \in Paths : disk[s] # NoDir => disk[s][p] \in inDev \cup {None, Torn}

\* What came with a request goes to dev; an archive is not a slot; and a slot
\* is reported by a job that has filled it or cleared it.
KeepsTo(job, done) ==
    /\ job.from = "input" => job.to = "web"
    /\ job.to = "out" <=> job.kind = "pack"
    /\ job.pc = "clear" => job.kind \in {"upload", "folder", "clear", "deploy"}
    /\ job.pc \in {"backup", "rename"} => job.kind = "apply"
    /\ job.pc = "save" => job.kind # "pack" /\ (job.kind = "clear" \/ job.to \in done)
    /\ job.report \subseteq done
JobsKeepToSlots == \A j \in Jobs : KeepsTo(jobs[j], filled)

EInv ==
    /\ TypeOK
    /\ SlotsHaveDevFiles
    /\ JobsKeepToSlots
    /\ ReportedWasFilled

-----------------------------------------------------------------------------
(* What a job that runs alone has done so far                              *)

\* The files of a directory, if it is there.
FilesOf(dir) == IF dir = NoDir THEN Empty ELSE dir

\* The files a job writes.
Source(job, dk) == IF job.from = "input" THEN job.input ELSE FilesOf(dk[job.from])

\* Before anything is cleared.
AtClear(job, dk) ==
    job.pc = "clear" =>
        /\ job.kind = "clear" => job.want = NoDir
        /\ job.kind = "deploy" => job.from \in Slots \ {job.to} /\ dk[job.from] # NoDir /\ job.want = dk[job.from]
        /\ job.kind \in {"upload", "folder"} =>
             /\ job.from = "input" /\ job.want \in Files /\ job.todo # {} /\ job.todo = Present(job.input)
             /\ job.kind = "folder" => job.todo \subseteq Folder
             /\ \A p \in Paths : job.want[p] =
                    IF job.kind = "upload" \/ p \in Folder THEN job.input[p] ELSE FilesOf(dk[job.to])[p]

\* Before and after the old slot is put aside.
AtBackup(job, dk) ==
    job.pc \in {"backup", "rename"} =>
        /\ job.kind = "apply" /\ job.from = "input" /\ job.want = job.input
        /\ dk[job.to] = job.had
        /\ job.pc = "rename" => dk["bak"] = NoDir

\* Before a copy begins.
AtOpen(job, dk) ==
    job.pc = "open" =>
        /\ job.kind \in {"deploy", "apply", "pack"}
        /\ job.kind # "pack" => dk[job.to] = NoDir
        /\ job.kind = "pack" => job.out = Empty
        /\ IF job.from = "input" THEN job.want = job.input ELSE job.want = dk[job.from] /\ job.from # job.to

\* While files are written: those that are done are as wanted, and so are the
\* ones to come where they come from.
AtFill(job, dk) ==
    job.pc = "fill" =>
        /\ job.kind \in Fillers \cup {"pack"} /\ job.want \in Files
        /\ job.from # "input" => job.from # job.to /\ dk[job.from] = job.want
        /\ \A p \in job.todo : Source(job, dk)[p] = job.want[p]
        /\ job.kind # "pack" =>
             /\ \A p \in Paths \ job.todo : FilesOf(dk[job.to])[p] = job.want[p]
             /\ job.todo = {} => dk[job.to] # NoDir
        /\ job.kind = "pack" => \A p \in Paths \ job.todo : job.out[p] = job.want[p]

\* Once all is written.
AtEnd(job, dk, det, rt, routable) ==
    /\ job.pc = "wipe" => job.kind = "delete" /\ job.want = NoDir
    /\ job.pc \in {"save", "list", "install"} => job.kind # "pack"
    /\ job.pc \in {"save", "list", "install", "done"} =>
         IF job.kind = "pack" THEN job.out = job.want ELSE dk[job.to] = job.want
    /\ job.pc \in {"list", "install", "done"} /\ job.kind \in Fillers => job.to \in det
    /\ job.pc = "install" => job.route = routable
    /\ job.pc = "done" /\ job.kind # "pack" => rt = routable

\* What was replaced.
HasKept(job, dk) ==
    job.kind = "apply" /\ job.had # NoDir =>
        /\ job.pc \in {"open", "fill", "save", "list", "install"} => dk["bak"] = job.had
        /\ job.pc \in {"done", "failed"} => job.had \in {dk["bak"], dk[job.to]}

InHand(job, dk, ex, det, rt) ==
    /\ AtClear(job, dk)
    /\ AtBackup(job, dk)
    /\ AtOpen(job, dk)
    /\ AtFill(job, dk)
    /\ AtEnd(job, dk, det, rt, ex /\ \E s \in Slots : dk[s] # NoDir)
    /\ HasKept(job, dk)
    /\ job.kind \in Fillers /\ job.pc # "failed" => ex

\* A job that has been alone has the disk to itself, and everything in hand.
AInv ==
    \A j \in Jobs : jobs[j].alone =>
        /\ \A k \in Jobs \ {j} : Ready(k)
        /\ InHand(jobs[j], disk, exists, details, routed)

-----------------------------------------------------------------------------
(* Jobs and files                                                          *)

\* A nonempty set of naturals has a least element, the one Min picks.
LEMMA MinIsThere ==
    ASSUME NEW S, S \subseteq Nat, S # {}
    PROVE  Min(S) \in S
<1> DEFINE R == OpToRel(<, Nat)
<1>1. \A x, y \in Nat : <<x, y>> \in R <=> x < y
    BY DEF OpToRel
<1>2. IsWellFoundedOn(R, Nat)
    BY NatLessThanWellFounded
<1> HIDE DEF R
<1>3. PICK x \in S : \A y \in S : ~ (<<y, x>> \in R)
    BY <1>2, WFMin
<1>4. \A y \in S : x <= y
  <2> TAKE y \in S
  <2>1. x \in Nat /\ y \in Nat
      OBVIOUS
  <2>2. ~(y < x)
      BY <1>1, <1>3, <2>1
  <2> QED BY <2>1, <2>2
<1> QED BY <1>4 DEF Min

\* Files that are not there, and a job doing nothing, are like any other.
LEMMA NothingTyped ==
    /\ None \in Content /\ Torn \in Content /\ Empty \in Files
    /\ Idle \in Job /\ Idle.pc = "idle" /\ ~Idle.alone /\ Idle.kind = "none"
    /\ \A done : KeepsTo(Idle, done)
<1>1. None \in Content /\ Torn \in Content /\ Empty \in Files
    BY DEF Content, Empty, Files
<1> HIDE DEF Empty, Files
<1> QED BY <1>1 DEF Idle, Job, Slots, KeepsTo

\* The files of a directory are files.
LEMMA FilesThere ==
    ASSUME NEW dir \in Files \cup {NoDir}
    PROVE  FilesOf(dir) \in Files
BY NothingTyped DEF FilesOf

\* Jobs that differ only in where they are.
Alike(p, q) ==
    /\ p.kind = q.kind /\ p.from = q.from /\ p.to = q.to /\ p.input = q.input
    /\ p.report = q.report /\ p.alone = q.alone /\ p.had = q.had /\ p.want = q.want

\* What a job has in hand, besides.
SameHand(p, q) == p.todo = q.todo /\ p.route = q.route /\ p.out = q.out

\* A job goes on.
LEMMA GoesOn ==
    ASSUME jobs \in [Jobs -> Job], NEW j \in Jobs, NEW pc \in Pcs, Goes(j, pc)
    PROVE  /\ jobs' \in [Jobs -> Job]
           /\ \A k \in Jobs \ {j} : jobs'[k] = jobs[k]
           /\ jobs'[j].pc = pc /\ Alike(jobs'[j], jobs[j]) /\ SameHand(jobs'[j], jobs[j])
<1>1. jobs' = [jobs EXCEPT ![j] = [jobs[j] EXCEPT !.pc = pc]]
    BY DEF Goes
<1>2. jobs[j] \in Job
    OBVIOUS
<1> DEFINE q == [jobs[j] EXCEPT !.pc = pc]
<1>3. q \in Job /\ q.pc = pc /\ Alike(q, jobs[j]) /\ SameHand(q, jobs[j])
    BY <1>2 DEF Job, Pcs, Alike, SameHand
<1>4. jobs' = [jobs EXCEPT ![j] = q]
    BY <1>1
<1> HIDE DEF q
<1> QED BY <1>3, <1>4

\* The other jobs, when one starts.
Bystander(k, aside) ==
    \/ jobs'[k] = Idle
    \/ /\ ~aside /\ ~Ready(k)
       /\ jobs'[k].pc = jobs[k].pc /\ jobs'[k].kind = jobs[k].kind /\ jobs'[k].from = jobs[k].from
       /\ jobs'[k].to = jobs[k].to /\ jobs'[k].report = jobs[k].report /\ ~jobs'[k].alone

\* A job starts.
LEMMA StartsOff ==
    ASSUME TypeOK, NEW j \in Jobs, NEW job \in Job, Starts(j, job)
    PROVE  /\ jobs' \in [Jobs -> Job] /\ asked' \in 0..MaxRequests
           /\ jobs'[j].pc = job.pc /\ jobs'[j].kind = job.kind /\ jobs'[j].from = job.from
           /\ jobs'[j].to = job.to /\ jobs'[j].input = job.input /\ jobs'[j].report = job.report
           /\ SameHand(jobs'[j], job)
           /\ jobs'[j].alone => /\ \A k \in Jobs : Ready(k)
                                /\ jobs'[j].want = job.want
                                /\ jobs'[j].had = disk[IF job.to = "out" THEN "web" ELSE job.to]
           /\ \A k \in Jobs \ {j} : Bystander(k, jobs'[j].alone)
<1>1. PICK alone \in BOOLEAN : alone <=> \A k \in Jobs : Ready(k)
    OBVIOUS
<1>2. PICK want, had :
        /\ want = IF alone THEN job.want ELSE NoDir
        /\ had = IF alone THEN disk[IF job.to = "out" THEN "web" ELSE job.to] ELSE NoDir
    OBVIOUS
<1> DEFINE q == [job EXCEPT !.alone = alone, !.want = want, !.had = had]
<1>3. jobs' = [k \in Jobs |->
        IF k = j THEN q
        ELSE IF Ready(k) THEN Idle ELSE [jobs[k] EXCEPT !.alone = FALSE, !.want = NoDir, !.had = NoDir]]
    BY <1>1, <1>2 DEF Starts
<1>4. want \in Files \cup {NoDir} /\ had \in Files \cup {NoDir}
  <2>1. disk[IF job.to = "out" THEN "web" ELSE job.to] \in Files \cup {NoDir}
      BY DEF TypeOK, Job, Dirs, Slots
  <2> QED BY <1>2, <2>1 DEF Job
<1>5. /\ q \in Job /\ q.pc = job.pc /\ q.kind = job.kind /\ q.from = job.from /\ q.to = job.to
      /\ q.input = job.input /\ q.report = job.report /\ SameHand(q, job)
      /\ q.alone = alone /\ q.want = want /\ q.had = had
    BY <1>4 DEF Job, SameHand
<1> HIDE DEF q
<1>6. ASSUME NEW k \in Jobs \ {j}
      PROVE  jobs'[k] \in Job /\ Bystander(k, alone)
  <2>1. CASE Ready(k)
      BY <1>3, <2>1, NothingTyped DEF Bystander
  <2>2. CASE ~Ready(k)
    <3>1. jobs[k] \in Job /\ jobs'[k] = [jobs[k] EXCEPT !.alone = FALSE, !.want = NoDir, !.had = NoDir]
        BY <1>3, <2>2 DEF TypeOK
    <3> DEFINE r == [jobs[k] EXCEPT !.alone = FALSE, !.want = NoDir, !.had = NoDir]
    <3>2. /\ r \in Job /\ r.pc = jobs[k].pc /\ r.kind = jobs[k].kind /\ r.from = jobs[k].from
          /\ r.to = jobs[k].to /\ r.report = jobs[k].report /\ r.alone = FALSE
      <4>1. r \in Job
          BY <3>1 DEF Job
      <4> QED BY <3>1, <4>1 DEF Job
    <3>3. jobs'[k] = r
        BY <3>1
    <3> HIDE DEF r
    <3> QED BY <1>1, <2>2, <3>2, <3>3 DEF Bystander
  <2> QED BY <2>1, <2>2
<1>7. jobs' \in [Jobs -> Job]
    BY <1>3, <1>5, <1>6
<1>8. asked' \in 0..MaxRequests
  <2>1. asked < MaxRequests /\ asked' = asked + 1
      BY DEF Starts
  <2> QED BY <2>1, SlotsAssumption DEF TypeOK
<1>9. jobs'[j] = q
    BY <1>3
<1> QED BY <1>1, <1>2, <1>5, <1>6, <1>7, <1>8, <1>9

-----------------------------------------------------------------------------
(* What is earned                                                          *)

\* A job as it starts, when it is alone.
Begun(q, job, had) ==
    /\ q.pc = job.pc /\ q.kind = job.kind /\ q.from = job.from /\ q.to = job.to
    /\ q.input = job.input /\ q.want = job.want /\ SameHand(q, job) /\ q.had = had

\* Requests that arrive keep the invariants if their job keeps to slots and has
\* everything in hand that it needs when it is alone.
LEMMA StartKeeps ==
    ASSUME EInv, AInv, NEW j \in Jobs, NEW job \in Job, Starts(j, job),
           job.pc # "save", KeepsTo(job, filled),
           exists' \in BOOLEAN, details' \subseteq filled, UNCHANGED <<routed, faults, inDev, filled>>,
           disk' \in [Dirs -> Files \cup {NoDir}], made' \in 0..MaxVersions, SlotsHaveDevFiles',
           \A q \in Job : Begun(q, job, disk[IF job.to = "out" THEN "web" ELSE job.to])
                            => InHand(q, disk', exists', details', routed')
    PROVE  EInv' /\ AInv'
<1>1. /\ jobs' \in [Jobs -> Job] /\ asked' \in 0..MaxRequests
      /\ jobs'[j].pc = job.pc /\ jobs'[j].kind = job.kind /\ jobs'[j].from = job.from
      /\ jobs'[j].to = job.to /\ jobs'[j].report = job.report
      /\ \A k \in Jobs \ {j} : Bystander(k, jobs'[j].alone)
    BY StartsOff DEF EInv
<1>2. ASSUME NEW k \in Jobs
      PROVE  KeepsTo(jobs'[k], filled)
  <2>1. CASE k = j
      BY <1>1, <2>1 DEF KeepsTo
  <2>2. CASE k # j
    <3>1. Bystander(k, jobs'[j].alone) /\ KeepsTo(jobs[k], filled)
        BY <1>1, <2>2 DEF EInv, JobsKeepToSlots
    <3> QED BY <3>1, NothingTyped DEF Bystander, KeepsTo
  <2> QED BY <2>1, <2>2
<1>3. JobsKeepToSlots'
    BY <1>2 DEF JobsKeepToSlots
<1>4. TypeOK' /\ ReportedWasFilled'
    BY <1>1 DEF EInv, TypeOK, ReportedWasFilled
<1>5. ASSUME NEW i \in Jobs, jobs'[i].alone
      PROVE  /\ \A k \in Jobs \ {i} : Ready(k)'
             /\ InHand(jobs'[i], disk', exists', details', routed')
  <2>1. CASE i = j
    <3>1. Begun(jobs'[j], job, disk[IF job.to = "out" THEN "web" ELSE job.to])
        BY <1>5, <2>1, StartsOff DEF EInv, Begun
    <3>2. \A k \in Jobs \ {j} : jobs'[k] = Idle
        BY <1>1, <1>5, <2>1 DEF Bystander
    <3>3. \A k \in Jobs \ {j} : Ready(k)'
        BY <3>2, NothingTyped DEF Ready
    <3> QED BY <1>1, <2>1, <3>1, <3>3
  <2>2. CASE i # j
      BY <1>1, <1>5, <2>2, NothingTyped DEF Bystander
  <2> QED BY <2>1, <2>2
<1>6. AInv'
    BY <1>5 DEF AInv
<1> QED BY <1>3, <1>4, <1>6 DEF EInv

\* A version that is sent in.
LEMMA VersionSent ==
    ASSUME TypeOK, NewVersion, NEW ps \in SUBSET Paths
    PROVE  /\ made' \in 0..MaxVersions /\ made + 1 \in 1..MaxVersions
           /\ Sent(ps) \in Files /\ Present(Sent(ps)) = ps
           /\ \A p \in Paths : Sent(ps)[p] = IF p \in ps THEN made + 1 ELSE None
<1>1. made \in 0..MaxVersions /\ made < MaxVersions /\ made' = made + 1 /\ MaxVersions \in Nat
    BY SlotsAssumption DEF TypeOK, NewVersion
<1>2. made + 1 \in 1..MaxVersions /\ made' \in 0..MaxVersions
    BY <1>1
<1>3. made + 1 # None
    BY <1>2, SlotsAssumption
<1>4. Sent(ps) \in Files
    BY <1>2 DEF Sent, Files, Content
<1>5. \A p \in Paths : Sent(ps)[p] = IF p \in ps THEN made + 1 ELSE None
    BY DEF Sent
<1> QED BY <1>2, <1>3, <1>4, <1>5 DEF Present

-----------------------------------------------------------------------------
(* Requests                                                                *)

\* What there is to know of a job, by where it is.
LEMMA ByStage ==
    ASSUME NEW q, NEW dk, NEW ex, NEW det, NEW rt, q.kind \in Fillers /\ q.pc # "failed" => ex
    PROVE  /\ q.pc = "clear" /\ AtClear(q, dk) => InHand(q, dk, ex, det, rt)
           /\ q.pc \in {"backup", "rename"} /\ AtBackup(q, dk) => InHand(q, dk, ex, det, rt)
           /\ q.pc = "open" /\ AtOpen(q, dk) /\ HasKept(q, dk) => InHand(q, dk, ex, det, rt)
           /\ q.pc = "fill" /\ AtFill(q, dk) /\ HasKept(q, dk) => InHand(q, dk, ex, det, rt)
           /\ /\ q.pc \in {"wipe", "save", "list", "install", "done"} /\ HasKept(q, dk)
              /\ AtEnd(q, dk, det, rt, ex /\ \E s \in Slots : dk[s] # NoDir)
              => InHand(q, dk, ex, det, rt)
           /\ q.pc = "failed" /\ HasKept(q, dk) => InHand(q, dk, ex, det, rt)
<1> USE DEF InHand
<1>1. q.pc = "clear" /\ AtClear(q, dk) => InHand(q, dk, ex, det, rt)
    BY DEF AtBackup, AtOpen, AtFill, AtEnd, HasKept
<1>2. q.pc \in {"backup", "rename"} /\ AtBackup(q, dk) => InHand(q, dk, ex, det, rt)
    BY DEF AtClear, AtOpen, AtFill, AtEnd, HasKept
<1>3. q.pc = "open" /\ AtOpen(q, dk) /\ HasKept(q, dk) => InHand(q, dk, ex, det, rt)
    BY DEF AtClear, AtBackup, AtFill, AtEnd
<1>4. q.pc = "fill" /\ AtFill(q, dk) /\ HasKept(q, dk) => InHand(q, dk, ex, det, rt)
    BY DEF AtClear, AtBackup, AtOpen, AtEnd
<1>5. /\ q.pc \in {"wipe", "save", "list", "install", "done"} /\ HasKept(q, dk)
      /\ AtEnd(q, dk, det, rt, ex /\ \E s \in Slots : dk[s] # NoDir)
      => InHand(q, dk, ex, det, rt)
    BY DEF AtClear, AtBackup, AtOpen, AtFill
<1>6. q.pc = "failed" /\ HasKept(q, dk) => InHand(q, dk, ex, det, rt)
    BY DEF AtClear, AtBackup, AtOpen, AtFill, AtEnd
<1> QED BY <1>1, <1>2, <1>3, <1>4, <1>5, <1>6

\* A bundle for dev.
LEMMA UploadKeeps ==
    ASSUME EInv, AInv, NEW j \in Jobs, Upload(j)
    PROVE  EInv' /\ AInv'
<1>1. /\ exists /\ NewVersion /\ "upload" \in Kinds
      /\ UNCHANGED <<exists, details, disk, routed, faults, inDev, filled>>
    BY DEF Upload
<1>2. PICK ps, job :
        /\ ps \in SUBSET Paths
        /\ Index \in ps /\ Starts(j, job)
        /\ job = [Idle EXCEPT !.pc = "clear", !.kind = "upload", !.input = Sent(ps), !.todo = ps,
                              !.report = details, !.want = Sent(ps)]
    BY DEF Upload
<1>3. PICK input : input = Sent(ps)
    OBVIOUS
<1>4. /\ TypeOK /\ details \subseteq filled /\ details \subseteq Slots
      /\ input \in Files /\ Present(input) = ps /\ made' \in 0..MaxVersions
    BY <1>1, <1>2, <1>3, VersionSent DEF EInv, TypeOK, ReportedWasFilled
<1>5. /\ job \in Job /\ KeepsTo(job, filled)
      /\ job.pc = "clear" /\ job.kind = "upload" /\ job.input = input /\ job.todo = ps
      /\ job.from = "input" /\ job.to = "web" /\ job.want = input
  <2> HIDE DEF Files, Empty
  <2> QED BY <1>1, <1>2, <1>3, <1>4, NothingTyped DEF Idle, Job, KeepsTo, Slots
<1>6. ASSUME NEW q \in Job, Begun(q, job, disk["web"])
      PROVE  InHand(q, disk', exists', details', routed')
  <2>1. /\ q.pc = "clear" /\ q.kind = "upload" /\ q.input = input /\ q.todo = ps
        /\ q.from = "input" /\ q.to = "web" /\ q.want = input
      BY <1>5, <1>6 DEF Begun, SameHand
  <2>2. AtClear(q, disk')
      BY <1>2, <1>4, <2>1 DEF AtClear
  <2> QED BY <1>1, <2>1, <2>2, ByStage
<1>7. disk' \in [Dirs -> Files \cup {NoDir}] /\ SlotsHaveDevFiles' /\ exists' \in BOOLEAN
    BY <1>1 DEF EInv, TypeOK, SlotsHaveDevFiles
<1> QED BY <1>1, <1>2, <1>4, <1>5, <1>6, <1>7, StartKeeps

\* A bundle for a folder of it.
LEMMA UploadFolderKeeps ==
    ASSUME EInv, AInv, NEW j \in Jobs, UploadFolder(j)
    PROVE  EInv' /\ AInv'
<1>1. /\ exists /\ NewVersion /\ "folder" \in Kinds
      /\ UNCHANGED <<exists, details, disk, routed, faults, inDev, filled>>
    BY DEF UploadFolder
<1>2. PICK ps, job :
        /\ ps \in (SUBSET Folder) \ {{}}
        /\ Starts(j, job)
        /\ job = [Idle EXCEPT !.pc = "clear", !.kind = "folder", !.input = Sent(ps), !.todo = ps, !.report = details,
                     !.want = [p \in Paths |-> IF p \in Folder THEN Sent(ps)[p] ELSE In("web")[p]]]
    BY DEF UploadFolder
<1>3. PICK input, want : /\ input = Sent(ps)
                         /\ want = [p \in Paths |-> IF p \in Folder THEN Sent(ps)[p] ELSE In("web")[p]]
    OBVIOUS
<1>4. /\ TypeOK /\ details \subseteq filled /\ details \subseteq Slots /\ ps \in SUBSET Paths /\ ps # {}
      /\ disk["web"] \in Files \cup {NoDir}
  <2>1. ps \in SUBSET Paths /\ ps # {}
      BY <1>2, SlotsAssumption
  <2> QED BY <2>1 DEF EInv, TypeOK, ReportedWasFilled, Dirs, Slots
<1>5. input \in Files /\ Present(input) = ps /\ made' \in 0..MaxVersions
    BY <1>1, <1>3, <1>4, VersionSent
<1>6. /\ want \in Files
      /\ \A p \in Paths : want[p] = IF p \in Folder THEN input[p] ELSE FilesOf(disk["web"])[p]
  <2>1. In("web") = FilesOf(disk["web"]) /\ FilesOf(disk["web"]) \in Files
      BY <1>4, FilesThere DEF In, FilesOf
  <2> QED BY <1>3, <1>5, <2>1 DEF Files
<1>7. /\ job \in Job /\ KeepsTo(job, filled)
      /\ job.pc = "clear" /\ job.kind = "folder" /\ job.input = input /\ job.todo = ps
      /\ job.from = "input" /\ job.to = "web" /\ job.want = want
  <2> HIDE DEF Files, Empty
  <2> QED BY <1>1, <1>2, <1>3, <1>4, <1>5, <1>6, NothingTyped DEF Idle, Job, KeepsTo, Slots
<1>8. ASSUME NEW q \in Job, Begun(q, job, disk["web"])
      PROVE  InHand(q, disk', exists', details', routed')
  <2>1. /\ q.pc = "clear" /\ q.kind = "folder" /\ q.input = input /\ q.todo = ps
        /\ q.from = "input" /\ q.to = "web" /\ q.want = want
      BY <1>7, <1>8 DEF Begun, SameHand
  <2>2. AtClear(q, disk')
      BY <1>1, <1>2, <1>4, <1>5, <1>6, <2>1 DEF AtClear
  <2> QED BY <1>1, <2>1, <2>2, ByStage
<1>9. disk' \in [Dirs -> Files \cup {NoDir}] /\ SlotsHaveDevFiles' /\ exists' \in BOOLEAN
    BY <1>1 DEF EInv, TypeOK, SlotsHaveDevFiles
<1> QED BY <1>1, <1>2, <1>4, <1>5, <1>7, <1>8, <1>9, StartKeeps

\* One file of dev.
LEMMA WriteKeeps ==
    ASSUME EInv, AInv, NEW j \in Jobs, Write(j)
    PROVE  EInv' /\ AInv'
<1>1. /\ exists /\ NewVersion /\ "write" \in Kinds
      /\ UNCHANGED <<exists, details, disk, routed, faults, inDev, filled>>
    BY DEF Write
<1>2. PICK f, job :
        /\ f \in Paths
        /\ Starts(j, job)
        /\ job = [Idle EXCEPT !.pc = "fill", !.kind = "write", !.input = Sent({f}), !.todo = {f},
                              !.report = details, !.want = [In("web") EXCEPT ![f] = made + 1]]
    BY DEF Write
<1>3. PICK input, want : input = Sent({f}) /\ want = [In("web") EXCEPT ![f] = made + 1]
    OBVIOUS
<1>4. /\ TypeOK /\ details \subseteq filled /\ details \subseteq Slots /\ {f} \in SUBSET Paths
      /\ disk["web"] \in Files \cup {NoDir}
    BY <1>2 DEF EInv, TypeOK, ReportedWasFilled, Dirs, Slots
<1>5. /\ input \in Files /\ made' \in 0..MaxVersions /\ made + 1 \in Content
      /\ input[f] = made + 1
    BY <1>1, <1>3, <1>4, VersionSent DEF Content
<1>6. /\ want \in Files
      /\ want[f] = input[f]
      /\ \A p \in Paths \ {f} : FilesOf(disk["web"])[p] = want[p]
  <2>1. In("web") = FilesOf(disk["web"]) /\ FilesOf(disk["web"]) \in Files
      BY <1>4, FilesThere DEF In, FilesOf
  <2> QED BY <1>2, <1>3, <1>5, <2>1 DEF Files
<1>7. /\ job \in Job /\ KeepsTo(job, filled)
      /\ job.pc = "fill" /\ job.kind = "write" /\ job.input = input /\ job.todo = {f}
      /\ job.from = "input" /\ job.to = "web" /\ job.want = want
  <2> HIDE DEF Files, Empty
  <2> QED BY <1>1, <1>2, <1>3, <1>4, <1>5, <1>6, NothingTyped DEF Idle, Job, KeepsTo, Slots
<1>8. ASSUME NEW q \in Job, Begun(q, job, disk["web"])
      PROVE  InHand(q, disk', exists', details', routed')
  <2>1. /\ q.pc = "fill" /\ q.kind = "write" /\ q.input = input /\ q.todo = {f}
        /\ q.from = "input" /\ q.to = "web" /\ q.want = want
      BY <1>7, <1>8 DEF Begun, SameHand
  <2>2. AtFill(q, disk') /\ HasKept(q, disk')
      BY <1>1, <1>6, <2>1 DEF AtFill, Source, Fillers, HasKept
  <2> QED BY <1>1, <2>1, <2>2, ByStage
<1>9. disk' \in [Dirs -> Files \cup {NoDir}] /\ SlotsHaveDevFiles' /\ exists' \in BOOLEAN
    BY <1>1 DEF EInv, TypeOK, SlotsHaveDevFiles
<1> QED BY <1>1, <1>2, <1>4, <1>5, <1>7, <1>8, <1>9, StartKeeps

\* One file less in dev.
LEMMA RemoveFileKeeps ==
    ASSUME EInv, AInv, NEW j \in Jobs, RemoveFile(j)
    PROVE  EInv' /\ AInv'
<1>1. /\ exists /\ "remove" \in Kinds
      /\ UNCHANGED <<exists, details, routed, made, faults, inDev, filled>>
    BY DEF RemoveFile
<1>2. PICK f, job :
        /\ f \in Present(In("web"))
        /\ disk' = [disk EXCEPT !["web"] = [disk["web"] EXCEPT ![f] = None]] /\ Starts(j, job)
        /\ job = [Idle EXCEPT !.pc = "list", !.kind = "remove", !.want = [disk["web"] EXCEPT ![f] = None]]
    BY DEF RemoveFile
<1>3. PICK want : want = [disk["web"] EXCEPT ![f] = None]
    OBVIOUS
<1>4. disk["web"] \in Files /\ f \in Paths /\ disk \in [Dirs -> Files \cup {NoDir}] /\ made' \in 0..MaxVersions
      /\ details \subseteq filled
  <2>1. /\ disk["web"] \in Files \cup {NoDir} /\ disk \in [Dirs -> Files \cup {NoDir}] /\ made \in 0..MaxVersions
        /\ details \subseteq filled
      BY DEF EInv, TypeOK, ReportedWasFilled, Dirs, Slots
  <2>2. f \in Paths /\ In("web")[f] # None
      BY <1>2 DEF Present
  <2>3. disk["web"] # NoDir
      BY <2>2 DEF In, Empty
  <2> QED BY <1>1, <2>1, <2>2, <2>3
<1>5. /\ want \in Files
      /\ \A p \in Paths : want[p] \in {disk["web"][p], None}
    BY <1>3, <1>4, NothingTyped DEF Files
<1>6. /\ disk' \in [Dirs -> Files \cup {NoDir}]
      /\ disk'["web"] = want /\ \A s \in Slots \ {"web"} : disk'[s] = disk[s]
  <2>1. disk' = [disk EXCEPT !["web"] = want]
      BY <1>2, <1>3
  <2> QED BY <1>4, <1>5, <2>1 DEF Dirs, Slots
<1>7. /\ job \in Job /\ KeepsTo(job, filled)
      /\ job.pc = "list" /\ job.kind = "remove" /\ job.from = "input" /\ job.to = "web" /\ job.want = want
  <2> HIDE DEF Files, Empty
  <2> QED BY <1>1, <1>2, <1>3, <1>5, NothingTyped DEF Idle, Job, KeepsTo, Slots
<1>8. ASSUME NEW q \in Job, Begun(q, job, disk["web"])
      PROVE  InHand(q, disk', exists', details', routed')
  <2>1. q.pc = "list" /\ q.kind = "remove" /\ q.to = "web" /\ q.want = want
      BY <1>7, <1>8 DEF Begun, SameHand
  <2>2. AtEnd(q, disk', details', routed', exists' /\ \E s \in Slots : disk'[s] # NoDir) /\ HasKept(q, disk')
      BY <1>6, <2>1 DEF AtEnd, HasKept, Fillers
  <2> QED BY <1>1, <2>1, <2>2, ByStage
<1>9. SlotsHaveDevFiles'
  <2>1. ASSUME NEW s \in Slots, NEW p \in Paths, disk'[s] # NoDir
        PROVE  disk'[s][p] \in inDev \cup {None, Torn}
    <3>1. SlotsHaveDevFiles
        BY DEF EInv
    <3>2. CASE s = "web"
      <4>1. disk["web"] # NoDir
          BY <1>4, SlotsAssumption DEF Files, Content
      <4>2. disk["web"][p] \in inDev \cup {None, Torn}
          BY <3>1, <3>2, <4>1 DEF SlotsHaveDevFiles
      <4> QED BY <1>5, <1>6, <3>2, <4>2
    <3>3. CASE s # "web"
        BY <1>6, <2>1, <3>1, <3>3 DEF SlotsHaveDevFiles
    <3> QED BY <3>2, <3>3
  <2> QED BY <1>1, <2>1 DEF SlotsHaveDevFiles
<1> QED BY <1>1, <1>2, <1>4, <1>6, <1>7, <1>8, <1>9, StartKeeps

\* Dev is cleared.
LEMMA ClearWebKeeps ==
    ASSUME EInv, AInv, NEW j \in Jobs, ClearWeb(j)
    PROVE  EInv' /\ AInv'
<1>1. /\ exists /\ "clear" \in Kinds
      /\ UNCHANGED <<exists, details, disk, routed, made, faults, inDev, filled>>
    BY DEF ClearWeb
<1>2. PICK job : Starts(j, job) /\ job = [Idle EXCEPT !.pc = "clear", !.kind = "clear", !.report = details]
    BY DEF ClearWeb
<1>3. details \subseteq filled /\ details \subseteq Slots
    BY DEF EInv, TypeOK, ReportedWasFilled
<1>4. /\ job \in Job /\ KeepsTo(job, filled)
      /\ job.pc = "clear" /\ job.kind = "clear" /\ job.want = NoDir /\ job.to = "web"
  <2> HIDE DEF Files, Empty
  <2> QED BY <1>1, <1>2, <1>3, NothingTyped DEF Idle, Job, KeepsTo, Slots
<1>5. ASSUME NEW q \in Job, Begun(q, job, disk["web"])
      PROVE  InHand(q, disk', exists', details', routed')
  <2>1. q.pc = "clear" /\ q.kind = "clear" /\ q.want = NoDir
      BY <1>4, <1>5 DEF Begun
  <2>2. AtClear(q, disk')
      BY <2>1 DEF AtClear
  <2> QED BY <1>1, <2>1, <2>2, ByStage
<1>6. /\ disk' \in [Dirs -> Files \cup {NoDir}] /\ SlotsHaveDevFiles' /\ exists' \in BOOLEAN
      /\ made' \in 0..MaxVersions
    BY <1>1 DEF EInv, TypeOK, SlotsHaveDevFiles
<1> QED BY <1>1, <1>2, <1>3, <1>4, <1>5, <1>6, StartKeeps

\* A slot is promoted onto another.
LEMMA DeployKeeps ==
    ASSUME EInv, AInv, NEW j \in Jobs, Deploy(j)
    PROVE  EInv' /\ AInv'
<1>1. /\ exists /\ "deploy" \in Kinds
      /\ UNCHANGED <<exists, details, disk, routed, made, faults, inDev, filled>>
    BY DEF Deploy
<1>2. PICK from, to, job :
        /\ from \in {"web", "staging"} /\ to \in Slots
        /\ from # to /\ disk[from] # NoDir /\ Starts(j, job)
        /\ job = [Idle EXCEPT !.pc = "clear", !.kind = "deploy", !.from = from, !.to = to,
                              !.report = details, !.want = disk[from]]
    BY DEF Deploy
<1>3. PICK want : want = disk[from]
    OBVIOUS
<1>4. /\ details \subseteq filled /\ details \subseteq Slots /\ want \in Files \cup {NoDir}
      /\ from \in Slots /\ from # "input" /\ to # "out" /\ from \in Slots \ {to}
    BY <1>2, <1>3 DEF EInv, TypeOK, ReportedWasFilled, Dirs, Slots
<1>5. /\ job \in Job /\ KeepsTo(job, filled)
      /\ job.pc = "clear" /\ job.kind = "deploy" /\ job.want = want /\ job.from = from /\ job.to = to
  <2> HIDE DEF Files, Empty, Slots
  <2> QED BY <1>1, <1>2, <1>3, <1>4, NothingTyped DEF Idle, Job, KeepsTo
<1>6. ASSUME NEW q \in Job, Begun(q, job, disk[to])
      PROVE  InHand(q, disk', exists', details', routed')
  <2>1. q.pc = "clear" /\ q.kind = "deploy" /\ q.want = want /\ q.from = from /\ q.to = to
      BY <1>5, <1>6 DEF Begun
  <2>2. AtClear(q, disk')
      BY <1>1, <1>2, <1>3, <1>4, <2>1 DEF AtClear
  <2> QED BY <1>1, <2>1, <2>2, ByStage
<1>7. /\ disk' \in [Dirs -> Files \cup {NoDir}] /\ SlotsHaveDevFiles' /\ exists' \in BOOLEAN
      /\ made' \in 0..MaxVersions
    BY <1>1 DEF EInv, TypeOK, SlotsHaveDevFiles
<1> QED BY <1>1, <1>2, <1>4, <1>5, <1>6, <1>7, StartKeeps

\* A payload of a feed, or of an import.
LEMMA ApplyKeeps ==
    ASSUME EInv, AInv, NEW j \in Jobs, Apply(j)
    PROVE  EInv' /\ AInv'
<1>1. /\ exists /\ NewVersion /\ "apply" \in Kinds
      /\ UNCHANGED <<exists, details, disk, routed, faults, inDev, filled>>
    BY DEF Apply
<1>2. PICK ps, job :
        /\ ps \in SUBSET Paths
        /\ Starts(j, job)
        /\ job = [Idle EXCEPT !.pc = IF disk["web"] = NoDir THEN "open" ELSE "backup", !.kind = "apply",
                              !.to = "web", !.input = Sent(ps), !.want = Sent(ps)]
    BY DEF Apply, ApplyTarget
<1>3. PICK input, pc : input = Sent(ps) /\ pc = IF disk["web"] = NoDir THEN "open" ELSE "backup"
    OBVIOUS
<1>4. /\ details \subseteq filled /\ input \in Files /\ made' \in 0..MaxVersions
    BY <1>1, <1>2, <1>3, VersionSent DEF EInv, ReportedWasFilled
<1>5. /\ job \in Job /\ KeepsTo(job, filled)
      /\ job.pc = pc /\ job.kind = "apply" /\ job.want = input /\ job.input = input
      /\ job.from = "input" /\ job.to = "web"
  <2> HIDE DEF Files, Empty
  <2> QED BY <1>1, <1>2, <1>3, <1>4, NothingTyped DEF Idle, Job, KeepsTo, Slots
<1>6. ASSUME NEW q \in Job, Begun(q, job, disk["web"])
      PROVE  InHand(q, disk', exists', details', routed')
  <2>1. /\ q.pc = pc /\ q.kind = "apply" /\ q.want = input /\ q.input = input
        /\ q.from = "input" /\ q.to = "web" /\ q.had = disk["web"]
      BY <1>5, <1>6 DEF Begun
  <2>2. CASE disk["web"] = NoDir
    <3>1. AtOpen(q, disk') /\ HasKept(q, disk')
        BY <1>1, <1>3, <2>1, <2>2 DEF AtOpen, HasKept
    <3> QED BY <1>1, <1>3, <2>1, <2>2, <3>1, ByStage
  <2>3. CASE disk["web"] # NoDir
    <3>1. AtBackup(q, disk')
        BY <1>1, <1>3, <2>1, <2>3 DEF AtBackup
    <3> QED BY <1>1, <1>3, <2>1, <2>3, <3>1, ByStage
  <2> QED BY <2>2, <2>3
<1>7. disk' \in [Dirs -> Files \cup {NoDir}] /\ SlotsHaveDevFiles' /\ exists' \in BOOLEAN
    BY <1>1 DEF EInv, TypeOK, SlotsHaveDevFiles
<1>8. job.pc # "save"
    BY <1>3, <1>5
<1> QED BY <1>1, <1>2, <1>4, <1>5, <1>6, <1>7, <1>8, StartKeeps

\* Dev is packed into an archive.
LEMMA PackKeeps ==
    ASSUME EInv, AInv, NEW j \in Jobs, Pack(j)
    PROVE  EInv' /\ AInv'
<1>1. /\ exists /\ "pack" \in Kinds
      /\ UNCHANGED <<exists, details, disk, routed, made, faults, inDev, filled>>
    BY DEF Pack
<1>2. PICK job :
        /\ Starts(j, job)
        /\ job = [Idle EXCEPT !.pc = "open", !.kind = "pack", !.from = "web", !.to = "out", !.want = disk["web"]]
    BY DEF Pack
<1>3. PICK want : want = disk["web"]
    OBVIOUS
<1>4. details \subseteq filled /\ want \in Files \cup {NoDir}
    BY <1>3 DEF EInv, TypeOK, ReportedWasFilled, Dirs, Slots
<1>5. /\ job \in Job /\ KeepsTo(job, filled) /\ job.out = Empty
      /\ job.pc = "open" /\ job.kind = "pack" /\ job.want = want /\ job.from = "web" /\ job.to = "out"
  <2> HIDE DEF Files, Empty
  <2> QED BY <1>1, <1>2, <1>3, <1>4, NothingTyped DEF Idle, Job, KeepsTo, Slots
<1>6. ASSUME NEW q \in Job, Begun(q, job, disk["web"])
      PROVE  InHand(q, disk', exists', details', routed')
  <2>1. /\ q.pc = "open" /\ q.kind = "pack" /\ q.want = want /\ q.from = "web" /\ q.to = "out"
        /\ q.out = Empty
      BY <1>5, <1>6 DEF Begun, SameHand
  <2>2. AtOpen(q, disk') /\ HasKept(q, disk')
      BY <1>1, <1>3, <2>1 DEF AtOpen, HasKept
  <2> QED BY <1>1, <2>1, <2>2, ByStage
<1>7. /\ disk' \in [Dirs -> Files \cup {NoDir}] /\ SlotsHaveDevFiles' /\ exists' \in BOOLEAN
      /\ made' \in 0..MaxVersions
    BY <1>1 DEF EInv, TypeOK, SlotsHaveDevFiles
<1> QED BY <1>1, <1>2, <1>4, <1>5, <1>6, <1>7, StartKeeps

\* The app is deleted.
LEMMA DeleteKeeps ==
    ASSUME EInv, AInv, NEW j \in Jobs, Delete(j)
    PROVE  EInv' /\ AInv'
<1>1. /\ "delete" \in Kinds /\ exists' = FALSE /\ details' = {}
      /\ UNCHANGED <<disk, routed, made, faults, inDev, filled>>
    BY DEF Delete
<1>2. PICK job : Starts(j, job) /\ job = [Idle EXCEPT !.pc = "wipe", !.kind = "delete"]
    BY DEF Delete
<1>3. /\ job \in Job /\ KeepsTo(job, filled)
      /\ job.pc = "wipe" /\ job.kind = "delete" /\ job.want = NoDir /\ job.to = "web"
  <2> HIDE DEF Files, Empty
  <2> QED BY <1>1, <1>2, NothingTyped DEF Idle, Job, KeepsTo, Slots
<1>4. ASSUME NEW q \in Job, Begun(q, job, disk["web"])
      PROVE  InHand(q, disk', exists', details', routed')
  <2>1. q.pc = "wipe" /\ q.kind = "delete" /\ q.want = NoDir
      BY <1>3, <1>4 DEF Begun
  <2>2. AtEnd(q, disk', details', routed', exists' /\ \E s \in Slots : disk'[s] # NoDir) /\ HasKept(q, disk')
      BY <2>1 DEF AtEnd, HasKept
  <2>3. q.kind \notin Fillers
      BY <2>1 DEF Fillers
  <2> QED BY <2>1, <2>2, <2>3, ByStage
<1>5. /\ disk' \in [Dirs -> Files \cup {NoDir}] /\ SlotsHaveDevFiles' /\ made' \in 0..MaxVersions
    BY <1>1 DEF EInv, TypeOK, SlotsHaveDevFiles
<1> QED BY <1>1, <1>2, <1>3, <1>4, <1>5, StartKeeps

\* An app is imported anew.
LEMMA CreateKeeps ==
    ASSUME EInv, AInv, NEW j \in Jobs, Create(j)
    PROVE  EInv' /\ AInv'
<1>1. /\ "create" \in Kinds /\ exists' = TRUE /\ details' = {}
      /\ UNCHANGED <<disk, routed, made, faults, inDev, filled>>
    BY DEF Create
<1>2. PICK job : Starts(j, job) /\ job = [Idle EXCEPT !.pc = "list", !.kind = "create", !.want = disk["web"]]
    BY DEF Create
<1>3. PICK want : want = disk["web"] /\ want \in Files \cup {NoDir}
    BY DEF EInv, TypeOK, Dirs, Slots
<1>4. /\ job \in Job /\ KeepsTo(job, filled)
      /\ job.pc = "list" /\ job.kind = "create" /\ job.want = want /\ job.to = "web"
  <2> HIDE DEF Files, Empty
  <2> QED BY <1>1, <1>2, <1>3, NothingTyped DEF Idle, Job, KeepsTo, Slots
<1>5. ASSUME NEW q \in Job, Begun(q, job, disk["web"])
      PROVE  InHand(q, disk', exists', details', routed')
  <2>1. q.pc = "list" /\ q.kind = "create" /\ q.want = want /\ q.to = "web"
      BY <1>4, <1>5 DEF Begun
  <2>2. AtEnd(q, disk', details', routed', exists' /\ \E s \in Slots : disk'[s] # NoDir) /\ HasKept(q, disk')
      BY <1>1, <1>3, <2>1 DEF AtEnd, HasKept, Fillers
  <2> QED BY <1>1, <2>1, <2>2, ByStage
<1>6. /\ disk' \in [Dirs -> Files \cup {NoDir}] /\ SlotsHaveDevFiles' /\ made' \in 0..MaxVersions
    BY <1>1 DEF EInv, TypeOK, SlotsHaveDevFiles
<1> QED BY <1>1, <1>2, <1>4, <1>5, <1>6, StartKeeps

-----------------------------------------------------------------------------
(* Steps of a running request                                              *)

\* A step keeps the invariants if it keeps what is earned, and leaves its job
\* everything in hand when that is alone: a job that is not has no say, since
\* nothing else runs beside one that is.
LEMMA StepKeeps ==
    ASSUME EInv, AInv, NEW j \in Jobs, ~Ready(j),
           jobs' \in [Jobs -> Job], \A k \in Jobs \ {j} : jobs'[k] = jobs[k],
           Alike(jobs'[j], jobs[j]),
           jobs'[j].pc \in {"clear", "backup", "rename", "save"} => KeepsTo(jobs'[j], filled'),
           TypeOK', SlotsHaveDevFiles', ReportedWasFilled', filled \subseteq filled',
           jobs[j].alone => InHand(jobs'[j], disk', exists', details', routed')
    PROVE  EInv' /\ AInv'
<1>1. ASSUME NEW k \in Jobs
      PROVE  KeepsTo(jobs'[k], filled')
  <2>1. KeepsTo(jobs[k], filled)
      BY DEF EInv, JobsKeepToSlots
  <2>2. CASE k = j
      BY <2>1, <2>2 DEF Alike, KeepsTo
  <2>3. CASE k # j
      BY <2>1, <2>3 DEF KeepsTo
  <2> QED BY <2>2, <2>3
<1>2. JobsKeepToSlots'
    BY <1>1 DEF JobsKeepToSlots
<1>3. ASSUME NEW i \in Jobs, jobs'[i].alone
      PROVE  /\ \A k \in Jobs \ {i} : Ready(k)'
             /\ InHand(jobs'[i], disk', exists', details', routed')
  <2>1. jobs[i].alone
      BY <1>3 DEF Alike
  <2>2. \A k \in Jobs \ {i} : Ready(k)
      BY <2>1 DEF AInv
  <2>3. i = j
      BY <2>2
  <2> QED BY <2>1, <2>2, <2>3 DEF Ready
<1>4. AInv'
    BY <1>3 DEF AInv
<1> QED BY <1>2, <1>4 DEF EInv

\* What is known of a job that takes a step.
LEMMA KnownJob ==
    ASSUME EInv, AInv, NEW j \in Jobs
    PROVE  /\ jobs[j] \in Job /\ KeepsTo(jobs[j], filled)
           /\ jobs[j].alone => InHand(jobs[j], disk, exists, details, routed)
           /\ jobs \in [Jobs -> Job] /\ disk \in [Dirs -> Files \cup {NoDir}]
BY DEF EInv, AInv, TypeOK, JobsKeepToSlots

\* A directory, or a folder of it, is cleared.
LEMMA ClearKeeps ==
    ASSUME EInv, AInv, NEW j \in Jobs, Clear(j)
    PROVE  EInv' /\ AInv'
<1>1. PICK job, to, dir, pc :
        /\ job = jobs[j] /\ to = job.to
        /\ dir = IF job.kind # "folder" THEN NoDir
                 ELSE IF disk[to] = NoDir THEN NoDir ELSE [p \in Paths |-> IF p \in Folder THEN None ELSE disk[to][p]]
        /\ pc = CASE job.kind = "deploy" -> "open" [] job.kind = "clear" -> "save" [] OTHER -> "fill"
    OBVIOUS
<1>2. /\ job.pc = "clear" /\ disk' = [disk EXCEPT ![to] = dir] /\ Goes(j, pc)
      /\ UNCHANGED <<exists, details, routed, made, faults, asked, inDev, filled>>
    BY <1>1 DEF Clear
<1>3. /\ job \in Job /\ KeepsTo(job, filled) /\ job.kind \in {"upload", "folder", "clear", "deploy"}
      /\ jobs \in [Jobs -> Job] /\ disk \in [Dirs -> Files \cup {NoDir}]
    BY <1>1, <1>2, KnownJob DEF KeepsTo
<1>4. to \in Slots /\ to \in Dirs
    BY <1>1, <1>3 DEF Job, KeepsTo, Dirs
<1>5. /\ dir \in Files \cup {NoDir}
      /\ disk[to] = NoDir => dir = NoDir
      /\ dir # NoDir => \A p \in Paths : dir[p] \in {None, disk[to][p]}
      /\ \A p \in Paths : FilesOf(dir)[p] =
             IF job.kind # "folder" \/ p \in Folder THEN None ELSE FilesOf(disk[to])[p]
  <2>1. CASE job.kind # "folder" \/ disk[to] = NoDir
    <3>1. dir = NoDir
        BY <1>1, <2>1
    <3> QED BY <2>1, <3>1 DEF FilesOf, Empty
  <2>2. CASE job.kind = "folder" /\ disk[to] # NoDir
    <3>1. dir = [p \in Paths |-> IF p \in Folder THEN None ELSE disk[to][p]]
        BY <1>1, <2>2
    <3>2. disk[to] \in Files
        BY <1>3, <1>4, <2>2
    <3>3. dir \in Files
        BY <3>1, <3>2, NothingTyped DEF Files
    <3>4. dir # NoDir
        BY <3>3, SlotsAssumption DEF Files, Content
    <3> QED BY <2>2, <3>1, <3>3, <3>4 DEF FilesOf
  <2> QED BY <2>1, <2>2
<1>6. pc \in Pcs /\ pc \in {"open", "save", "fill"}
    BY <1>1 DEF Pcs
<1>7. /\ jobs' \in [Jobs -> Job] /\ \A k \in Jobs \ {j} : jobs'[k] = jobs[k]
      /\ jobs'[j].pc = pc /\ Alike(jobs'[j], job) /\ SameHand(jobs'[j], job)
    BY <1>1, <1>2, <1>3, <1>6, GoesOn
<1>8. /\ disk' \in [Dirs -> Files \cup {NoDir}]
      /\ \A d \in Dirs : disk'[d] = IF d = to THEN dir ELSE disk[d]
  <2> HIDE DEF Files, Dirs
  <2> QED BY <1>2, <1>3, <1>4, <1>5
<1>9. TypeOK' /\ ReportedWasFilled'
    BY <1>2, <1>7, <1>8 DEF EInv, TypeOK, ReportedWasFilled
<1>10. SlotsHaveDevFiles'
  <2>1. ASSUME NEW s \in Slots, NEW p \in Paths, disk'[s] # NoDir
        PROVE  disk'[s][p] \in inDev \cup {None, Torn}
    <3>1. SlotsHaveDevFiles /\ s \in Dirs
        BY DEF EInv, Dirs
    <3> QED BY <1>5, <1>8, <2>1, <3>1 DEF SlotsHaveDevFiles
  <2> QED BY <1>2, <2>1 DEF SlotsHaveDevFiles
<1>11. PICK q : q = jobs'[j]
    OBVIOUS
<1>12. q.pc = pc /\ Alike(q, job) /\ SameHand(q, job) /\ q \in Job
    BY <1>7, <1>11
<1>13. q.pc \in {"clear", "backup", "rename", "save"} => KeepsTo(q, filled')
    BY <1>1, <1>2, <1>3, <1>12 DEF KeepsTo, Alike
<1>14. ASSUME jobs[j].alone
       PROVE  InHand(q, disk', exists', details', routed')
  <2>1. AtClear(job, disk) /\ (job.kind \in Fillers => exists)
      BY <1>1, <1>2, <1>14, KnownJob DEF InHand
  <2>2. CASE job.kind = "deploy"
    <3>1. /\ q.pc = "open" /\ q.kind = "deploy" /\ q.to = to /\ q.from = job.from /\ q.want = job.want
        BY <1>1, <1>12, <2>2 DEF Alike
    <3>2. job.from \in Slots \ {to} /\ job.want = disk[job.from]
        BY <1>1, <1>2, <2>1, <2>2 DEF AtClear
    <3>3. disk'[to] = NoDir /\ disk'[job.from] = disk[job.from] /\ job.from # "input"
        BY <1>1, <1>4, <1>8, <2>2, <3>2 DEF Dirs, Slots
    <3>4. AtOpen(q, disk') /\ HasKept(q, disk')
        BY <3>1, <3>2, <3>3 DEF AtOpen, HasKept
    <3> QED BY <1>2, <2>1, <2>2, <3>1, <3>4, ByStage
  <2>3. CASE job.kind = "clear"
    <3>1. q.pc = "save" /\ q.kind = "clear" /\ q.to = to /\ q.want = NoDir
        BY <1>1, <1>2, <1>12, <2>1, <2>3 DEF Alike, AtClear
    <3>2. disk'[to] = NoDir
        BY <1>1, <1>4, <1>8, <2>3
    <3>3. AtEnd(q, disk', details', routed', exists' /\ \E s \in Slots : disk'[s] # NoDir) /\ HasKept(q, disk')
        BY <3>1, <3>2 DEF AtEnd, HasKept
    <3>4. q.kind \notin Fillers
        BY <3>1 DEF Fillers
    <3> QED BY <3>1, <3>3, <3>4, ByStage
  <2>4. CASE job.kind \in {"upload", "folder"}
    <3>1. /\ q.pc = "fill" /\ q.kind = job.kind /\ q.to = to /\ q.from = job.from /\ q.want = job.want
          /\ q.input = job.input /\ q.todo = job.todo
        BY <1>1, <1>12, <2>4 DEF Alike, SameHand
    <3>2. /\ job.from = "input" /\ job.want \in Files /\ job.todo # {} /\ job.todo = Present(job.input)
          /\ job.kind = "folder" => job.todo \subseteq Folder
          /\ \A p \in Paths : job.want[p] =
                 IF job.kind = "upload" \/ p \in Folder THEN job.input[p] ELSE FilesOf(disk[to])[p]
        BY <1>1, <1>2, <2>1, <2>4 DEF AtClear
    <3>3. \A p \in job.todo : p \in Paths /\ job.input[p] = job.want[p]
        BY <2>4, <3>2 DEF Present
    <3>4. \A p \in Paths \ job.todo : FilesOf(disk'[to])[p] = job.want[p]
      <4> TAKE p \in Paths \ job.todo
      <4>1. job.input[p] = None
          BY <3>2 DEF Present
      <4>2. disk'[to] = dir
          BY <1>4, <1>8
      <4> QED BY <1>5, <2>4, <3>2, <4>1, <4>2
    <3>5. AtFill(q, disk')
        BY <2>4, <3>1, <3>2, <3>3, <3>4 DEF AtFill, Source, Fillers
    <3>6. HasKept(q, disk')
        BY <2>4, <3>1 DEF HasKept
    <3> QED BY <1>2, <2>1, <3>1, <3>5, <3>6, ByStage
  <2> QED BY <1>3, <2>2, <2>3, <2>4
<1>15. ~Ready(j)
    BY <1>1, <1>2 DEF Ready
<1> QED BY <1>1, <1>2, <1>7, <1>9, <1>10, <1>11, <1>13, <1>14, <1>15, StepKeeps

\* The last backup makes room.
LEMMA BackupKeeps ==
    ASSUME EInv, AInv, NEW j \in Jobs, Backup(j)
    PROVE  EInv' /\ AInv'
<1>1. PICK job : job = jobs[j]
    OBVIOUS
<1>2. /\ job.pc = "backup" /\ disk' = [disk EXCEPT !["bak"] = NoDir] /\ Goes(j, "rename")
      /\ UNCHANGED <<exists, details, routed, made, faults, asked, inDev, filled>>
    BY <1>1 DEF Backup
<1>3. /\ job \in Job /\ jobs \in [Jobs -> Job] /\ disk \in [Dirs -> Files \cup {NoDir}]
    BY <1>1, KnownJob
<1>4. /\ jobs' \in [Jobs -> Job] /\ \A k \in Jobs \ {j} : jobs'[k] = jobs[k]
      /\ jobs'[j].pc = "rename" /\ Alike(jobs'[j], job) /\ SameHand(jobs'[j], job)
    BY <1>1, <1>2, <1>3, GoesOn DEF Pcs
<1>5. /\ disk' \in [Dirs -> Files \cup {NoDir}]
      /\ disk'["bak"] = NoDir /\ \A s \in Slots : disk'[s] = disk[s]
  <2> HIDE DEF Files
  <2> QED BY <1>2, <1>3 DEF Dirs, Slots
<1>6. TypeOK' /\ ReportedWasFilled' /\ SlotsHaveDevFiles'
    BY <1>2, <1>4, <1>5 DEF EInv, TypeOK, ReportedWasFilled, SlotsHaveDevFiles
<1>7. PICK q : q = jobs'[j]
    OBVIOUS
<1>8. ASSUME jobs[j].alone
      PROVE  InHand(q, disk', exists', details', routed')
  <2>1. AtBackup(job, disk) /\ (job.kind \in Fillers => exists)
      BY <1>1, <1>2, <1>8, KnownJob DEF InHand
  <2>2. job.kind = "apply" /\ job.from = "input" /\ job.want = job.input /\ disk[job.to] = job.had
      BY <1>2, <2>1 DEF AtBackup
  <2>3. q.pc = "rename" /\ Alike(q, job)
      BY <1>4, <1>7
  <2>4. job.to \in Slots
      BY <1>1, <1>3, <2>2, KnownJob DEF Job, KeepsTo
  <2>5. AtBackup(q, disk')
      BY <1>5, <2>2, <2>3, <2>4 DEF AtBackup, Alike
  <2> QED BY <1>2, <2>1, <2>2, <2>3, <2>5, ByStage DEF Alike, Fillers
<1>9. ~Ready(j)
    BY <1>1, <1>2 DEF Ready
<1>10. KeepsTo(jobs'[j], filled')
    BY <1>1, <1>2, <1>4, KnownJob DEF KeepsTo, Alike
<1> QED BY <1>1, <1>2, <1>4, <1>6, <1>7, <1>8, <1>9, <1>10, StepKeeps

\* The old slot is put aside.
LEMMA RenameKeeps ==
    ASSUME EInv, AInv, NEW j \in Jobs, Rename(j)
    PROVE  EInv' /\ AInv'
<1>1. PICK job, to : job = jobs[j] /\ to = job.to
    OBVIOUS
<1>2. PICK pc \in {"open", "failed"} :
      /\ job.pc = "rename" /\ Goes(j, pc)
      /\ UNCHANGED <<exists, details, routed, made, faults, asked, inDev, filled>>
      /\ pc = "open" => /\ disk' = [disk EXCEPT ![to] = NoDir, !["bak"] = disk[to]]
                        /\ disk[to] # NoDir /\ (disk["bak"] = NoDir \/ Present(disk["bak"]) = {})
      /\ pc = "failed" => disk' = disk
    BY <1>1 DEF Rename
<1>3. /\ job \in Job /\ jobs \in [Jobs -> Job] /\ disk \in [Dirs -> Files \cup {NoDir}]
      /\ to \in Slots
    BY <1>1, <1>2, KnownJob DEF Job, KeepsTo
<1>4. /\ jobs' \in [Jobs -> Job] /\ \A k \in Jobs \ {j} : jobs'[k] = jobs[k]
      /\ jobs'[j].pc = pc /\ Alike(jobs'[j], job) /\ SameHand(jobs'[j], job)
    BY <1>1, <1>2, <1>3, GoesOn DEF Pcs
<1>5. /\ disk' \in [Dirs -> Files \cup {NoDir}]
      /\ \A s \in Slots : disk'[s] = IF pc = "open" /\ s = to THEN NoDir ELSE disk[s]
      /\ pc = "open" => disk'["bak"] = disk[to]
  <2>1. CASE pc = "failed"
      BY <1>2, <1>3, <2>1
  <2>2. CASE pc = "open"
    <3>1. disk[to] \in Files \cup {NoDir} /\ to \in Dirs /\ to # "bak" /\ "bak" \in Dirs
        BY <1>3, <2>2 DEF Dirs, Slots
    <3>2. disk' = [d \in Dirs |-> IF d = "bak" THEN disk[to] ELSE IF d = to THEN NoDir ELSE disk[d]]
      <4> HIDE DEF Dirs, Files
      <4> QED BY <1>2, <1>3, <2>2, <3>1
    <3> QED BY <1>3, <2>2, <3>1, <3>2 DEF Dirs, Slots
  <2> QED BY <2>1, <2>2
<1>6. TypeOK' /\ ReportedWasFilled' /\ SlotsHaveDevFiles'
    BY <1>2, <1>4, <1>5 DEF EInv, TypeOK, ReportedWasFilled, SlotsHaveDevFiles
<1>7. PICK q : q = jobs'[j]
    OBVIOUS
<1>8. ASSUME jobs[j].alone
      PROVE  InHand(q, disk', exists', details', routed')
  <2>1. AtBackup(job, disk) /\ (job.kind \in Fillers => exists)
      BY <1>1, <1>2, <1>8, KnownJob DEF InHand
  <2>2. job.kind = "apply" /\ job.from = "input" /\ job.want = job.input /\ disk[to] = job.had
      BY <1>1, <1>2, <2>1 DEF AtBackup
  <2>3. /\ q.pc = pc /\ q.kind = "apply" /\ q.from = "input" /\ q.want = q.input
        /\ q.to = to /\ q.had = job.had
      BY <1>1, <1>4, <1>7, <2>2 DEF Alike
  <2>4. to \in Slots
      BY <1>3
  <2>5. CASE pc = "open"
    <3>1. disk'[to] = NoDir /\ disk'["bak"] = job.had
        BY <1>5, <2>2, <2>4, <2>5
    <3>2. AtOpen(q, disk') /\ HasKept(q, disk')
        BY <2>3, <2>5, <3>1 DEF AtOpen, HasKept
    <3> QED BY <1>2, <2>1, <2>2, <2>3, <2>5, <3>2, ByStage DEF Fillers
  <2>6. CASE pc = "failed"
    <3>1. HasKept(q, disk')
        BY <1>2, <2>2, <2>3, <2>6 DEF HasKept
    <3> QED BY <2>3, <2>6, <3>1, ByStage
  <2> QED BY <2>5, <2>6
<1>9. ~Ready(j)
    BY <1>1, <1>2 DEF Ready
<1> QED BY <1>1, <1>2, <1>4, <1>6, <1>7, <1>8, <1>9, StepKeeps

\* Every directory of a deleted app goes.
LEMMA WipeKeeps ==
    ASSUME EInv, AInv, NEW j \in Jobs, Wipe(j)
    PROVE  EInv' /\ AInv'
<1>1. PICK job : job = jobs[j]
    OBVIOUS
<1>2. /\ job.pc = "wipe" /\ disk' = [d \in Dirs |-> NoDir] /\ Goes(j, "list")
      /\ UNCHANGED <<exists, details, routed, made, faults, asked, inDev, filled>>
    BY <1>1 DEF Wipe
<1>3. job \in Job /\ jobs \in [Jobs -> Job]
    BY <1>1, KnownJob
<1>4. /\ jobs' \in [Jobs -> Job] /\ \A k \in Jobs \ {j} : jobs'[k] = jobs[k]
      /\ jobs'[j].pc = "list" /\ Alike(jobs'[j], job) /\ SameHand(jobs'[j], job)
    BY <1>1, <1>2, <1>3, GoesOn DEF Pcs
<1>5. disk' \in [Dirs -> Files \cup {NoDir}] /\ \A s \in Slots : disk'[s] = NoDir
    BY <1>2 DEF Dirs
<1>6. TypeOK' /\ ReportedWasFilled' /\ SlotsHaveDevFiles'
    BY <1>2, <1>4, <1>5 DEF EInv, TypeOK, ReportedWasFilled, SlotsHaveDevFiles
<1>7. PICK q : q = jobs'[j]
    OBVIOUS
<1>8. ASSUME jobs[j].alone
      PROVE  InHand(q, disk', exists', details', routed')
  <2>1. job.kind = "delete" /\ job.want = NoDir
      BY <1>1, <1>2, <1>8, KnownJob DEF InHand, AtEnd
  <2>2. q.pc = "list" /\ q.kind = "delete" /\ q.want = NoDir /\ q.to = job.to
      BY <1>4, <1>7, <2>1 DEF Alike
  <2>3. job.to \in Slots
      BY <1>1, <1>3, <2>1, KnownJob DEF Job, KeepsTo
  <2>4. AtEnd(q, disk', details', routed', exists' /\ \E s \in Slots : disk'[s] # NoDir) /\ HasKept(q, disk')
      BY <1>5, <2>2, <2>3 DEF AtEnd, HasKept, Fillers
  <2>5. q.kind \notin Fillers
      BY <2>2 DEF Fillers
  <2> QED BY <2>2, <2>4, <2>5, ByStage
<1>9. ~Ready(j)
    BY <1>1, <1>2 DEF Ready
<1> QED BY <1>1, <1>2, <1>4, <1>6, <1>7, <1>8, <1>9, StepKeeps

\* The report is written.
LEMMA SaveKeeps ==
    ASSUME EInv, AInv, NEW j \in Jobs, Save(j)
    PROVE  EInv' /\ AInv'
<1>1. PICK job, old : job = jobs[j] /\ old = IF job.kind = "apply" THEN details ELSE job.report
    OBVIOUS
<1>2. /\ job.pc = "save" /\ Goes(j, "list")
      /\ details' = IF ~exists THEN details ELSE IF job.kind = "clear" THEN old \ {"web"} ELSE old \cup {job.to}
      /\ UNCHANGED <<exists, disk, routed, made, faults, asked, inDev, filled>>
    BY <1>1 DEF Save
<1>3. job \in Job /\ jobs \in [Jobs -> Job] /\ KeepsTo(job, filled)
    BY <1>1, KnownJob
<1>4. /\ jobs' \in [Jobs -> Job] /\ \A k \in Jobs \ {j} : jobs'[k] = jobs[k]
      /\ jobs'[j].pc = "list" /\ Alike(jobs'[j], job) /\ SameHand(jobs'[j], job)
    BY <1>1, <1>2, <1>3, GoesOn DEF Pcs
<1>5. details' \subseteq filled /\ filled \subseteq Slots
  <2>1. old \subseteq filled /\ details \subseteq filled /\ filled \subseteq Slots
      BY <1>1, <1>3 DEF KeepsTo, EInv, ReportedWasFilled, TypeOK
  <2>2. job.kind = "clear" \/ job.to \in filled
      BY <1>2, <1>3 DEF KeepsTo
  <2> QED BY <1>2, <2>1, <2>2
<1>6. TypeOK' /\ ReportedWasFilled' /\ SlotsHaveDevFiles'
    BY <1>2, <1>4, <1>5 DEF EInv, TypeOK, ReportedWasFilled, SlotsHaveDevFiles
<1>7. PICK q : q = jobs'[j]
    OBVIOUS
<1>8. ASSUME jobs[j].alone
      PROVE  InHand(q, disk', exists', details', routed')
  <2>1. /\ job.kind # "pack" /\ disk[job.to] = job.want /\ (job.kind \in Fillers => exists)
        /\ HasKept(job, disk)
      BY <1>1, <1>2, <1>8, KnownJob DEF InHand, AtEnd
  <2>2. q.pc = "list" /\ Alike(q, job)
      BY <1>4, <1>7
  <2>3. job.kind \in Fillers => job.to \in details'
      BY <1>2, <2>1 DEF Fillers
  <2>4. AtEnd(q, disk', details', routed', exists' /\ \E s \in Slots : disk'[s] # NoDir)
      BY <1>2, <2>1, <2>2, <2>3 DEF AtEnd, Alike
  <2>5. HasKept(q, disk')
      BY <1>2, <2>1, <2>2 DEF HasKept, Alike
  <2> QED BY <1>2, <2>1, <2>2, <2>4, <2>5, ByStage DEF Alike
<1>9. ~Ready(j)
    BY <1>1, <1>2 DEF Ready
<1> QED BY <1>1, <1>2, <1>4, <1>6, <1>7, <1>8, <1>9, StepKeeps

\* The route table is computed.
LEMMA ListKeeps ==
    ASSUME EInv, AInv, NEW j \in Jobs, List(j)
    PROVE  EInv' /\ AInv'
<1>1. PICK job, route : job = jobs[j] /\ route = Routable
    OBVIOUS
<1>2. /\ job.pc = "list" /\ jobs' = [jobs EXCEPT ![j] = [jobs[j] EXCEPT !.pc = "install", !.route = route]]
      /\ UNCHANGED <<exists, details, disk, routed, made, faults, asked, inDev, filled>>
    BY <1>1 DEF List
<1>3. job \in Job /\ jobs \in [Jobs -> Job] /\ route \in BOOLEAN
    BY <1>1, KnownJob DEF Routable, EInv, TypeOK
<1> DEFINE r == [job EXCEPT !.pc = "install", !.route = route]
<1>4. r \in Job /\ r.pc = "install" /\ r.route = route /\ Alike(r, job) /\ r.out = job.out
    BY <1>3 DEF Job, Alike
<1>5. jobs' = [jobs EXCEPT ![j] = r]
    BY <1>1, <1>2
<1> HIDE DEF r
<1>6. /\ jobs' \in [Jobs -> Job] /\ jobs'[j] = r /\ \A k \in Jobs \ {j} : jobs'[k] = jobs[k]
    BY <1>3, <1>4, <1>5
<1>7. TypeOK' /\ ReportedWasFilled' /\ SlotsHaveDevFiles'
    BY <1>2, <1>6 DEF EInv, TypeOK, ReportedWasFilled, SlotsHaveDevFiles
<1>8. ASSUME jobs[j].alone
      PROVE  InHand(r, disk', exists', details', routed')
  <2>1. /\ job.kind # "pack" /\ disk[job.to] = job.want /\ (job.kind \in Fillers => exists)
        /\ (job.kind \in Fillers => job.to \in details) /\ HasKept(job, disk)
      BY <1>1, <1>2, <1>8, KnownJob DEF InHand, AtEnd
  <2>2. route = (exists /\ \E s \in Slots : disk[s] # NoDir)
      BY <1>1 DEF Routable
  <2>3. AtEnd(r, disk', details', routed', exists' /\ \E s \in Slots : disk'[s] # NoDir)
      BY <1>2, <1>4, <2>1, <2>2 DEF AtEnd, Alike
  <2>4. HasKept(r, disk')
      BY <1>2, <1>4, <2>1 DEF HasKept, Alike
  <2> QED BY <1>2, <1>4, <2>1, <2>3, <2>4, ByStage DEF Alike
<1>9. ~Ready(j)
    BY <1>1, <1>2 DEF Ready
<1> QED BY <1>1, <1>2, <1>4, <1>6, <1>7, <1>8, <1>9, StepKeeps

\* The route table is put in place.
LEMMA InstallKeeps ==
    ASSUME EInv, AInv, NEW j \in Jobs, Install(j)
    PROVE  EInv' /\ AInv'
<1>1. PICK job : job = jobs[j]
    OBVIOUS
<1>2. /\ job.pc = "install" /\ routed' = job.route /\ Goes(j, "done")
      /\ UNCHANGED <<exists, details, disk, made, faults, asked, inDev, filled>>
    BY <1>1 DEF Install
<1>3. job \in Job /\ jobs \in [Jobs -> Job] /\ job.route \in BOOLEAN
    BY <1>1, KnownJob DEF Job
<1>4. /\ jobs' \in [Jobs -> Job] /\ \A k \in Jobs \ {j} : jobs'[k] = jobs[k]
      /\ jobs'[j].pc = "done" /\ Alike(jobs'[j], job) /\ SameHand(jobs'[j], job)
    BY <1>1, <1>2, <1>3, GoesOn DEF Pcs
<1>5. TypeOK' /\ ReportedWasFilled' /\ SlotsHaveDevFiles'
    BY <1>2, <1>3, <1>4 DEF EInv, TypeOK, ReportedWasFilled, SlotsHaveDevFiles
<1>6. PICK q : q = jobs'[j]
    OBVIOUS
<1>7. ASSUME jobs[j].alone
      PROVE  InHand(q, disk', exists', details', routed')
  <2>1. /\ job.kind # "pack" /\ disk[job.to] = job.want /\ (job.kind \in Fillers => exists)
        /\ (job.kind \in Fillers => job.to \in details) /\ HasKept(job, disk)
        /\ job.route = (exists /\ \E s \in Slots : disk[s] # NoDir)
      BY <1>1, <1>2, <1>7, KnownJob DEF InHand, AtEnd
  <2>2. q.pc = "done" /\ Alike(q, job)
      BY <1>4, <1>6
  <2>3. AtEnd(q, disk', details', routed', exists' /\ \E s \in Slots : disk'[s] # NoDir)
      BY <1>2, <2>1, <2>2 DEF AtEnd, Alike
  <2>4. HasKept(q, disk')
      BY <1>2, <2>1, <2>2 DEF HasKept, Alike
  <2> QED BY <1>2, <2>1, <2>2, <2>3, <2>4, ByStage DEF Alike
<1>8. ~Ready(j)
    BY <1>1, <1>2 DEF Ready
<1> QED BY <1>1, <1>2, <1>4, <1>5, <1>6, <1>7, <1>8, StepKeeps

\* Two fields of a job are set.
SetTodo(js, j, pc, todo) == [js EXCEPT ![j].pc = pc, ![j].todo = todo]
SetOut(js, j, todo, p, new) == [js EXCEPT ![j].todo = todo, ![j].out[p] = new]

\* A copy, or an archive, is begun.
LEMMA OpenKeeps ==
    ASSUME EInv, AInv, NEW j \in Jobs, Open(j)
    PROVE  EInv' /\ AInv'
<1>1. PICK job, to, found : /\ job = jobs[j] /\ to = job.to
                            /\ found = IF job.from = "input" THEN job.input ELSE In(job.from)
    OBVIOUS
<1>2. /\ job.pc = "open"
      /\ UNCHANGED <<exists, details, routed, made, faults, asked, inDev, filled>>
    BY <1>1 DEF Open
<1>3. /\ job \in Job /\ jobs \in [Jobs -> Job] /\ disk \in [Dirs -> Files \cup {NoDir}] /\ KeepsTo(job, filled)
      /\ to \in Slots \cup {"out"} /\ job.from \in Slots \cup {"input"} /\ job.input \in Files
      /\ Slots \subseteq Dirs
    BY <1>1, <1>2, KnownJob DEF Job, Dirs
<1>4. /\ found = Source(job, disk) /\ found \in Files
      /\ to \in Slots => In(to) = FilesOf(disk[to]) /\ In(to) \in Files
  <2>1. \A s \in Slots : In(s) = FilesOf(disk[s]) /\ FilesOf(disk[s]) \in Files
      BY <1>3, FilesThere DEF In, FilesOf
  <2> QED BY <1>1, <1>3, <2>1 DEF Source
<1>5. Present(found) \in SUBSET Paths
    BY DEF Present
<1>6. \/ job.from # "input" /\ disk[job.from] = NoDir /\ Goes(j, "failed") /\ disk' = disk
      \/ /\ job.from # "input" => disk[job.from] # NoDir
         /\ jobs' = SetTodo(jobs, j, "fill", Present(found))
         /\ disk' = IF to \in Slots THEN [disk EXCEPT ![to] = In(to)] ELSE disk
    BY <1>1 DEF Open, SetTodo
<1>7. ~Ready(j)
    BY <1>1, <1>2 DEF Ready
<1>8. CASE Goes(j, "failed") /\ disk' = disk
  <2>1. /\ jobs' \in [Jobs -> Job] /\ \A k \in Jobs \ {j} : jobs'[k] = jobs[k]
        /\ jobs'[j].pc = "failed" /\ Alike(jobs'[j], job) /\ SameHand(jobs'[j], job)
      BY <1>1, <1>3, <1>8, GoesOn DEF Pcs
  <2>2. TypeOK' /\ ReportedWasFilled' /\ SlotsHaveDevFiles'
      BY <1>2, <1>8, <2>1 DEF EInv, TypeOK, ReportedWasFilled, SlotsHaveDevFiles
  <2>3. PICK q : q = jobs'[j]
      OBVIOUS
  <2>4. ASSUME jobs[j].alone
        PROVE  InHand(q, disk', exists', details', routed')
    <3>1. HasKept(job, disk)
        BY <1>1, <2>4, KnownJob DEF InHand
    <3>2. HasKept(q, disk')
        BY <1>2, <1>8, <2>1, <2>3, <3>1 DEF HasKept, Alike
    <3> QED BY <2>1, <2>3, <3>2, ByStage
  <2> QED BY <1>1, <1>2, <1>7, <2>1, <2>2, <2>3, <2>4, StepKeeps
<1>9. CASE /\ job.from # "input" => disk[job.from] # NoDir
           /\ jobs' = SetTodo(jobs, j, "fill", Present(found))
           /\ disk' = IF to \in Slots THEN [disk EXCEPT ![to] = In(to)] ELSE disk
  <2>1. PICK todo : todo = Present(found) /\ todo \in SUBSET Paths
      BY <1>5
  <2> DEFINE q == [job EXCEPT !.pc = "fill", !.todo = todo]
  <2>2. q \in Job /\ q.pc = "fill" /\ q.todo = todo /\ q.out = job.out /\ Alike(q, job)
      BY <1>3, <2>1 DEF Job, Alike
  <2>3. jobs' = [jobs EXCEPT ![j] = q]
    <3>1. jobs' = SetTodo(jobs, j, "fill", todo)
        BY <1>9, <2>1
    <3>2. SetTodo(jobs, j, "fill", todo) = [jobs EXCEPT ![j] = [jobs[j] EXCEPT !.pc = "fill", !.todo = todo]]
        BY <1>3 DEF SetTodo, Job
    <3> QED BY <1>1, <3>1, <3>2
  <2> HIDE DEF q
  <2>4. /\ jobs' \in [Jobs -> Job] /\ jobs'[j] = q /\ \A k \in Jobs \ {j} : jobs'[k] = jobs[k]
      BY <1>3, <2>2, <2>3
  <2>5. /\ disk' \in [Dirs -> Files \cup {NoDir}]
        /\ \A d \in Dirs : disk'[d] = IF d = to THEN FilesOf(disk[to]) ELSE disk[d]
    <3> HIDE DEF Files, Dirs, Slots
    <3>1. CASE to \in Slots
        BY <1>3, <1>4, <1>9, <3>1
    <3>2. CASE to \notin Slots
      <4>1. to \notin Dirs
          BY <1>3, <3>2 DEF Dirs, Slots
      <4> QED BY <1>3, <1>9, <3>2, <4>1
    <3> QED BY <3>1, <3>2
  <2>6. SlotsHaveDevFiles'
    <3>1. ASSUME NEW s \in Slots, NEW p \in Paths, disk'[s] # NoDir
          PROVE  disk'[s][p] \in inDev \cup {None, Torn}
      <4>1. SlotsHaveDevFiles /\ s \in Dirs
          BY <1>3 DEF EInv
      <4>2. FilesOf(disk[s])[p] \in {None, disk[s][p]}
          BY DEF FilesOf, Empty
      <4>3. CASE disk[s] = NoDir
          BY <2>5, <3>1, <4>1, <4>3 DEF FilesOf, Empty
      <4>4. CASE disk[s] # NoDir
          BY <2>5, <3>1, <4>1, <4>2, <4>4 DEF SlotsHaveDevFiles
      <4> QED BY <4>3, <4>4
    <3> QED BY <1>2, <3>1 DEF SlotsHaveDevFiles
  <2>7. TypeOK' /\ ReportedWasFilled'
      BY <1>2, <2>4, <2>5 DEF EInv, TypeOK, ReportedWasFilled
  <2>8. ASSUME jobs[j].alone
        PROVE  InHand(q, disk', exists', details', routed')
    <3>1. AtOpen(job, disk) /\ HasKept(job, disk) /\ (job.kind \in Fillers => exists)
        BY <1>1, <1>2, <2>8, KnownJob DEF InHand
    <3>2. /\ job.kind \in {"deploy", "apply", "pack"}
          /\ job.kind # "pack" => disk[to] = NoDir /\ to \in Slots
          /\ job.kind = "pack" => job.out = Empty /\ to = "out"
          /\ IF job.from = "input" THEN job.want = job.input ELSE job.want = disk[job.from] /\ job.from # to
        BY <1>1, <1>2, <1>3, <3>1 DEF AtOpen, KeepsTo
    <3>3. job.want = found /\ job.want \in Files
        BY <1>4, <1>9, <3>2 DEF Source, FilesOf
    <3>4. job.from # "input" => job.from # to /\ disk'[job.from] = job.want
        BY <1>3, <2>5, <3>2
    <3>5. Source(q, disk') = job.want
        BY <1>4, <1>9, <2>2, <3>2, <3>3, <3>4 DEF Source, FilesOf, Alike
    <3>6. \A p \in Paths \ todo : job.want[p] = None
        BY <2>1, <3>3 DEF Present
    <3>7. job.kind # "pack" => disk'[to] = Empty /\ Empty # NoDir
      <4>1. Empty # NoDir
          BY NothingTyped, SlotsAssumption DEF Files, Content
      <4> QED BY <1>3, <2>5, <3>2, <4>1 DEF FilesOf
    <3>8. \A p \in Paths : Empty[p] = None
        BY DEF Empty
    <3>9. /\ q.kind = job.kind /\ q.from = job.from /\ q.to = to /\ q.want = job.want /\ q.had = job.had
        BY <1>1, <2>2 DEF Alike
    <3>10. /\ q.kind \in Fillers \cup {"pack"} /\ q.want \in Files
           /\ q.from # "input" => q.from # q.to /\ disk'[q.from] = q.want
           /\ \A p \in q.todo : Source(q, disk')[p] = q.want[p]
           /\ q.kind = "pack" => \A p \in Paths \ q.todo : q.out[p] = q.want[p]
        BY <2>2, <3>2, <3>3, <3>4, <3>5, <3>6, <3>8, <3>9 DEF Fillers
    <3>11. q.kind # "pack" =>
             /\ \A p \in Paths \ q.todo : FilesOf(disk'[q.to])[p] = q.want[p]
             /\ disk'[q.to] # NoDir
        BY <2>2, <3>6, <3>7, <3>8, <3>9 DEF FilesOf
    <3>12. AtFill(q, disk')
        BY <3>10, <3>11 DEF AtFill
    <3>13. disk'["bak"] = disk["bak"]
        BY <1>3, <2>5 DEF Dirs, Slots
    <3>14. HasKept(q, disk')
        BY <1>2, <2>2, <3>1, <3>9, <3>13 DEF HasKept
    <3> QED BY <1>2, <2>2, <3>1, <3>9, <3>12, <3>14, ByStage
  <2> QED BY <1>1, <1>2, <1>7, <2>2, <2>4, <2>6, <2>7, <2>8, StepKeeps
<1> QED BY <1>6, <1>8, <1>9

\* A file is written, into a slot or an archive.
LEMMA FillKeeps ==
    ASSUME EInv, AInv, NEW j \in Jobs, Fill(j)
    PROVE  EInv' /\ AInv'
<1>1. PICK job, to, p, new :
        /\ job = jobs[j] /\ to = job.to /\ p = Min(job.todo)
        /\ new = IF job.from = "input" THEN job.input[p] ELSE In(job.from)[p]
    OBVIOUS
<1>2. /\ job.pc = "fill" /\ job.todo # {}
      /\ UNCHANGED <<exists, details, routed, made, faults, asked, filled>>
    BY <1>1 DEF Fill
<1>3. \/ Goes(j, "failed") /\ UNCHANGED <<disk, inDev>>
      \/ /\ to = "out"
         /\ jobs' = [jobs EXCEPT ![j].todo = @ \ {p}, ![j].out[p] = new] /\ UNCHANGED <<disk, inDev>>
      \/ /\ to # "out" /\ new # None
         /\ disk' = [disk EXCEPT ![to] = [In(to) EXCEPT ![p] = new]]
         /\ inDev' = IF to = "web" /\ new # Torn THEN inDev \cup {new} ELSE inDev
         /\ jobs' = [jobs EXCEPT ![j].todo = @ \ {p}]
    BY <1>1 DEF Fill
<1>4. /\ job \in Job /\ jobs \in [Jobs -> Job] /\ disk \in [Dirs -> Files \cup {NoDir}] /\ KeepsTo(job, filled)
      /\ to \in Slots \cup {"out"} /\ job.from \in Slots \cup {"input"} /\ job.input \in Files /\ job.out \in Files
      /\ Slots \subseteq Dirs /\ job.todo \subseteq Paths
    BY <1>1, KnownJob DEF Job, Dirs
<1>5. p \in job.todo /\ p \in Paths
    BY <1>1, <1>2, <1>4, MinIsThere, SlotsAssumption
<1>6. \A s \in Slots : In(s) = FilesOf(disk[s]) /\ FilesOf(disk[s]) \in Files
    BY <1>4, FilesThere DEF In, FilesOf
<1>7. new = Source(job, disk)[p] /\ new \in Content
  <2>1. Source(job, disk) \in Files
      BY <1>4, <1>6 DEF Source
  <2>2. new = Source(job, disk)[p]
      BY <1>1, <1>4, <1>6 DEF Source
  <2> QED BY <1>5, <2>1, <2>2 DEF Files
<1>8. ~Ready(j)
    BY <1>1, <1>2 DEF Ready
<1>9. ASSUME jobs[j].alone
      PROVE  AtFill(job, disk) /\ HasKept(job, disk) /\ (job.kind \in Fillers => exists)
    BY <1>1, <1>2, <1>9, KnownJob DEF InHand
<1>10. CASE Goes(j, "failed") /\ UNCHANGED <<disk, inDev>>
  <2>1. /\ jobs' \in [Jobs -> Job] /\ \A k \in Jobs \ {j} : jobs'[k] = jobs[k]
        /\ jobs'[j].pc = "failed" /\ Alike(jobs'[j], job) /\ SameHand(jobs'[j], job)
      BY <1>1, <1>4, <1>10, GoesOn DEF Pcs
  <2>2. TypeOK' /\ ReportedWasFilled' /\ SlotsHaveDevFiles'
      BY <1>2, <1>10, <2>1 DEF EInv, TypeOK, ReportedWasFilled, SlotsHaveDevFiles
  <2>3. PICK q : q = jobs'[j]
      OBVIOUS
  <2>4. ASSUME jobs[j].alone
        PROVE  InHand(q, disk', exists', details', routed')
    <3>1. HasKept(q, disk')
        BY <1>2, <1>9, <1>10, <2>1, <2>3, <2>4 DEF HasKept, Alike
    <3> QED BY <2>1, <2>3, <3>1, ByStage
  <2> QED BY <1>1, <1>2, <1>8, <2>1, <2>2, <2>3, <2>4, StepKeeps
<1>11. PICK todo : todo = job.todo \ {p}
    OBVIOUS
<1>12. CASE /\ to = "out"
            /\ jobs' = [jobs EXCEPT ![j].todo = @ \ {p}, ![j].out[p] = new] /\ UNCHANGED <<disk, inDev>>
  <2>1. PICK out : out = [job.out EXCEPT ![p] = new]
      OBVIOUS
  <2>2. out \in Files /\ \A x \in Paths : out[x] = IF x = p THEN new ELSE job.out[x]
      BY <1>4, <1>5, <1>7, <2>1 DEF Files
  <2> DEFINE q == [job EXCEPT !.todo = todo, !.out = out]
  <2>3. q \in Job /\ q.pc = "fill" /\ q.todo = todo /\ q.out = out /\ Alike(q, job)
    <3> HIDE DEF Files
    <3> QED BY <1>2, <1>4, <1>11, <2>2 DEF Job, Alike
  <2>4. jobs' = [jobs EXCEPT ![j] = q]
    <3>1. jobs' = SetOut(jobs, j, todo, p, new)
        BY <1>1, <1>11, <1>12 DEF SetOut
    <3>2. SetOut(jobs, j, todo, p, new) = [jobs EXCEPT ![j] = [jobs[j] EXCEPT !.todo = todo, !.out = [jobs[j].out EXCEPT ![p] = new]]]
        BY <1>4 DEF SetOut, Job
    <3> QED BY <1>1, <2>1, <3>1, <3>2
  <2> HIDE DEF q
  <2>5. /\ jobs' \in [Jobs -> Job] /\ jobs'[j] = q /\ \A k \in Jobs \ {j} : jobs'[k] = jobs[k]
      BY <1>4, <2>3, <2>4
  <2>6. TypeOK' /\ ReportedWasFilled' /\ SlotsHaveDevFiles'
      BY <1>2, <1>12, <2>5 DEF EInv, TypeOK, ReportedWasFilled, SlotsHaveDevFiles
  <2>7. ASSUME jobs[j].alone
        PROVE  InHand(q, disk', exists', details', routed')
    <3>1. job.kind = "pack"
        BY <1>1, <1>4, <1>12 DEF KeepsTo
    <3>2. /\ job.want \in Files
          /\ job.from # "input" => job.from # job.to /\ disk[job.from] = job.want
          /\ \A x \in job.todo : Source(job, disk)[x] = job.want[x]
          /\ \A x \in Paths \ job.todo : job.out[x] = job.want[x]
        BY <1>2, <1>9, <2>7, <3>1 DEF AtFill
    <3>3. /\ q.kind = "pack" /\ q.from = job.from /\ q.to = job.to /\ q.want = job.want /\ q.input = job.input
        BY <2>3, <3>1 DEF Alike
    <3>4. \A x \in Paths \ todo : out[x] = job.want[x]
        BY <1>5, <1>7, <1>11, <2>2, <3>2
    <3>5. \A x \in todo : Source(q, disk')[x] = job.want[x]
        BY <1>11, <1>12, <3>2, <3>3 DEF Source
    <3>6. AtFill(q, disk')
        BY <1>12, <2>3, <3>2, <3>3, <3>4, <3>5 DEF AtFill
    <3>7. HasKept(q, disk')
        BY <3>3 DEF HasKept
    <3>8. q.kind \notin Fillers
        BY <3>3 DEF Fillers
    <3> QED BY <2>3, <3>6, <3>7, <3>8, ByStage
  <2> QED BY <1>1, <1>2, <1>8, <2>3, <2>5, <2>6, <2>7, StepKeeps
<1>13. CASE /\ to # "out" /\ new # None
            /\ disk' = [disk EXCEPT ![to] = [In(to) EXCEPT ![p] = new]]
            /\ inDev' = IF to = "web" /\ new # Torn THEN inDev \cup {new} ELSE inDev
            /\ jobs' = [jobs EXCEPT ![j].todo = @ \ {p}]
  <2> DEFINE q == [job EXCEPT !.todo = todo]
  <2>1. q \in Job /\ q.pc = "fill" /\ q.todo = todo /\ Alike(q, job) /\ q.out = job.out
      BY <1>2, <1>4, <1>11 DEF Job, Alike
  <2>2. jobs' = [jobs EXCEPT ![j] = q]
      BY <1>1, <1>11, <1>13
  <2> HIDE DEF q
  <2>3. /\ jobs' \in [Jobs -> Job] /\ jobs'[j] = q /\ \A k \in Jobs \ {j} : jobs'[k] = jobs[k]
      BY <1>4, <2>1, <2>2
  <2>4. to \in Slots /\ to \in Dirs /\ job.kind # "pack"
      BY <1>1, <1>4, <1>13 DEF KeepsTo
  <2>5. PICK dir : dir = [In(to) EXCEPT ![p] = new]
      OBVIOUS
  <2>6. /\ dir \in Files /\ dir # NoDir
        /\ \A x \in Paths : dir[x] = IF x = p THEN new ELSE FilesOf(disk[to])[x]
    <3>1. PICK old : old = FilesOf(disk[to]) /\ old \in Files /\ dir = [old EXCEPT ![p] = new]
        BY <1>6, <2>4, <2>5
    <3>2. dir \in Files /\ \A x \in Paths : dir[x] = IF x = p THEN new ELSE old[x]
        BY <1>5, <1>7, <3>1 DEF Files
    <3>3. NoDir \notin Files
        BY SlotsAssumption DEF Files, Content
    <3> QED BY <3>1, <3>2, <3>3
  <2>7. disk' \in [Dirs -> Files \cup {NoDir}] /\ \A d \in Dirs : disk'[d] = IF d = to THEN dir ELSE disk[d]
    <3> HIDE DEF Files, Dirs, Slots
    <3> QED BY <1>4, <1>13, <2>4, <2>5, <2>6
  <2>8. inDev' \subseteq 1..MaxVersions /\ inDev \subseteq inDev' /\ (to = "web" => new \in inDev' \cup {Torn})
    <3>1. new = Torn \/ new \in 1..MaxVersions
        BY <1>7, <1>13 DEF Content
    <3>2. inDev \subseteq 1..MaxVersions
        BY DEF EInv, TypeOK
    <3> QED BY <1>13, <3>1, <3>2
  <2>9. new \in inDev' \cup {Torn}
    <3>1. CASE to = "web"
        BY <2>8, <3>1
    <3>2. CASE to # "web"
      <4>1. job.from \in Slots
          BY <1>1, <1>4, <3>2 DEF KeepsTo
      <4>2. new = FilesOf(disk[job.from])[p]
          BY <1>7, <4>1 DEF Source, Slots
      <4>3. disk[job.from] # NoDir
          BY <1>5, <1>13, <4>2 DEF FilesOf, Empty
      <4> QED BY <1>5, <1>13, <2>8, <4>1, <4>2, <4>3 DEF FilesOf, EInv, SlotsHaveDevFiles
    <3> QED BY <3>1, <3>2
  <2>10. SlotsHaveDevFiles'
    <3>1. ASSUME NEW s \in Slots, NEW x \in Paths, disk'[s] # NoDir
          PROVE  disk'[s][x] \in inDev' \cup {None, Torn}
      <4>1. SlotsHaveDevFiles /\ s \in Dirs
          BY <1>4 DEF EInv
      <4>2. disk[s] # NoDir => disk[s][x] \in inDev' \cup {None, Torn}
          BY <2>8, <4>1 DEF SlotsHaveDevFiles
      <4>3. FilesOf(disk[s])[x] \in inDev' \cup {None, Torn}
          BY <4>2 DEF FilesOf, Empty
      <4>4. CASE s = to
          BY <2>6, <2>7, <2>9, <4>1, <4>3, <4>4
      <4>5. CASE s # to
          BY <2>7, <3>1, <4>1, <4>2, <4>5
      <4> QED BY <4>4, <4>5
    <3> QED BY <3>1 DEF SlotsHaveDevFiles
  <2>11. TypeOK' /\ ReportedWasFilled'
      BY <1>2, <2>3, <2>7, <2>8 DEF EInv, TypeOK, ReportedWasFilled
  <2>12. ASSUME jobs[j].alone
         PROVE  InHand(q, disk', exists', details', routed')
    <3>1. /\ job.kind \in Fillers \cup {"pack"} /\ job.want \in Files
          /\ job.from # "input" => job.from # to /\ disk[job.from] = job.want
          /\ \A x \in job.todo : Source(job, disk)[x] = job.want[x]
          /\ \A x \in Paths \ job.todo : FilesOf(disk[to])[x] = job.want[x]
        BY <1>1, <1>2, <1>9, <2>4, <2>12 DEF AtFill
    <3>2. /\ q.kind = job.kind /\ q.from = job.from /\ q.to = to /\ q.want = job.want
          /\ q.input = job.input /\ q.had = job.had
        BY <1>1, <2>1 DEF Alike
    <3>3. job.from # "input" => disk'[job.from] = disk[job.from]
        BY <1>4, <2>7, <3>1
    <3>4. Source(q, disk') = Source(job, disk)
        BY <3>2, <3>3 DEF Source
    <3>5. disk'[to] = dir
        BY <2>4, <2>7
    <3>6. \A x \in Paths \ todo : FilesOf(disk'[to])[x] = job.want[x]
        BY <1>5, <1>7, <1>11, <2>6, <3>1, <3>5 DEF FilesOf
    <3>7. \A x \in todo : Source(q, disk')[x] = job.want[x]
        BY <1>11, <3>1, <3>4
    <3>8. AtFill(q, disk')
        BY <2>1, <2>4, <2>6, <3>1, <3>2, <3>3, <3>5, <3>6, <3>7 DEF AtFill
    <3>9. disk'["bak"] = disk["bak"]
        BY <2>4, <2>7 DEF Dirs, Slots
    <3>10. HasKept(q, disk')
        BY <1>2, <1>9, <2>1, <2>12, <3>2, <3>9 DEF HasKept
    <3> QED BY <1>2, <1>9, <2>1, <2>12, <3>2, <3>8, <3>10, ByStage
  <2> QED BY <1>1, <1>2, <1>8, <2>1, <2>3, <2>10, <2>11, <2>12, StepKeeps
<1> QED BY <1>3, <1>10, <1>12, <1>13

\* All files are written.
LEMMA FilledKeeps ==
    ASSUME EInv, AInv, NEW j \in Jobs, Filled(j)
    PROVE  EInv' /\ AInv'
<1>1. PICK job, to, pc :
        /\ job = jobs[j] /\ to = job.to
        /\ pc = IF job.kind # "pack" THEN "save" ELSE IF Present(job.out) = {} THEN "failed" ELSE "done"
    OBVIOUS
<1>2. /\ job.pc = "fill" /\ job.todo = {} /\ Goes(j, pc)
      /\ filled' = IF to \in Slots THEN filled \cup {to} ELSE filled
      /\ UNCHANGED <<exists, details, disk, routed, made, faults, asked, inDev>>
    BY <1>1 DEF Filled
<1>3. /\ job \in Job /\ jobs \in [Jobs -> Job] /\ disk \in [Dirs -> Files \cup {NoDir}] /\ KeepsTo(job, filled)
      /\ to \in Slots \cup {"out"} /\ job.out \in Files /\ Slots \subseteq Dirs
    BY <1>1, KnownJob DEF Job, Dirs
<1>4. /\ jobs' \in [Jobs -> Job] /\ \A k \in Jobs \ {j} : jobs'[k] = jobs[k]
      /\ jobs'[j].pc = pc /\ Alike(jobs'[j], job) /\ SameHand(jobs'[j], job)
    BY <1>1, <1>2, <1>3, GoesOn DEF Pcs
<1>5. filled \subseteq filled' /\ filled' \subseteq Slots
    BY <1>2 DEF EInv, TypeOK
<1>6. TypeOK' /\ ReportedWasFilled' /\ SlotsHaveDevFiles'
    BY <1>2, <1>4, <1>5 DEF EInv, TypeOK, ReportedWasFilled, SlotsHaveDevFiles
<1>7. PICK q : q = jobs'[j]
    OBVIOUS
<1>8. KeepsTo(q, filled')
    BY <1>1, <1>2, <1>3, <1>4, <1>5, <1>7 DEF KeepsTo, Alike
<1>9. ASSUME jobs[j].alone
      PROVE  InHand(q, disk', exists', details', routed')
  <2>1. AtFill(job, disk) /\ HasKept(job, disk) /\ (job.kind \in Fillers => exists)
      BY <1>1, <1>2, <1>9, KnownJob DEF InHand
  <2>2. /\ q.pc = pc /\ q.kind = job.kind /\ q.to = to /\ q.want = job.want /\ q.had = job.had /\ q.out = job.out
      BY <1>1, <1>4, <1>7 DEF Alike, SameHand
  <2>3. CASE job.kind = "pack"
    <3>1. job.out = job.want
        BY <1>2, <1>3, <2>1, <2>3 DEF AtFill, Files
    <3>2. AtEnd(q, disk', details', routed', exists' /\ \E s \in Slots : disk'[s] # NoDir) /\ HasKept(q, disk')
        BY <1>1, <2>2, <2>3, <3>1 DEF AtEnd, HasKept, Fillers
    <3>3. q.kind \notin Fillers
        BY <2>2, <2>3 DEF Fillers
    <3> QED BY <1>1, <2>2, <2>3, <3>2, <3>3, ByStage
  <2>4. CASE job.kind # "pack"
    <3>1. to \in Slots
        BY <1>1, <1>3, <2>4 DEF KeepsTo
    <3>2. disk[to] = job.want
      <4>1. /\ disk[to] # NoDir /\ job.want \in Files /\ \A x \in Paths : FilesOf(disk[to])[x] = job.want[x]
          BY <1>1, <1>2, <2>1, <2>4 DEF AtFill
      <4>2. disk[to] \in Files /\ \A x \in Paths : disk[to][x] = job.want[x]
          BY <1>3, <3>1, <4>1 DEF FilesOf
      <4> QED BY <4>1, <4>2 DEF Files
    <3>3. AtEnd(q, disk', details', routed', exists' /\ \E s \in Slots : disk'[s] # NoDir)
        BY <1>1, <1>2, <2>2, <2>4, <3>2 DEF AtEnd
    <3>4. HasKept(q, disk')
        BY <1>1, <1>2, <2>1, <2>2, <2>4 DEF HasKept
    <3> QED BY <1>1, <1>2, <2>1, <2>2, <2>4, <3>3, <3>4, ByStage
  <2> QED BY <2>3, <2>4
<1>10. ~Ready(j)
    BY <1>1, <1>2 DEF Ready
<1> QED BY <1>1, <1>2, <1>4, <1>5, <1>6, <1>7, <1>8, <1>9, <1>10, StepKeeps

\* A file operation fails, halfway perhaps.
LEMMA FailsKeeps ==
    ASSUME EInv, AInv, NEW j \in Jobs, Fails(j)
    PROVE  EInv' /\ AInv'
<1>1. PICK job, to, p : job = jobs[j] /\ to = job.to /\ p = Min(job.todo)
    OBVIOUS
<1>2. /\ faults < MaxFaults /\ faults' = faults + 1 /\ Goes(j, "failed")
      /\ UNCHANGED <<exists, details, routed, made, asked, inDev, filled>>
    BY <1>1 DEF Fails
<1>3. PICK left \in SUBSET Paths :
      \/ /\ job.pc = "clear" /\ disk[to] # NoDir
         /\ disk' = [disk EXCEPT ![to] = [x \in Paths |->
                    IF x \in left \/ (job.kind = "folder" /\ x \notin Folder) THEN @[x] ELSE None]]
      \/ /\ job.pc = "fill" /\ job.todo # {} /\ to \in Slots /\ disk[to] # NoDir
         /\ disk' = [disk EXCEPT ![to][p] = Torn]
      \/ job.pc \in {"backup", "rename", "open"} /\ disk' = disk
      \/ job.pc = "save" /\ job.kind # "apply" /\ disk' = disk
    BY <1>1, Zenon DEF Fails
<1>4. /\ job \in Job /\ jobs \in [Jobs -> Job] /\ disk \in [Dirs -> Files \cup {NoDir}] /\ KeepsTo(job, filled)
      /\ to \in Slots \cup {"out"} /\ Slots \subseteq Dirs /\ job.todo \subseteq Paths
    BY <1>1, KnownJob DEF Job, Dirs
<1>5. /\ jobs' \in [Jobs -> Job] /\ \A k \in Jobs \ {j} : jobs'[k] = jobs[k]
      /\ jobs'[j].pc = "failed" /\ Alike(jobs'[j], job) /\ SameHand(jobs'[j], job)
    BY <1>1, <1>2, <1>4, GoesOn DEF Pcs
<1>6. faults' \in 0..MaxFaults
    BY <1>2, SlotsAssumption DEF EInv, TypeOK
\* What is left of a slot was there, or is half a file.
<1>7. PICK dir :
      /\ \/ disk' = disk
         \/ /\ job.pc \in {"clear", "fill"} /\ to \in Slots /\ disk[to] # NoDir
            /\ disk' = [disk EXCEPT ![to] = dir] /\ dir \in Files
            /\ \A x \in Paths : dir[x] \in {disk[to][x], None, Torn}
  <2>1. CASE /\ job.pc = "clear" /\ disk[to] # NoDir
             /\ disk' = [disk EXCEPT ![to] = [x \in Paths |->
                    IF x \in left \/ (job.kind = "folder" /\ x \notin Folder) THEN @[x] ELSE None]]
    <3>1. PICK dir : dir = [x \in Paths |->
                    IF x \in left \/ (job.kind = "folder" /\ x \notin Folder) THEN disk[to][x] ELSE None]
        OBVIOUS
    <3>2. to \in Slots
        BY <1>1, <1>4, <2>1 DEF KeepsTo
    <3>3. disk[to] \in Files
        BY <1>4, <2>1, <3>2
    <3>4. dir \in Files /\ \A x \in Paths : dir[x] \in {disk[to][x], None, Torn}
        BY <3>1, <3>3, NothingTyped DEF Files
    <3>5. disk' = [disk EXCEPT ![to] = dir]
        BY <2>1, <3>1
    <3> QED BY <2>1, <3>2, <3>4, <3>5
  <2>2. CASE /\ job.pc = "fill" /\ job.todo # {} /\ to \in Slots /\ disk[to] # NoDir
             /\ disk' = [disk EXCEPT ![to][p] = Torn]
    <3>1. PICK old, dir : old = disk[to] /\ dir = [old EXCEPT ![p] = Torn]
        OBVIOUS
    <3>2. old \in Files
        BY <1>4, <2>2, <3>1
    <3>3. dir \in Files /\ \A x \in Paths : dir[x] \in {old[x], None, Torn}
        BY <3>1, <3>2, NothingTyped DEF Files
    <3>4. disk' = [disk EXCEPT ![to] = dir]
        BY <2>2, <3>1
    <3> QED BY <2>2, <3>1, <3>3, <3>4
  <2>3. CASE disk' = disk
      BY <2>3
  <2> QED BY <1>3, <2>1, <2>2, <2>3
<1>8. /\ disk' \in [Dirs -> Files \cup {NoDir}]
      /\ \A d \in Dirs : d # to \/ d = "bak" => disk'[d] = disk[d]
      /\ \A s \in Slots : disk'[s] = disk[s] \/ (disk[s] # NoDir /\ \A x \in Paths : disk'[s][x] \in {disk[s][x], None, Torn})
  <2>1. CASE disk' = disk
      BY <1>4, <2>1
  <2>2. CASE /\ to \in Slots /\ disk[to] # NoDir
             /\ disk' = [disk EXCEPT ![to] = dir] /\ dir \in Files
             /\ \A x \in Paths : dir[x] \in {disk[to][x], None, Torn}
    <3>1. \A d \in Dirs : disk'[d] = IF d = to THEN dir ELSE disk[d]
      <4> HIDE DEF Files, Dirs, Slots
      <4> QED BY <1>4, <2>2
    <3>2. disk' \in [Dirs -> Files \cup {NoDir}]
      <4> HIDE DEF Files, Dirs, Slots
      <4> QED BY <1>4, <2>2
    <3>3. to # "bak"
        BY <2>2 DEF Slots
    <3> QED BY <1>4, <2>2, <3>1, <3>2, <3>3
  <2> QED BY <1>7, <2>1, <2>2
<1>9. SlotsHaveDevFiles'
    BY <1>2, <1>8 DEF EInv, SlotsHaveDevFiles
<1>10. TypeOK' /\ ReportedWasFilled'
    BY <1>2, <1>5, <1>6, <1>8 DEF EInv, TypeOK, ReportedWasFilled
<1>11. PICK q : q = jobs'[j]
    OBVIOUS
<1>12. ASSUME jobs[j].alone
       PROVE  InHand(q, disk', exists', details', routed')
  <2>1. AtBackup(job, disk) /\ HasKept(job, disk)
      BY <1>1, <1>12, KnownJob DEF InHand
  <2>2. /\ q.pc = "failed" /\ q.kind = job.kind /\ q.to = to /\ q.had = job.had
      BY <1>1, <1>5, <1>11 DEF Alike
  <2>3. disk'["bak"] = disk["bak"]
      BY <1>8 DEF Dirs
  <2>4. CASE job.pc \in {"backup", "rename"}
      BY <1>1, <1>3, <2>1, <2>2, <2>4, ByStage DEF AtBackup, HasKept
  <2>5. CASE job.pc \in {"open", "fill"}
    <3>1. HasKept(q, disk')
        BY <2>1, <2>2, <2>3, <2>5 DEF HasKept
    <3> QED BY <2>2, <3>1, ByStage
  <2>6. CASE job.pc \in {"clear", "save"}
    <3>1. job.kind # "apply"
        BY <1>3, <1>4, <2>6 DEF KeepsTo
    <3>2. HasKept(q, disk')
        BY <2>2, <3>1 DEF HasKept
    <3> QED BY <2>2, <3>2, ByStage
  <2> QED BY <1>3, <2>4, <2>5, <2>6
<1>13. ~Ready(j)
    BY <1>1, <1>3 DEF Ready
<1> QED BY <1>1, <1>2, <1>5, <1>9, <1>10, <1>11, <1>12, <1>13, StepKeeps

\* The process starts again: no job runs, and none is alone.
LEMMA RestartKeeps ==
    ASSUME EInv, AInv, Restart
    PROVE  EInv' /\ AInv'
<1>1. /\ faults < MaxFaults /\ faults' = faults + 1 /\ jobs' = [j \in Jobs |-> Idle] /\ routed' = Routable
      /\ UNCHANGED <<exists, details, disk, made, asked, inDev, filled>>
    BY DEF Restart
<1>2. faults' \in 0..MaxFaults
    BY <1>1, SlotsAssumption DEF EInv, TypeOK
<1>3. jobs' \in [Jobs -> Job] /\ \A j \in Jobs : jobs'[j] = Idle
    BY <1>1, NothingTyped
<1>4. Routable \in BOOLEAN
    BY DEF EInv, TypeOK, Routable
<1>5. TypeOK' /\ SlotsHaveDevFiles' /\ ReportedWasFilled'
    BY <1>1, <1>2, <1>3, <1>4 DEF EInv, TypeOK, SlotsHaveDevFiles, ReportedWasFilled
<1>6. JobsKeepToSlots' /\ AInv'
    BY <1>3, NothingTyped DEF JobsKeepToSlots, AInv
<1> QED BY <1>5, <1>6 DEF EInv

\* So it starts.
LEMMA InitKeeps ==
    ASSUME Init
    PROVE  EInv /\ AInv
<1>1. jobs \in [Jobs -> Job] /\ \A j \in Jobs : jobs[j] = Idle
    BY NothingTyped DEF Init
<1>2. disk \in [Dirs -> Files \cup {NoDir}] /\ \A s \in Slots : disk[s] = NoDir
    BY DEF Init, Dirs
<1>3. TypeOK
  <2>1. 0 \in 0..MaxVersions /\ 0 \in 0..MaxFaults /\ 0 \in 0..MaxRequests
      BY SlotsAssumption
  <2> QED BY <1>1, <1>2, <2>1 DEF Init, TypeOK
<1>4. SlotsHaveDevFiles /\ ReportedWasFilled
    BY <1>2 DEF Init, SlotsHaveDevFiles, ReportedWasFilled
<1>5. JobsKeepToSlots /\ AInv
    BY <1>1, NothingTyped DEF JobsKeepToSlots, AInv
<1> QED BY <1>3, <1>4, <1>5 DEF EInv

\* Both invariants hold throughout.
LEMMA InvariantsHold == Spec => [](EInv /\ AInv)
<1>1. EInv /\ AInv /\ [Next]_vars => EInv' /\ AInv'
  <2>1. ASSUME EInv, AInv, NEW j \in Jobs, Asks(j)
        PROVE  EInv' /\ AInv'
      BY <2>1, UploadKeeps, UploadFolderKeeps, WriteKeeps, RemoveFileKeeps, ClearWebKeeps, DeployKeeps, ApplyKeeps,
         PackKeeps, DeleteKeeps, CreateKeeps DEF Asks
  <2>2. ASSUME EInv, AInv, NEW j \in Jobs, Runs(j)
        PROVE  EInv' /\ AInv'
      BY <2>2, ClearKeeps, BackupKeeps, RenameKeeps, OpenKeeps, FillKeeps, FilledKeeps, WipeKeeps, SaveKeeps,
         ListKeeps, InstallKeeps, FailsKeeps DEF Runs
  <2>3. ASSUME EInv, AInv, UNCHANGED vars
        PROVE  EInv' /\ AInv'
    <3>1. EInv'
        BY <2>3 DEF vars, EInv, TypeOK, SlotsHaveDevFiles, JobsKeepToSlots, ReportedWasFilled
    <3>2. AInv'
        BY <2>3 DEF vars, AInv, Ready
    <3> QED BY <3>1, <3>2
  <2> QED BY <2>1, <2>2, <2>3, RestartKeeps DEF Next
<1> QED BY <1>1, InitKeeps, PTL DEF Spec

-----------------------------------------------------------------------------
(* Theorems                                                                *)

\* Staging and production only have files that have been in dev, and the report
\* only slots that a job has filled to its end, whatever ran and failed beside it.
THEOREM SlotsHoldWhatWasEarned == Spec => []SlotsAreEarned
<1>1. EInv => SlotsAreEarned
    BY DEF EInv, SlotsHaveDevFiles, SlotsAreEarned, PromotedThroughDev, Slots
<1> QED BY <1>1, InvariantsHold, PTL

\* An op that ran alone has the slot it replaced whole, in the backup or in its
\* place, from its first new file on, also when it fails.
THEOREM TheReplacedIsKept == Spec => []ReplacedSlotIsKept
<1>1. EInv /\ AInv => ReplacedSlotIsKept
  <2> SUFFICES ASSUME EInv, AInv, NEW j \in Jobs,
                      jobs[j].kind = "apply", jobs[j].alone, jobs[j].had # NoDir,
                      jobs[j].pc \in {"fill", "save", "list", "install", "done", "failed"}
               PROVE  jobs[j].had \in {disk["bak"], disk[jobs[j].to]}
      BY DEF ReplacedSlotIsKept
  <2>1. HasKept(jobs[j], disk)
      BY KnownJob DEF InHand
  <2> QED BY <2>1 DEF HasKept
<1> QED BY <1>1, InvariantsHold, PTL

\* A job that ran alone and to its end leaves what it was asked for, the report
\* of it, and the route table as the disk has it.
THEOREM AloneJobsLeaveWhole == Spec => []AloneLeavesWhole
<1>1. EInv /\ AInv => AloneLeavesWhole
  <2> SUFFICES ASSUME EInv, AInv, NEW j \in Jobs, NEW job, job = jobs[j], job.pc = "done", job.alone
               PROVE  /\ IF job.kind = "pack" THEN job.out = job.want ELSE disk[job.to] = job.want
                      /\ job.kind \in Fillers => job.to \in details
                      /\ job.kind # "pack" => routed = Routable
      BY DEF AloneLeavesWhole, Fillers
  <2>1. AtEnd(job, disk, details, routed, exists /\ \E s \in Slots : disk[s] # NoDir)
      BY KnownJob DEF InHand
  <2> QED BY <2>1 DEF AtEnd, Routable
<1> QED BY <1>1, InvariantsHold, PTL


-----------------------------------------------------------------------------
(***************************************************************************)
(* Proofs about Hosts, the addresses apps are published at: for any number *)
(* of names, hosts, apps and requests, the table in memory says what the   *)
(* rows say, and what the rows refer to stays.                             *)
(***************************************************************************)
\* The invariant.  Two requests that are about one thing have crossed in it.
AboutIsApart ==
    \A k, l \in Handlers : k # l => req[k].about \cap req[l].about \subseteq crossed

\* No app comes before its number is given out, and only those that came have files.
AppsInOrder ==
    /\ \A a \in Nonces : Exists(a) => a < nextApp
    /\ \A a \in dirs : a < nextApp

\* Two apps at one name have crossed there, or doubled on it.
NamesAreApart ==
    \A n \in Names \ (crossed \cup doubled) : \A a, b \in On(n) : a = b

\* A request that is going to write an app's row is about the row's references,
\* which are as good as when it checked them.
Backed(g) == g \in crossed \/ ValidSlot(g)
AppWrites(r) ==
    r.at \in {"insert", "update"} =>
        /\ r.row \in App /\ r.app \in (IF r.at = "insert" THEN {0} ELSE Nonces)
        /\ Concerns(r.row.at, r.row.gate) \subseteq r.about
        /\ r.checked => r.row.at \in Names /\ (r.row.at \in crossed \/ On(r.row.at) \subseteq {r.app})
        /\ Backed(r.row.gate)

\* A request that writes a host is about the names it may take off the list, and
\* no app is on those.
Vacated(S) == \A n \in Names \cap S : n \in crossed \/ On(n) = {}
HostWrites(r) ==
    /\ r.at \in {"addHost", "setHost"} =>
        /\ r.id \in Hosts /\ r.host \in Host
        /\ Concerns(r.host.name, r.host.gate) \subseteq r.about
        /\ Vacated(r.about \ {r.host.name})
        /\ Backed(r.host.gate)
    /\ r.at = "dropHost" => r.id \in Hosts /\ Vacated(r.about)

\* Nothing refers to a record that a request is going to delete.
RecordDrops(r) ==
    r.at = "dropRecord" => r.rec \in Records /\ r.rec \in r.about /\ (r.rec \in crossed \/ ~Refs(r.rec))

Sound(r) == AppWrites(r) /\ HostWrites(r) /\ RecordDrops(r)

RequestsAreSound == \A k \in Handlers : Sound(req[k])

RequestsAreRecords == req \in [Handlers -> Request]
RInv ==
    /\ HostsTypeOK /\ RequestsAreRecords
    /\ AboutIsApart /\ AppsInOrder /\ NamesAreApart /\ UsedHostsStay /\ GatesAreRecords
    /\ RequestsAreSound

\* The table.  A rebuild that runs alone has built what the rows say, unless a
\* write has yet to be followed by its own.
NoneBeside ==
    \A k, l \in Handlers : k # l /\ req[k].at = "install" /\ req[l].at = "install" => ~req[k].alone
Settled == \A k \in Handlers : req[k].at # "rebuild"
BuiltIsRight ==
    \A k \in Handlers : req[k].at = "install" /\ req[k].alone /\ Settled => req[k].built = Build
BuiltIsThere == \A k \in Handlers : req[k].at = "install" => req[k].built \in Table
BInv == NoneBeside /\ BuiltIsRight /\ BuiltIsThere /\ TableFollowsTheRows

-----------------------------------------------------------------------------
(* What is derived from the rows                                           *)

\* The app listed last is one of them.
LEMMA LastIsThere ==
    ASSUME NEW S, S \subseteq Nonces
    PROVE  Last(S) \in 0..MaxApps
<1>1. CASE S = {} BY <1>1, HostsAssumption DEF Last
<1>2. CASE S # {}
  <2> DEFINE R == OpToRel(<, Nat)
             T == {MaxApps - a : a \in S}
  <2>1. \A x, y \in Nat : <<x, y>> \in R <=> x < y BY DEF OpToRel
  <2>2. IsWellFoundedOn(R, Nat) BY NatLessThanWellFounded
  <2>3. T \subseteq Nat BY HostsAssumption DEF Nonces
  <2>4. T # {} BY <1>2
  <2> HIDE DEF R, T
  <2>5. PICK x \in T : \A y \in T : ~ (<<y, x>> \in R) BY <2>2, <2>3, <2>4, WFMin
  <2>6. PICK a \in S : x = MaxApps - a BY <2>5 DEF T
  <2>7. \A b \in S : b <= a
    <3> TAKE b \in S
    <3>1. MaxApps - b \in T /\ MaxApps - a \in T BY DEF T
    <3>2. ~(MaxApps - b < MaxApps - a) BY <2>1, <2>3, <2>5, <2>6, <3>1
    <3> QED BY <3>2, HostsAssumption DEF Nonces
  <2>8. (CHOOSE c \in S : \A b \in S : b <= c) \in S BY <2>7
  <2>9. Last(S) \in S BY <1>2, <2>8 DEF Last
  <2>10. Nonces \subseteq 0..MaxApps BY HostsAssumption DEF Nonces
  <2> QED BY <2>9, <2>10
<1> QED BY <1>1, <1>2

\* What is built is a table.
LEMMA BuildIsTable ==
    ASSUME hosts \in [Hosts -> Host \cup {Gone}]
    PROVE  Build \in Table
<1>1. ASSUME NEW n \in Names, Listed(n)
      PROVE  [gate |-> HostNamed(n).gate, app |-> Last(On(n) \cap dirs)] \in Entry
  <2>1. HostNamed(n) \in Host BY <1>1, GoneAssumption DEF Listed, HostNamed
  <2>2. Last(On(n) \cap dirs) \in 0..MaxApps BY LastIsThere DEF On
  <2> QED BY <2>1, <2>2 DEF Entry, Host
<1> QED BY <1>1 DEF Build, Table

\* What is built depends on the hosts and on the apps with files.
LEMMA BuildFollows ==
    ASSUME hosts' = hosts, dirs' = dirs, \A a \in dirs \cap Nonces : apps'[a] = apps[a]
    PROVE  Build' = Build
<1>1. \A n \in Names : (Listed(n) <=> Listed(n)') /\ HostNamed(n)' = HostNamed(n)
  <2> TAKE n \in Names
  <2>1. Listed(n) <=> Listed(n)' BY DEF Listed
  <2>2. HostNamed(n)' = HostNamed(n) BY Zenon DEF HostNamed
  <2> QED BY <2>1, <2>2
<1>2. \A n \in Names : On(n) \cap dirs = (On(n) \cap dirs)' BY DEF On, Exists
<1>3. \A n \in Names : Last(On(n) \cap dirs) = Last(On(n) \cap dirs)'
  <2> TAKE n \in Names
  <2>1. On(n) \cap dirs = (On(n) \cap dirs)' BY <1>2
  <2> QED BY <2>1
<1> QED BY <1>1, <1>3 DEF Build

\* A request doing nothing is a request like any other.
LEMMA NoRequestIs ==
    /\ NoRequest \in Request
    /\ NoRequest.at = "idle" /\ NoRequest.app = 0 /\ NoRequest.row = Gone /\ NoRequest.about = {} /\ NoRequest.checked = FALSE
BY HostsAssumption DEF NoRequest, Request, Gates

\* A request that is only going to rebuild, or to end, is like any other.
LEMMA BareIsRequest ==
    ASSUME NEW at \in {"idle", "join", "rebuild"}
    PROVE  [NoRequest EXCEPT !.at = at] \in Request /\ [NoRequest EXCEPT !.at = at].at = at /\ [NoRequest EXCEPT !.at = at].about = {}
BY NoRequestIs DEF Request

-----------------------------------------------------------------------------
(* Requests                                                                *)

\* A request stays sound when nothing it is about changes against it, or when
\* what does is crossed.
LEMMA SoundStays ==
    ASSUME NEW r, Sound(r), crossed \subseteq crossed',
           \A n \in Names \cap r.about : n \in crossed' \/ On(n)' \subseteq On(n),
           \A g \in Records \cap r.about :
               g \in crossed' \/ ((ValidSlot(g) => ValidSlot(g)') /\ (Refs(g)' => Refs(g)))
    PROVE  Sound(r)'
<1>1. ASSUME NEW g \in Gates, g \in r.about \/ g = NoGate, Backed(g) PROVE Backed(g)'
      BY <1>1 DEF Backed, ValidSlot, Gates
<1>2. ASSUME NEW S, S \subseteq r.about, Vacated(S) PROVE Vacated(S)'
      BY <1>2 DEF Vacated
<1>3. AppWrites(r)'
  <2> SUFFICES ASSUME r.at \in {"insert", "update"} PROVE AppWrites(r)' BY DEF AppWrites
  <2>1. /\ r.row \in App /\ r.app \in (IF r.at = "insert" THEN {0} ELSE Nonces)
        /\ Concerns(r.row.at, r.row.gate) \subseteq r.about
        /\ r.checked => r.row.at \in Names /\ (r.row.at \in crossed \/ On(r.row.at) \subseteq {r.app})
        /\ Backed(r.row.gate)
        BY DEF Sound, AppWrites
  <2>2. r.row.gate \in Gates /\ (r.row.gate \in r.about \/ r.row.gate = NoGate)
        BY <2>1, HostsAssumption DEF App, Concerns, Gates
  <2>3. Backed(r.row.gate)' BY <1>1, <2>1, <2>2
  <2>4. r.checked => r.row.at \in Names /\ (r.row.at \in crossed' \/ On(r.row.at)' \subseteq {r.app})
        BY <2>1, HostsAssumption DEF Concerns
  <2> QED BY <2>1, <2>3, <2>4 DEF AppWrites
<1>4. HostWrites(r)'
  <2>1. ASSUME r.at \in {"addHost", "setHost"}
        PROVE  /\ r.id \in Hosts /\ r.host \in Host
               /\ Concerns(r.host.name, r.host.gate) \subseteq r.about
               /\ Vacated(r.about \ {r.host.name})'
               /\ Backed(r.host.gate)'
    <3>1. /\ r.id \in Hosts /\ r.host \in Host
          /\ Concerns(r.host.name, r.host.gate) \subseteq r.about
          /\ Vacated(r.about \ {r.host.name})
          /\ Backed(r.host.gate)
          BY <2>1 DEF Sound, HostWrites
    <3>2. r.host.gate \in Gates /\ (r.host.gate \in r.about \/ r.host.gate = NoGate)
          BY <3>1, HostsAssumption DEF Host, Concerns, Gates
    <3>3. Backed(r.host.gate)' BY <1>1, <3>1, <3>2
    <3>4. r.about \ {r.host.name} \subseteq r.about OBVIOUS
    <3>5. Vacated(r.about \ {r.host.name})' BY <1>2, <3>1, <3>4
    <3> QED BY <3>1, <3>3, <3>5
  <2>2. ASSUME r.at = "dropHost" PROVE r.id \in Hosts /\ Vacated(r.about)'
        BY <1>2, <2>2 DEF Sound, HostWrites
  <2> QED BY <2>1, <2>2 DEF HostWrites
<1>5. RecordDrops(r)'
      BY DEF Sound, RecordDrops
<1> QED BY <1>3, <1>4, <1>5 DEF Sound

\* What makes a request sound is what it will write and what it is about.
SameTask(q, r) ==
    /\ q.at = r.at /\ q.app = r.app /\ q.row = r.row /\ q.checked = r.checked
    /\ q.id = r.id /\ q.host = r.host /\ q.rec = r.rec /\ q.about = r.about
Writing == {"insert", "update", "addHost", "setHost", "dropHost", "dropRecord"}

\* Two requests that are alike are as sound.
LEMMA AlikeIsSound ==
    ASSUME NEW q, NEW r, SameTask(q, r), Sound(r)
    PROVE  Sound(q)
BY DEF SameTask, Sound, AppWrites, HostWrites, RecordDrops

\* A request that writes none of it is sound.
LEMMA OthersAreSound ==
    ASSUME NEW r, r.at \notin Writing
    PROVE  Sound(r)
BY DEF Writing, Sound, AppWrites, HostWrites, RecordDrops

\* The rows and the history of who shared what.
book == <<apps, nextApp, hosts, records, crossed, doubled, placed>>

\* What is said of the rows holds on while they stay.
LEMMA BookStays ==
    ASSUME RInv, UNCHANGED book, dirs' \subseteq {a \in Nonces : a < nextApp}
    PROVE  AppsInOrder' /\ NamesAreApart' /\ UsedHostsStay' /\ GatesAreRecords'
<1>1. \A n \in Names : On(n)' = On(n) /\ Listed(n)' = Listed(n) BY DEF book, On, Exists, Listed
<1>2. AppsInOrder' BY DEF RInv, AppsInOrder, book, Exists
<1>3. NamesAreApart' BY <1>1 DEF RInv, NamesAreApart, book
<1>4. UsedHostsStay'
      BY <1>1 DEF RInv, UsedHostsStay, book, Exists, Listed
<1>5. GatesAreRecords' BY DEF RInv, GatesAreRecords, book, Exists, ValidSlot
<1> QED BY <1>2, <1>3, <1>4, <1>5

\* A request stays sound while the rows stay.
LEMMA SoundWhileBookStays ==
    ASSUME NEW r, Sound(r), UNCHANGED <<apps, hosts, records>>, crossed \subseteq crossed'
    PROVE  Sound(r)'
<1>1. \A n \in Names \cap r.about : n \in crossed' \/ On(n)' \subseteq On(n) BY DEF On, Exists
<1>2. \A g \in Records \cap r.about :
          g \in crossed' \/ ((ValidSlot(g) => ValidSlot(g)') /\ (Refs(g)' => Refs(g)))
      BY DEF ValidSlot, Refs, Exists
<1> QED BY <1>1, <1>2, SoundStays

\* The steps that write no row: requests go on as they are, or end.
LEMMA QuietKeeps ==
    ASSUME RInv, UNCHANGED book, dirs' \subseteq {a \in Nonces : a < nextApp},
           table' \in Table, stale' \in BOOLEAN, begun' \in 0..MaxChanges,
           req' \in [Handlers -> Request],
           \A k \in Handlers :
               SameTask(req'[k], req[k]) \/ (req'[k].at \notin Writing /\ req'[k].about \subseteq req[k].about)
    PROVE  RInv'
<1>1. HostsTypeOK' BY DEF RInv, HostsTypeOK, book
<1>2. AboutIsApart'
  <2>1. \A k \in Handlers : req'[k].about \subseteq req[k].about BY DEF SameTask
  <2> QED BY <2>1 DEF RInv, AboutIsApart, book
<1>3. AppsInOrder' /\ NamesAreApart' /\ UsedHostsStay' /\ GatesAreRecords' BY BookStays
<1>4. ASSUME NEW k \in Handlers PROVE Sound(req[k])'
  <2>1. PICK q : q = req'[k] OBVIOUS
  <2>2. PICK r : r = req[k] OBVIOUS
  <2>3. Sound(r) BY <2>2 DEF RInv, RequestsAreSound
  <2>4. Sound(q) BY <2>1, <2>2, <2>3, AlikeIsSound, OthersAreSound
  <2>5. Sound(q)' BY <2>4, SoundWhileBookStays DEF book
  <2> QED BY <2>1, <2>5
<1> QED BY <1>1, <1>2, <1>3, <1>4 DEF RInv, RequestsAreRecords, RequestsAreSound

\* A request that arrives keeps the invariant if it is sound.
LEMMA BeginKeeps ==
    ASSUME RInv, NEW h \in Handlers, NEW r \in Request, Begin(h, r), begun < MaxChanges, Sound(r)
    PROVE  RInv'
<1> USE DEF Begin, rows, memory
<1>1. req' \in [Handlers -> Request] BY DEF RInv, RequestsAreRecords
<1>2. HostsTypeOK'
  <2>1. begun' \in 0..MaxChanges BY HostsAssumption DEF RInv, HostsTypeOK
  <2>2. crossed' \subseteq Names \cup Records BY DEF RInv, HostsTypeOK, Request
  <2> QED BY <1>1, <2>1, <2>2 DEF RInv, HostsTypeOK
<1>3. ASSUME NEW k \in Handlers, NEW l \in Handlers, k # l
      PROVE  req'[k].about \cap req'[l].about \subseteq crossed'
  <2>1. \A j \in Handlers : req[j].about \subseteq InFlight BY DEF InFlight
  <2>2. CASE k # h /\ l # h BY <1>3, <2>2 DEF RInv, RequestsAreRecords, AboutIsApart
  <2>3. CASE k = h \/ l = h BY <1>3, <2>1, <2>3 DEF RInv, RequestsAreRecords
  <2> QED BY <2>2, <2>3
<1>4. AboutIsApart' BY <1>3 DEF AboutIsApart
<1>5. \A n \in Names : On(n)' = On(n) /\ Listed(n)' = Listed(n) BY DEF On, Exists, Listed
<1>6. AppsInOrder' BY DEF RInv, AppsInOrder, Exists
<1>7. NamesAreApart' BY <1>5 DEF RInv, NamesAreApart
<1>8. UsedHostsStay' BY <1>5 DEF RInv, UsedHostsStay, Exists, Listed
<1>9. GatesAreRecords' BY DEF RInv, GatesAreRecords, Exists, ValidSlot
<1>10. ASSUME NEW k \in Handlers PROVE Sound(req[k])'
  <2>1. PICK q : q = req'[k] OBVIOUS
  <2>2. Sound(q) BY <2>1 DEF RInv, RequestsAreRecords, RequestsAreSound
  <2>3. Sound(q)' BY <2>2, SoundWhileBookStays
  <2> QED BY <2>1, <2>3
<1> QED BY <1>1, <1>2, <1>4, <1>6, <1>7, <1>8, <1>9, <1>10 DEF RInv, RequestsAreRecords, RequestsAreSound

\* A request that has written its row does no more than rebuild: the others stay
\* sound if what was written crossed them wherever it matters.
LEMMA WriterGoes ==
    ASSUME RInv, NEW h \in Handlers, NEW at \in {"idle", "join", "rebuild"}, GoesTo(h, at), crossed \subseteq crossed',
           \A k \in Handlers \ {h} :
               /\ \A n \in Names \cap req[k].about : n \in crossed' \/ On(n)' \subseteq On(n)
               /\ \A g \in Records \cap req[k].about :
                      g \in crossed' \/ ((ValidSlot(g) => ValidSlot(g)') /\ (Refs(g)' => Refs(g)))
    PROVE  RequestsAreRecords' /\ AboutIsApart' /\ RequestsAreSound'
<1>1. PICK q : q = [NoRequest EXCEPT !.at = at] OBVIOUS
<1>2. q \in Request /\ q.at = at /\ q.about = {} BY <1>1, BareIsRequest
<1>3. req' = [req EXCEPT ![h] = q] BY <1>1 DEF GoesTo
<1>4. req' \in [Handlers -> Request] BY <1>2, <1>3 DEF RInv, RequestsAreRecords
<1>5. \A k \in Handlers : req'[k].about \subseteq req[k].about BY <1>2, <1>3 DEF RInv, RequestsAreRecords
<1>6. AboutIsApart' BY <1>5 DEF RInv, AboutIsApart
<1>7. ASSUME NEW k \in Handlers PROVE Sound(req[k])'
  <2>1. CASE k = h
    <3>1. req'[k] = q BY <1>3, <2>1 DEF RInv, RequestsAreRecords
    <3>2. q.at \notin Writing BY <1>2 DEF Writing
    <3>3. Sound(q)' BY <3>2 DEF Sound, AppWrites, HostWrites, RecordDrops, Writing
    <3> QED BY <3>1, <3>3
  <2>2. CASE k # h
    <3>1. PICK r : r = req[k] OBVIOUS
    <3>2. req'[k] = r BY <1>3, <2>2, <3>1 DEF RInv, RequestsAreRecords
    <3>3. Sound(r) BY <3>1 DEF RInv, RequestsAreSound
    <3>4. /\ \A n \in Names \cap r.about : n \in crossed' \/ On(n)' \subseteq On(n)
          /\ \A g \in Records \cap r.about :
                 g \in crossed' \/ ((ValidSlot(g) => ValidSlot(g)') /\ (Refs(g)' => Refs(g)))
          BY <2>2, <3>1
    <3>5. Sound(r)' BY <3>3, <3>4, SoundStays
    <3> QED BY <3>2, <3>5
  <2> QED BY <2>1, <2>2
<1> QED BY <1>4, <1>6, <1>7 DEF RequestsAreRecords, RequestsAreSound

-----------------------------------------------------------------------------
(* Writes                                                                  *)

\* What a step does when it puts a row of its own at app a.
Writes(h, a) ==
    /\ apps' = [apps EXCEPT ![a] = req[h].row] /\ Lands(h, a, req[h].row.at)
    /\ UNCHANGED <<dirs, hosts, records, memory, begun, crossed>>

\* The app whose row a request writes: the next one, or the one it updates.
Target(h, a) == a \in Nonces /\ IF req[h].at = "insert" THEN a = nextApp ELSE a = req[h].app

\* A row that is written keeps all that is said of rows.
LEMMA LandKeeps ==
    ASSUME RInv, NEW h \in Handlers, req[h].at \in {"insert", "update"}, NEW a, Target(h, a), Writes(h, a),
           nextApp' = IF req[h].at = "insert" THEN nextApp + 1 ELSE nextApp,
           req[h].at = "insert" \/ Exists(a),
           NEW at \in {"join", "rebuild"}, GoesTo(h, at)
    PROVE  RInv'
<1> USE DEF Writes, memory
<1>1. PICK r : r = req[h] OBVIOUS
<1>2. /\ r.row \in App /\ r.row \in App \cup {Gone} /\ r.row # Gone
      /\ r.row.at \in Names \cup {Here} /\ r.row.gate \in Gates
      BY <1>1, GoneAssumption DEF RInv, RequestsAreSound, Sound, AppWrites, App
<1>3. /\ Concerns(r.row.at, r.row.gate) \subseteq r.about
      /\ r.checked => r.row.at \in Names /\ (r.row.at \in crossed \/ On(r.row.at) \subseteq {r.app})
      /\ Backed(r.row.gate)
      /\ IF r.at = "insert" THEN r.app = 0 ELSE r.app = a
      BY <1>1 DEF RInv, RequestsAreSound, Sound, AppWrites, Target
<1>4. a \in Nonces /\ apps \in [Nonces -> App \cup {Gone}] /\ nextApp \in 1..MaxApps + 1
      BY DEF Target, RInv, HostsTypeOK
<1>5. \A b \in Nonces : apps'[b] = IF b = a THEN r.row ELSE apps[b] BY <1>1, <1>4
<1>6. \A n \in Names : On(n)' = IF n = r.row.at THEN On(n) \cup {a} ELSE On(n) \ {a}
      BY <1>2, <1>4, <1>5 DEF On, Exists
<1>7. \A n \in Names : Listed(n)' = Listed(n) BY DEF Listed
<1>8. /\ doubled' = IF r.row.at # Here /\ ~r.checked /\ On(r.row.at) \ {a} # {} THEN doubled \cup {r.row.at} ELSE doubled
      /\ placed' = IF r.row.at # Here /\ Listed(r.row.at) THEN placed \cup {a} ELSE placed \ {a}
      BY <1>1 DEF Lands
<1>9. req' \in [Handlers -> Request] /\ RequestsAreRecords' /\ AboutIsApart' /\ RequestsAreSound'
  <2>1. ASSUME NEW k \in Handlers \ {h}, NEW x \in req[k].about, x \in {r.row.at, r.row.gate} \ {Here, NoGate}
        PROVE  x \in crossed
        BY <1>1, <1>3, <2>1 DEF RInv, AboutIsApart, Concerns
  <2>2. \A n \in Names : n \notin {Here, NoGate} BY HostsAssumption
  <2>3. \A g \in Records : g \notin {Here, NoGate} BY HostsAssumption
  <2>4. \A k \in Handlers \ {h} : \A n \in Names \cap req[k].about : n \in crossed' \/ On(n)' \subseteq On(n)
        BY <1>6, <2>1, <2>2
  <2>5. \A g \in Records : g # r.row.gate /\ Refs(g)' => Refs(g)
        BY <1>5 DEF Refs, Exists
  <2>6. \A k \in Handlers \ {h} : \A g \in Records \cap req[k].about :
            g \in crossed' \/ ((ValidSlot(g) => ValidSlot(g)') /\ (Refs(g)' => Refs(g)))
        BY <2>1, <2>3, <2>5 DEF ValidSlot
  <2>7. RequestsAreRecords' /\ AboutIsApart' /\ RequestsAreSound' BY <2>4, <2>6, WriterGoes
  <2> QED BY <2>7 DEF RequestsAreRecords
<1>10. HostsTypeOK'
  <2>1. apps' \in [Nonces -> App \cup {Gone}] BY <1>1, <1>2, <1>4
  <2>2. nextApp' \in 1..MaxApps + 1 BY <1>4, HostsAssumption DEF Target, Nonces
  <2>3. doubled' \subseteq Names /\ placed' \subseteq Nonces BY <1>2, <1>4, <1>8 DEF RInv, HostsTypeOK
  <2> QED BY <1>9, <2>1, <2>2, <2>3 DEF RInv, HostsTypeOK
<1>11. AppsInOrder'
  <2>1. nextApp \in Nat /\ nextApp' \in Nat /\ nextApp' >= nextApp BY <1>4, HostsAssumption
  <2>2. a < nextApp' BY <1>4, <2>1 DEF Target, RInv, AppsInOrder
  <2>3. \A b \in Nonces : b \in Nat BY DEF Nonces
  <2>4. \A b \in Nonces : Exists(b)' => b < nextApp' BY <1>5, <2>1, <2>2, <2>3 DEF Exists, RInv, AppsInOrder
  <2>5. \A b \in dirs' : b < nextApp' BY <2>1, <2>3 DEF RInv, AppsInOrder, HostsTypeOK
  <2> QED BY <2>4, <2>5 DEF AppsInOrder
<1>12. NamesAreApart'
  <2> SUFFICES ASSUME NEW n \in Names, n \notin crossed, n \notin doubled', NEW b \in On(n)', NEW c \in On(n)'
               PROVE  b = c
      BY DEF NamesAreApart
  <2>1. n \notin doubled BY <1>8
  <2>2. \A d, e \in On(n) : d = e BY <2>1 DEF RInv, NamesAreApart
  <2>3. CASE n # r.row.at BY <1>6, <2>2, <2>3
  <2>4. CASE n = r.row.at
    <3>1. n # Here BY HostsAssumption
    <3>2. r.checked => On(n) \subseteq {a}
      <4>1. 0 \notin On(n) BY DEF On, Nonces
      <4> QED BY <1>3, <2>4, <4>1
    <3>3. ~r.checked => On(n) \ {a} = {} BY <1>8, <2>4, <3>1
    <3>4. On(n) \subseteq {a} BY <3>2, <3>3
    <3> QED BY <1>6, <2>4, <3>4
  <2> QED BY <2>3, <2>4
<1>13. UsedHostsStay'
  <2> DEFINE Serves(n) == \E i \in Hosts : hosts[i] # Gone /\ hosts[i].name = n
  <2>1. ASSUME NEW b \in placed', apps'[b] # Gone, apps'[b].at # Here, apps'[b].at \notin crossed
        PROVE  Serves(apps'[b].at)
    <3>1. b \in Nonces BY <1>10, <2>1 DEF HostsTypeOK
    <3>2. CASE b = a
      <4>1. apps'[b] = r.row BY <1>5, <3>1, <3>2
      <4> QED BY <1>8, <2>1, <3>2, <4>1 DEF Listed
    <3>3. CASE b # a
      <4>1. b \in placed /\ apps'[b] = apps[b] BY <1>5, <1>8, <2>1, <3>1, <3>3
      <4> QED BY <2>1, <4>1 DEF RInv, UsedHostsStay, Exists, Listed
    <3> QED BY <3>2, <3>3
  <2> QED BY <2>1 DEF UsedHostsStay, Exists, Listed
<1>14. GatesAreRecords'
  <2>1. \A b \in Nonces : apps'[b] # Gone /\ apps'[b].gate \notin crossed =>
            apps'[b].gate = NoGate \/ apps'[b].gate \in records
        BY <1>3, <1>5 DEF RInv, GatesAreRecords, Exists, Backed, ValidSlot
  <2> QED BY <2>1 DEF RInv, GatesAreRecords, Exists, ValidSlot
<1> QED BY <1>9, <1>10, <1>11, <1>12, <1>13, <1>14 DEF RInv

\* An app that goes leaves less to be said.
LEMMA DeleteAppKeeps ==
    ASSUME RInv, NEW h \in Handlers, DeleteApp(h)
    PROVE  RInv'
<1> USE DEF memory
<1>1. PICK a : a = req[h].app OBVIOUS
<1>2. /\ GoesTo(h, "rebuild") /\ apps' = [apps EXCEPT ![a] = Gone] /\ dirs' = dirs \ {a} /\ placed' = placed \ {a}
      /\ UNCHANGED <<nextApp, hosts, records, memory, begun, crossed, doubled>>
      BY <1>1 DEF DeleteApp
<1>3. apps \in [Nonces -> App \cup {Gone}] BY DEF RInv, HostsTypeOK
<1>4. \A b \in Nonces : apps'[b] = IF b = a THEN Gone ELSE apps[b] BY <1>2, <1>3
<1>5. \A n \in Names : On(n)' \subseteq On(n) BY <1>4 DEF On, Exists
<1>6. \A g \in Records : Refs(g)' => Refs(g) BY <1>2, <1>4 DEF Refs, Exists
<1>7. RequestsAreRecords' /\ AboutIsApart' /\ RequestsAreSound'
      BY <1>2, <1>5, <1>6, WriterGoes DEF ValidSlot
<1>8. HostsTypeOK' BY <1>2, <1>3, <1>7 DEF RInv, HostsTypeOK, RequestsAreRecords
<1>9. AppsInOrder' BY <1>2, <1>4 DEF RInv, AppsInOrder, Exists
<1>10. NamesAreApart' BY <1>2, <1>5 DEF RInv, NamesAreApart
<1>11. UsedHostsStay' BY <1>2, <1>4 DEF RInv, HostsTypeOK, UsedHostsStay, Exists, Listed
<1>12. GatesAreRecords' BY <1>2, <1>4 DEF RInv, GatesAreRecords, Exists, ValidSlot
<1> QED BY <1>7, <1>8, <1>9, <1>10, <1>11, <1>12 DEF RInv

\* What a request that writes a host does: it puts a row of its own at id i, or
\* takes the row away; no app is on the names that it takes off the list.
HostGoes(h, i, row) ==
    /\ req[h].at \in {"addHost", "setHost", "dropHost"} /\ i = req[h].id /\ i \in Hosts
    /\ row = Gone \/ (row \in Host /\ req[h].at # "dropHost" /\ row = req[h].host)
    /\ req[h].at # "dropHost" /\ row = Gone => hosts[i] = Gone
    /\ hosts' = [hosts EXCEPT ![i] = row] /\ Unlists(h)
    /\ UNCHANGED <<apps, nextApp, dirs, records, memory, begun, doubled, placed>>

\* Such a write keeps the invariant.
LEMMA HostKeeps ==
    ASSUME RInv, NEW h \in Handlers, NEW i, NEW row, HostGoes(h, i, row), GoesTo(h, "rebuild")
    PROVE  RInv'
<1> USE DEF memory, HostGoes
<1>1. PICK r : r = req[h] OBVIOUS
<1>2. Sound(r) BY <1>1 DEF RInv, RequestsAreSound
<1>3. hosts \in [Hosts -> Host \cup {Gone}] BY DEF RInv, HostsTypeOK
<1>4. \A j \in Hosts : hosts'[j] = IF j = i THEN row ELSE hosts[j] BY <1>3
<1>5. crossed' = crossed \cup {n \in Names \ r.about : Listed(n) /\ ~Listed(n)'} BY <1>1 DEF Unlists
<1>6. \A n \in Names : On(n)' = On(n) BY DEF On, Exists
<1>7. row # Gone =>
          /\ row \in Host /\ Concerns(row.name, row.gate) \subseteq r.about
          /\ Vacated(r.about \ {row.name}) /\ Backed(row.gate)
      BY <1>1, <1>2 DEF Sound, HostWrites
<1>8. row = Gone => Vacated(r.about) \/ hosts' = hosts
      BY <1>1, <1>2, <1>3 DEF Sound, HostWrites
<1>9. RequestsAreRecords' /\ AboutIsApart' /\ RequestsAreSound'
  <2>1. \A g \in Records : Refs(g)' => Refs(g) \/ (row # Gone /\ row.gate = g)
        BY <1>4 DEF Refs, Exists
  <2>2. ASSUME NEW k \in Handlers \ {h}, NEW g \in Records \cap req[k].about
        PROVE  g \in crossed' \/ (Refs(g)' => Refs(g))
    <3>1. CASE row # Gone /\ row.gate = g
      <4>1. g \in r.about BY <1>7, <3>1, HostsAssumption DEF Concerns
      <4>2. g \in crossed BY <1>1, <2>2, <4>1 DEF RInv, AboutIsApart
      <4> QED BY <1>5, <4>2
    <3>2. CASE ~(row # Gone /\ row.gate = g) BY <2>1, <3>2
    <3> QED BY <3>1, <3>2
  <2>3. crossed \subseteq crossed' BY <1>5
  <2> QED BY <1>6, <2>2, <2>3, WriterGoes DEF ValidSlot
<1>10. HostsTypeOK'
  <2>1. hosts' \in [Hosts -> Host \cup {Gone}] BY <1>3
  <2>2. crossed' \subseteq Names \cup Records BY <1>5 DEF RInv, HostsTypeOK
  <2> QED BY <1>9, <2>1, <2>2 DEF RInv, HostsTypeOK, RequestsAreRecords
<1>11. AppsInOrder' BY DEF RInv, AppsInOrder, Exists
<1>12. NamesAreApart' BY <1>5, <1>6 DEF RInv, NamesAreApart
<1>13. UsedHostsStay'
  <2>1. ASSUME NEW b \in placed, apps[b] # Gone, apps[b].at # Here, apps[b].at \notin crossed', ~Listed(apps[b].at)'
        PROVE  FALSE
    <3>1. PICK n : n = apps[b].at OBVIOUS
    <3>2. b \in Nonces /\ n \in Names BY <2>1, <3>1 DEF RInv, HostsTypeOK, App
    <3>3. b \in On(n) BY <2>1, <3>1, <3>2 DEF On, Exists
    <3>4. Listed(n) BY <1>5, <2>1, <3>1 DEF RInv, UsedHostsStay, Exists
    <3>5. ~Listed(n)' BY <2>1, <3>1 DEF Listed
    <3>6. n \in r.about /\ n \notin crossed BY <1>5, <2>1, <3>1, <3>2, <3>4, <3>5
    <3>7. CASE row # Gone
      <4>1. n # row.name BY <1>4, <3>5, <3>7 DEF Listed
      <4> QED BY <1>7, <3>2, <3>3, <3>6, <3>7, <4>1 DEF Vacated
    <3>8. CASE row = Gone
      <4>1. hosts' # hosts BY <3>4, <3>5 DEF Listed
      <4> QED BY <1>8, <3>2, <3>3, <3>6, <3>8, <4>1 DEF Vacated
    <3> QED BY <3>7, <3>8
  <2> QED BY <2>1 DEF UsedHostsStay, Exists, Listed
<1>14. GatesAreRecords'
  <2>1. \A j \in Hosts : hosts'[j] # Gone /\ hosts'[j].gate \notin crossed' =>
            hosts'[j].gate = NoGate \/ hosts'[j].gate \in records
        BY <1>4, <1>5, <1>7 DEF RInv, GatesAreRecords, Backed, ValidSlot
  <2> QED BY <1>5, <2>1 DEF RInv, GatesAreRecords, Exists, ValidSlot
<1> QED BY <1>9, <1>10, <1>11, <1>12, <1>13, <1>14 DEF RInv

\* A record that goes was named by no row, or has crossed.
LEMMA DropRecordKeeps ==
    ASSUME RInv, NEW h \in Handlers, DropRecord(h)
    PROVE  RInv'
<1> USE DEF memory
<1>1. PICK g : g = req[h].rec OBVIOUS
<1>2. /\ g \in req[h].about /\ (g \in crossed \/ ~Refs(g))
      BY <1>1 DEF DropRecord, RInv, RequestsAreSound, Sound, RecordDrops
<1>3. /\ records' = records \ {g}
      /\ UNCHANGED <<apps, nextApp, dirs, hosts, memory, begun, crossed, doubled, placed>>
      BY <1>1 DEF DropRecord
<1>4. \A n \in Names : On(n)' = On(n) /\ Listed(n)' = Listed(n) BY <1>3 DEF On, Exists, Listed
<1>5. GoesTo(h, "idle")
  <2>1. PICK q : q = NoRequest OBVIOUS
  <2>2. q \in Request /\ q.at = "idle" BY <2>1, NoRequestIs
  <2>3. [q EXCEPT !.at = "idle"] = q BY <2>2 DEF Request
  <2> QED BY <2>1, <2>3 DEF DropRecord, GoesTo, Ends
<1>6. RequestsAreRecords' /\ AboutIsApart' /\ RequestsAreSound'
  <2>1. \A f \in Records : Refs(f)' => Refs(f) BY <1>3 DEF Refs, Exists
  <2>2. \A k \in Handlers \ {h} : g \in req[k].about => g \in crossed'
        BY <1>2, <1>3 DEF RInv, AboutIsApart
  <2>3. \A f \in Records : f # g => (ValidSlot(f) => ValidSlot(f)') BY <1>3 DEF ValidSlot
  <2> QED BY <1>3, <1>4, <1>5, <2>1, <2>2, <2>3, WriterGoes
<1>7. HostsTypeOK' BY <1>3, <1>6 DEF RInv, HostsTypeOK, RequestsAreRecords
<1>8. AppsInOrder' BY <1>3 DEF RInv, AppsInOrder, Exists
<1>9. NamesAreApart' BY <1>3, <1>4 DEF RInv, NamesAreApart
<1>10. UsedHostsStay' BY <1>3 DEF RInv, UsedHostsStay, Exists, Listed
<1>11. GatesAreRecords' BY <1>2, <1>3 DEF RInv, GatesAreRecords, Exists, ValidSlot, Refs
<1> QED BY <1>6, <1>7, <1>8, <1>9, <1>10, <1>11 DEF RInv

-----------------------------------------------------------------------------
(* The steps                                                               *)

\* A request that goes on to a rebuild, or ends, without writing a row.
LEMMA GoesQuietly ==
    ASSUME RInv, NEW h \in Handlers, NEW at \in {"idle", "join", "rebuild"}, GoesTo(h, at),
           UNCHANGED book, dirs' = dirs, table' \in Table, stale' \in BOOLEAN, begun' = begun
    PROVE  RInv'
<1>1. PICK q : q = [NoRequest EXCEPT !.at = at] OBVIOUS
<1>2. q \in Request /\ q.at \notin Writing /\ q.about = {} BY <1>1, BareIsRequest DEF Writing
<1>3. req' = [req EXCEPT ![h] = q] BY <1>1 DEF GoesTo
<1>4. req' \in [Handlers -> Request] BY <1>2, <1>3 DEF RInv, RequestsAreRecords
<1>5. \A k \in Handlers :
          SameTask(req'[k], req[k]) \/ (req'[k].at \notin Writing /\ req'[k].about \subseteq req[k].about)
      BY <1>2, <1>3 DEF RInv, RequestsAreRecords, SameTask
<1>6. dirs' \subseteq {a \in Nonces : a < nextApp} BY DEF RInv, HostsTypeOK, AppsInOrder
<1>7. begun' \in 0..MaxChanges BY DEF RInv, HostsTypeOK
<1> QED BY <1>4, <1>5, <1>6, <1>7, QuietKeeps

\* Ending is going to nothing.
LEMMA EndsIsGoes ==
    ASSUME NEW h, Ends(h)
    PROVE  GoesTo(h, "idle")
<1>1. PICK q : q = NoRequest OBVIOUS
<1>2. q \in Request /\ q.at = "idle" BY <1>1, NoRequestIs
<1>3. [q EXCEPT !.at = "idle"] = q BY <1>2 DEF Request
<1> QED BY <1>1, <1>3 DEF GoesTo, Ends

\* What rebuilds do to the others leaves what those write and are about.
LEMMA CrowdedIsAlike ==
    ASSUME req \in [Handlers -> Request], NEW h \in Handlers
    PROVE  /\ Crowded(h) \in [Handlers -> Request]
           /\ \A k \in Handlers : SameTask(Crowded(h)[k], req[k]) /\ Crowded(h)[k].built = req[k].built
<1>1. \A r \in Request :
          /\ [r EXCEPT !.alone = FALSE] \in Request
          /\ SameTask([r EXCEPT !.alone = FALSE], r) /\ [r EXCEPT !.alone = FALSE].built = r.built
          /\ SameTask(r, r)
      BY DEF Request, SameTask
<1>2. \A k \in Handlers : Crowded(h)[k] = IF k \in Beside(h) THEN [req[k] EXCEPT !.alone = FALSE] ELSE req[k]
      BY DEF Crowded
<1>3. Crowded(h) \in [Handlers -> Request] BY <1>1, <1>2 DEF Crowded
<1>4. \A k \in Handlers : SameTask(Crowded(h)[k], req[k]) /\ Crowded(h)[k].built = req[k].built
      BY <1>1, <1>2
<1> QED BY <1>3, <1>4

\* Rebuilding and installing write no row.
LEMMA RebuildKeeps ==
    ASSUME RInv, BuiltIsThere, NEW h \in Handlers, Rebuild(h) \/ RebuildFails(h) \/ InstallTable(h)
    PROVE  RInv'
<1> USE DEF rows, memory
<1>1. req \in [Handlers -> Request] BY DEF RInv, RequestsAreRecords
<1>2. UNCHANGED book /\ dirs' = dirs /\ begun' = begun BY DEF Rebuild, RebuildFails, InstallTable, book
<1>3. dirs' \subseteq {a \in Nonces : a < nextApp} BY <1>2 DEF RInv, HostsTypeOK, AppsInOrder
<1>4. begun' \in 0..MaxChanges /\ table \in Table /\ stale \in BOOLEAN /\ hosts \in [Hosts -> Host \cup {Gone}]
      BY <1>2 DEF RInv, HostsTypeOK
<1>5. PICK c : c = Crowded(h) OBVIOUS
<1>6. c \in [Handlers -> Request] /\ \A k \in Handlers : SameTask(c[k], req[k])
      BY <1>1, <1>5, CrowdedIsAlike
<1>7. CASE Rebuild(h)
  <2>1. PICK t : t = Build OBVIOUS
  <2>2. t \in Table BY <1>4, <2>1, BuildIsTable
  <2>3. PICK b \in BOOLEAN : b = (Beside(h) = {}) OBVIOUS
  <2>4. req' = [c EXCEPT ![h].at = "install", ![h].built = t, ![h].alone = b]
        BY <1>5, <1>7, <2>1, <2>3 DEF Rebuild
  <2>5. req' \in [Handlers -> Request]
    <3>1. \A r \in Request : [r EXCEPT !.at = "install", !.built = t, !.alone = b] \in Request
          BY <2>2 DEF Request
    <3>2. req' = [c EXCEPT ![h] = [c[h] EXCEPT !.at = "install", !.built = t, !.alone = b]]
          BY <1>6, <2>4
    <3> QED BY <1>6, <3>1, <3>2
  <2>6. \A k \in Handlers :
            SameTask(req'[k], req[k]) \/ (req'[k].at \notin Writing /\ req'[k].about \subseteq req[k].about)
        BY <1>6, <2>4 DEF SameTask, Writing, Request
  <2> QED BY <1>2, <1>3, <1>4, <1>7, <2>5, <2>6, QuietKeeps DEF Rebuild
<1>8. CASE RebuildFails(h)
  <2>1. PICK q : q = NoRequest OBVIOUS
  <2>2. q \in Request /\ q.at \notin Writing /\ q.about = {} BY <2>1, NoRequestIs DEF Writing
  <2>3. req' = [c EXCEPT ![h] = q] BY <1>5, <1>8, <2>1 DEF RebuildFails
  <2>4. req' \in [Handlers -> Request] BY <1>6, <2>2, <2>3
  <2>5. \A k \in Handlers :
            SameTask(req'[k], req[k]) \/ (req'[k].at \notin Writing /\ req'[k].about \subseteq req[k].about)
        BY <1>6, <2>2, <2>3
  <2> QED BY <1>2, <1>3, <1>4, <1>8, <2>4, <2>5, QuietKeeps DEF RebuildFails
<1>9. CASE InstallTable(h)
  <2>1. table' \in Table BY <1>9 DEF InstallTable, BuiltIsThere
  <2>2. stale' \in BOOLEAN BY <1>9 DEF InstallTable
  <2> QED BY <1>2, <1>9, <2>1, <2>2, GoesQuietly, EndsIsGoes DEF InstallTable
<1> QED BY <1>7, <1>8, <1>9

\* Every step of a request under way keeps the invariant.
LEMMA HostsStepKeeps ==
    ASSUME RInv, BuiltIsThere, NEW h \in Handlers, Step(h)
    PROVE  RInv'
<1> USE DEF memory
<1>0. table \in Table /\ stale \in BOOLEAN /\ hosts \in [Hosts -> Host \cup {Gone}] BY DEF RInv, HostsTypeOK
<1>1. CASE InsertApp(h)
  <2>1. PICK at \in {"join", "rebuild"} : GoesTo(h, at) BY <1>1 DEF InsertApp
  <2>2. Target(h, nextApp) BY <1>1, HostsAssumption DEF InsertApp, Target, RInv, HostsTypeOK, Nonces
  <2>3. Writes(h, nextApp) BY <1>1 DEF InsertApp, Writes
  <2>4. req[h].at = "insert" /\ nextApp' = nextApp + 1 BY <1>1 DEF InsertApp
  <2> QED BY <2>1, <2>2, <2>3, <2>4, LandKeeps
<1>2. CASE Join(h) BY <1>0, <1>2, GoesQuietly DEF Join, rows, book
<1>3. CASE JoinFails(h) BY <1>0, <1>3, GoesQuietly, EndsIsGoes DEF JoinFails, rows, book
<1>4. CASE UpdateApp(h)
  <2>1. CASE Exists(req[h].app)
    <3>1. req[h].at = "update" /\ GoesTo(h, "rebuild") /\ nextApp' = nextApp BY <1>4 DEF UpdateApp
    <3>2. Target(h, req[h].app) BY <3>1 DEF Target, RInv, RequestsAreSound, Sound, AppWrites
    <3>3. Writes(h, req[h].app) BY <1>4, <2>1 DEF UpdateApp, Writes
    <3> QED BY <2>1, <3>1, <3>2, <3>3, LandKeeps
  <2>2. CASE ~Exists(req[h].app) BY <1>0, <1>4, <2>2, GoesQuietly DEF UpdateApp, book
  <2> QED BY <2>1, <2>2
<1>5. CASE DeleteApp(h) BY <1>5, DeleteAppKeeps
<1>6. CASE WriteHost(h)
  <2>1. CASE NameFree(req[h].host.name, req[h].id)
    <3>1. /\ req[h].at \in {"addHost", "setHost"} /\ GoesTo(h, "rebuild") /\ Unlists(h)
          /\ hosts' = [hosts EXCEPT ![req[h].id] = IF @ = Gone /\ req[h].at = "setHost" THEN Gone ELSE req[h].host]
          /\ UNCHANGED <<apps, nextApp, dirs, records, memory, begun, doubled, placed>>
          BY <1>6, <2>1 DEF WriteHost
    <3>2. req[h].id \in Hosts /\ req[h].host \in Host
          BY <3>1 DEF RInv, RequestsAreSound, Sound, HostWrites
    <3>3. PICK row : row = IF hosts[req[h].id] = Gone /\ req[h].at = "setHost" THEN Gone ELSE req[h].host OBVIOUS
    <3>4. hosts' = [hosts EXCEPT ![req[h].id] = row] BY <1>0, <3>1, <3>2, <3>3
    <3>5. HostGoes(h, req[h].id, row) BY <3>1, <3>2, <3>3, <3>4, GoneAssumption DEF HostGoes
    <3> QED BY <3>1, <3>5, HostKeeps
  <2>2. CASE ~NameFree(req[h].host.name, req[h].id)
    <3>1. Ends(h) /\ hosts' = hosts BY <1>6, <2>2 DEF WriteHost
    <3>2. crossed' = crossed BY <1>6, <3>1 DEF WriteHost, Unlists, Listed
    <3> QED BY <1>0, <1>6, <3>1, <3>2, GoesQuietly, EndsIsGoes DEF WriteHost, book
  <2> QED BY <2>1, <2>2
<1>7. CASE DeleteHost(h)
  <2>1. req[h].id \in Hosts BY <1>7 DEF DeleteHost, RInv, RequestsAreSound, Sound, HostWrites
  <2>2. HostGoes(h, req[h].id, Gone) /\ GoesTo(h, "rebuild") BY <1>7, <2>1 DEF DeleteHost, HostGoes
  <2> QED BY <2>2, HostKeeps
<1>8. CASE DropRecord(h) BY <1>8, DropRecordKeeps
<1>9. CASE Rebuild(h) \/ InstallTable(h) \/ RebuildFails(h) BY <1>9, RebuildKeeps
<1> QED BY <1>1, <1>2, <1>3, <1>4, <1>5, <1>6, <1>7, <1>8, <1>9 DEF Step

\* A request for an app is one.
LEMMA InsertIsRequest ==
    ASSUME NEW w \in App, NEW member \in BOOLEAN, NEW c \in BOOLEAN, NEW s \in SUBSET (Names \cup Records)
    PROVE  [NoRequest EXCEPT !.at = "insert", !.row = w, !.member = member, !.checked = c, !.about = s] \in Request
<1>1. PICK q \in Request : q = NoRequest BY NoRequestIs
<1>2. [q EXCEPT !.at = "insert", !.row = w, !.member = member, !.checked = c, !.about = s] \in Request BY DEF Request
<1> QED BY <1>1, <1>2

\* A request that has a rebuild to do.
Building(r) == r.at \in {"rebuild", "install"}

\* Every request that arrives is sound, except that files may just land.
Arrives(h) == \E r \in Request : Begin(h, r) /\ Sound(r) /\ ~Building(r)

\* So it is of whatever arrives.
LEMMA ArrivesSound ==
    ASSUME RInv, NEW h \in Handlers, Arrive(h)
    PROVE  Arrives(h) \/ \E a \in Nonces : Publish(h, a)
<1> USE NoRequestIs DEF Arrives, Building
<1>1. ASSUME NEW n \in Names \cup {Here}, NEW g \in Gates, \E member \in BOOLEAN : BeginCreateApp(h, member, n, g)
      PROVE  Arrives(h)
  <2>0. PICK member \in BOOLEAN : BeginCreateApp(h, member, n, g) BY <1>1
  <2>1. PICK c \in BOOLEAN : c = Checks(n) BY DEF Checks
  <2>11. PICK w : w = [at |-> n, gate |-> g] OBVIOUS
  <2>12. PICK s : s = Concerns(n, g) OBVIOUS
  <2>2. PICK r : r = [NoRequest EXCEPT !.at = "insert", !.row = w, !.member = member, !.checked = c, !.about = s]
        OBVIOUS
  <2>3. w \in App /\ s \in SUBSET (Names \cup Records) BY <2>11, <2>12 DEF App, Concerns, Gates
  <2>4. r \in Request BY <2>2, <2>3, InsertIsRequest
  <2>5. r.at = "insert" /\ r.app = 0 /\ r.row = w /\ r.checked = c /\ r.about = s BY <2>2 DEF Request
  <2>6. c => n \in Names /\ On(n) \subseteq {0} BY <2>0, <2>1 DEF BeginCreateApp, Address, FreeOf, Checks
  <2>7. ValidSlot(g) BY <2>0 DEF BeginCreateApp, ValidSlot
  <2>8. Sound(r) BY <2>11, <2>12, <2>3, <2>5, <2>6, <2>7 DEF Sound, AppWrites, HostWrites, RecordDrops, Backed
  <2>9. Begin(h, r) BY <2>0, <2>11, <2>12, <2>1, <2>2 DEF BeginCreateApp
  <2> QED BY <2>5, <2>4, <2>8, <2>9
<1>2. ASSUME NEW n \in Names \cup {Here}, NEW g \in Gates, NEW a \in Nonces, BeginUpdateApp(h, a, n, g)
      PROVE  Arrives(h)
  <2>1. PICK c \in BOOLEAN : c = Checks(n) BY DEF Checks
  <2>2. PICK s : s = Concerns(n, g) \cup Concerns(apps[a].at, NoGate) OBVIOUS
  <2>11. PICK w : w = [at |-> n, gate |-> g] OBVIOUS
  <2>3. PICK r : r = [NoRequest EXCEPT !.at = "update", !.app = a, !.row = w, !.checked = c, !.about = s]
        OBVIOUS
  <2>4. w \in App /\ s \subseteq Names \cup Records
    <3>1. apps[a] \in App BY <1>2 DEF BeginUpdateApp, Exists, RInv, HostsTypeOK
    <3>2. apps[a].at \in Names \cup {Here} BY <3>1 DEF App
    <3>3. s \subseteq Names \cup Records BY <2>2, <3>2 DEF Concerns, Gates
    <3> QED BY <2>11, <3>3 DEF App
  <2>12. a \in 0..MaxApps BY HostsAssumption DEF Nonces
  <2>5. r \in Request BY <2>3, <2>4, <2>12 DEF Request
  <2>6. r.at = "update" /\ r.app = a /\ r.row = w /\ r.checked = c /\ r.about = s
        BY <2>3 DEF Request
  <2>7. c => n \in Names /\ On(n) \subseteq {a} BY <1>2, <2>1 DEF BeginUpdateApp, Address, FreeOf, Checks
  <2>8. ValidSlot(g) BY <1>2 DEF BeginUpdateApp
  <2>9. Sound(r) BY <2>11, <2>2, <2>4, <2>6, <2>7, <2>8 DEF Sound, AppWrites, HostWrites, RecordDrops, Backed
  <2>10. Begin(h, r) BY <1>2, <2>11, <2>1, <2>2, <2>3 DEF BeginUpdateApp
  <2> QED BY <2>6, <2>5, <2>9, <2>10
<1>3. ASSUME NEW a \in Nonces, BeginDeleteApp(h, a)
      PROVE  Arrives(h)
  <2>1. PICK s : s = Concerns(apps[a].at, NoGate) OBVIOUS
  <2>11. PICK r : r = [NoRequest EXCEPT !.at = "delete", !.app = a, !.about = s] OBVIOUS
  <2>2. s \subseteq Names \cup Records
    <3>1. apps[a] \in App BY <1>3 DEF BeginDeleteApp, Exists, RInv, HostsTypeOK
    <3>2. apps[a].at \in Names \cup {Here} BY <3>1 DEF App
    <3> QED BY <2>1, <3>2 DEF Concerns
  <2>12. a \in 0..MaxApps BY HostsAssumption DEF Nonces
  <2>3. r \in Request BY <2>11, <2>12, <2>2 DEF Request
  <2>4. r.at = "delete" /\ r.at \notin Writing BY <2>11 DEF Request, Writing
  <2>5. Begin(h, r) BY <1>3, <2>1, <2>11 DEF BeginDeleteApp
  <2>6. Sound(r) BY <2>4, OthersAreSound
  <2> QED BY <2>3, <2>4, <2>5, <2>6
<1>5. ASSUME NEW i \in Hosts, NEW row \in Host, BeginCreateHost(h, i, row)
      PROVE  Arrives(h)
  <2>1. PICK s : s = Concerns(row.name, row.gate) OBVIOUS
  <2>2. PICK r : r = [NoRequest EXCEPT !.at = "addHost", !.id = i, !.host = row, !.about = s] OBVIOUS
  <2>3. s \subseteq Names \cup Records /\ Names \cap s \subseteq {row.name}
        BY <2>1, HostsAssumption DEF Host, Concerns, Gates
  <2>4. r \in Request BY <2>2, <2>3 DEF Request
  <2>5. r.at = "addHost" /\ r.id = i /\ r.host = row /\ r.about = s BY <2>2 DEF Request
  <2>6. ValidSlot(row.gate) BY <1>5 DEF BeginCreateHost
  <2>7. Vacated(s \ {row.name}) BY <2>3 DEF Vacated
  <2>8. Sound(r) BY <2>1, <2>5, <2>6, <2>7 DEF Sound, AppWrites, HostWrites, RecordDrops, Backed
  <2>9. Begin(h, r) BY <1>5, <2>1, <2>2 DEF BeginCreateHost
  <2> QED BY <2>5, <2>4, <2>8, <2>9
<1>6. ASSUME NEW i \in Hosts, NEW row \in Host, BeginUpdateHost(h, i, row)
      PROVE  Arrives(h)
  <2>1. PICK s : s = Concerns(row.name, row.gate) \cup {hosts[i].name} OBVIOUS
  <2>2. PICK r : r = [NoRequest EXCEPT !.at = "setHost", !.id = i, !.host = row, !.about = s] OBVIOUS
  <2>3. hosts[i] \in Host BY <1>6 DEF BeginUpdateHost, RInv, HostsTypeOK
  <2>4. s \subseteq Names \cup Records /\ Names \cap s \subseteq {row.name, hosts[i].name}
        BY <2>1, <2>3, HostsAssumption DEF Host, Concerns, Gates
  <2>5. r \in Request BY <2>2, <2>4 DEF Request
  <2>6. r.at = "setHost" /\ r.id = i /\ r.host = row /\ r.about = s BY <2>2 DEF Request
  <2>7. ValidSlot(row.gate) BY <1>6 DEF BeginUpdateHost
  <2>8. Vacated(s \ {row.name}) BY <1>6, <2>4 DEF BeginUpdateHost, InUse, Vacated
  <2>9. Sound(r) BY <2>1, <2>6, <2>7, <2>8 DEF Sound, AppWrites, HostWrites, RecordDrops, Backed
  <2>10. Begin(h, r) BY <1>6, <2>1, <2>2 DEF BeginUpdateHost
  <2> QED BY <2>6, <2>5, <2>9, <2>10
<1>7. ASSUME NEW i \in Hosts, BeginDeleteHost(h, i)
      PROVE  Arrives(h)
  <2>1. PICK r : r = [NoRequest EXCEPT !.at = "dropHost", !.id = i, !.about = {hosts[i].name}] OBVIOUS
  <2>2. hosts[i] \in Host BY <1>7 DEF BeginDeleteHost, RInv, HostsTypeOK
  <2>3. r \in Request BY <2>1, <2>2 DEF Request, Host
  <2>4. r.at = "dropHost" /\ r.id = i /\ r.about = {hosts[i].name} BY <2>1 DEF Request
  <2>5. Vacated({hosts[i].name}) BY <1>7 DEF BeginDeleteHost, InUse, Vacated
  <2>6. Sound(r) BY <2>4, <2>5 DEF Sound, AppWrites, HostWrites, RecordDrops
  <2>7. Begin(h, r) BY <1>7, <2>1 DEF BeginDeleteHost
  <2> QED BY <2>4, <2>3, <2>6, <2>7
<1>8. ASSUME NEW g \in Records, BeginDropRecord(h, g)
      PROVE  Arrives(h)
  <2>1. PICK r : r = [NoRequest EXCEPT !.at = "dropRecord", !.rec = g, !.about = {g}] OBVIOUS
  <2>2. r \in Request BY <2>1 DEF Request, Gates
  <2>3. r.at = "dropRecord" /\ r.rec = g /\ r.about = {g} BY <2>1 DEF Request
  <2>4. Sound(r) BY <1>8, <2>3 DEF BeginDropRecord, Sound, AppWrites, HostWrites, RecordDrops
  <2>5. Begin(h, r) BY <1>8, <2>1 DEF BeginDropRecord
  <2> QED BY <2>3, <2>2, <2>4, <2>5
<1> QED BY <1>1, <1>2, <1>3, <1>5, <1>6, <1>7, <1>8 DEF Arrive

\* Every request that arrives keeps the invariant.
LEMMA ArriveKeeps ==
    ASSUME RInv, NEW h \in Handlers, Free(h), Arrive(h)
    PROVE  RInv'
<1>1. begun < MaxChanges /\ begun \in Nat /\ MaxChanges \in Nat BY HostsAssumption DEF Free, RInv, HostsTypeOK
<1>2. CASE Arrives(h) BY <1>1, <1>2, BeginKeeps DEF Arrives
<1>3. ASSUME NEW a \in Nonces, Publish(h, a)
      PROVE  RInv'
  <2>1. UNCHANGED book /\ table' = table /\ stale' = stale BY <1>3 DEF Publish, book, memory
  <2>2. dirs' \subseteq {b \in Nonces : b < nextApp} BY <1>3 DEF Publish, RInv, AppsInOrder, HostsTypeOK
  <2>3. begun' \in 0..MaxChanges BY <1>1, <1>3 DEF Publish
  <2>4. req' \in [Handlers -> Request] BY <1>3 DEF Publish, RInv, RequestsAreRecords, Request
  <2>5. \A k \in Handlers :
            SameTask(req'[k], req[k]) \/ (req'[k].at \notin Writing /\ req'[k].about \subseteq req[k].about)
    <3>1. \A r \in Request : LET q == [r EXCEPT !.at = "rebuild"] IN q.at = "rebuild" /\ q.about = r.about
          BY DEF Request
    <3> QED BY <1>3, <3>1 DEF Publish, RInv, RequestsAreRecords, SameTask, Writing
  <2>6. table \in Table /\ stale \in BOOLEAN BY DEF RInv, HostsTypeOK
  <2> QED BY <2>1, <2>2, <2>3, <2>4, <2>5, <2>6, QuietKeeps
<1> QED BY <1>2, <1>3, ArrivesSound

-----------------------------------------------------------------------------
(* The table                                                               *)

\* A step that rebuilds nothing keeps what is said of the table, if it leaves
\* what would be built or leaves somebody to rebuild it.
LEMMA TableWaits ==
    ASSUME BInv, UNCHANGED memory,
           \A k \in Handlers :
               req'[k] = req[k] \/ (~Building(req[k]) /\ req'[k].at # "install"),
           Build' = Build \/ \E k \in Handlers : req'[k].at = "rebuild"
    PROVE  BInv'
<1>1. \A k \in Handlers : req'[k].at = "install" => req'[k] = req[k] OBVIOUS
<1>2. \A k \in Handlers : Building(req[k]) => req'[k] = req[k] OBVIOUS
<1>3. NoneBeside' /\ BuiltIsThere' BY <1>1 DEF BInv, NoneBeside, BuiltIsThere
<1>4. BuiltIsRight'
  <2>1. ASSUME Settled' PROVE Settled /\ Build' = Build BY <1>2, <2>1 DEF Settled, Building
  <2> QED BY <1>1, <2>1 DEF BInv, BuiltIsRight
<1>5. TableFollowsTheRows'
  <2>1. ASSUME \A k \in Handlers : req'[k].at \notin {"rebuild", "install"}
        PROVE  (\A k \in Handlers : req[k].at \notin {"rebuild", "install"}) /\ Build' = Build
        BY <1>2, <2>1 DEF Building
  <2> QED BY <2>1 DEF BInv, TableFollowsTheRows, memory
<1> QED BY <1>3, <1>4, <1>5 DEF BInv

\* A request that goes to a rebuild, or ends, from a write.
LEMMA WriterLeavesTable ==
    ASSUME RInv, BInv, NEW h \in Handlers, ~Building(req[h]), UNCHANGED memory,
           NEW at \in {"idle", "join", "rebuild"}, GoesTo(h, at), at = "rebuild" \/ Build' = Build
    PROVE  BInv'
<1>1. PICK q : q = [NoRequest EXCEPT !.at = at] OBVIOUS
<1>2. q.at = at BY <1>1, BareIsRequest
<1>3. req' = [req EXCEPT ![h] = q] BY <1>1 DEF GoesTo
<1>4. req'[h] = q /\ \A k \in Handlers \ {h} : req'[k] = req[k] BY <1>3 DEF RInv, RequestsAreRecords
<1> QED BY <1>2, <1>4, TableWaits

\* Every step but the rebuild's own leaves the table for the rebuild.
LEMMA WritesLeaveTable ==
    ASSUME RInv, BInv, NEW h \in Handlers,
           \/ InsertApp(h) \/ Join(h) \/ JoinFails(h) \/ UpdateApp(h) \/ DeleteApp(h)
           \/ WriteHost(h) \/ DeleteHost(h) \/ DropRecord(h)
    PROVE  BInv'
<1>1. ~Building(req[h])
      BY DEF InsertApp, Join, JoinFails, UpdateApp, DeleteApp, WriteHost, DeleteHost, DropRecord, Building
<1>2. UNCHANGED memory
      BY DEF InsertApp, Join, JoinFails, UpdateApp, DeleteApp, WriteHost, DeleteHost, DropRecord, rows
<1>3. CASE InsertApp(h)
  <2>1. PICK at \in {"join", "rebuild"} : GoesTo(h, at) BY <1>3 DEF InsertApp
  <2>2. \A a \in dirs \cap Nonces : apps'[a] = apps[a]
    <3>1. nextApp \notin dirs BY DEF RInv, HostsTypeOK, AppsInOrder, Nonces
    <3>2. apps' = [apps EXCEPT ![nextApp] = req[h].row] BY <1>3 DEF InsertApp
    <3> QED BY <3>1, <3>2 DEF RInv, HostsTypeOK
  <2>3. Build' = Build BY <1>3, <2>2, BuildFollows DEF InsertApp
  <2> QED BY <1>1, <1>2, <2>1, <2>3, WriterLeavesTable
<1>4. CASE Join(h) \/ UpdateApp(h) \/ DeleteApp(h) \/ DeleteHost(h)
  <2>1. GoesTo(h, "rebuild") BY <1>4 DEF Join, UpdateApp, DeleteApp, DeleteHost
  <2> QED BY <1>1, <1>2, <2>1, WriterLeavesTable
<1>5. CASE JoinFails(h) \/ DropRecord(h)
  <2>1. Ends(h) /\ UNCHANGED <<apps, dirs, hosts>> BY <1>5 DEF JoinFails, DropRecord, rows
  <2>2. Build' = Build BY <2>1, BuildFollows
  <2>3. GoesTo(h, "idle") BY <2>1, EndsIsGoes
  <2> QED BY <1>1, <1>2, <2>2, <2>3, WriterLeavesTable
<1>6. CASE WriteHost(h)
  <2>1. CASE GoesTo(h, "rebuild") BY <1>1, <1>2, <2>1, WriterLeavesTable
  <2>2. CASE Ends(h) /\ hosts' = hosts
    <3>1. UNCHANGED <<apps, dirs, hosts>> BY <1>6, <2>2 DEF WriteHost
    <3>2. Build' = Build BY <3>1, BuildFollows
    <3>3. GoesTo(h, "idle") BY <2>2, EndsIsGoes
    <3> QED BY <1>1, <1>2, <3>2, <3>3, WriterLeavesTable
  <2> QED BY <1>6, <2>1, <2>2 DEF WriteHost
<1> QED BY <1>3, <1>4, <1>5, <1>6

\* So does a request that arrives; files that land are followed by a rebuild.
LEMMA ArrivalLeavesTable ==
    ASSUME RInv, BInv, NEW h \in Handlers, Free(h), Arrive(h)
    PROVE  BInv'
<1>1. ~Building(req[h]) BY DEF Free, Building
<1>2. ASSUME NEW r, Begin(h, r), r.at # "install"
      PROVE  BInv'
  <2>1. req'[h] = r /\ \A k \in Handlers \ {h} : req'[k] = req[k] BY <1>2 DEF Begin, RInv, RequestsAreRecords
  <2>2. UNCHANGED memory /\ UNCHANGED <<apps, dirs, hosts>> BY <1>2 DEF Begin, rows
  <2>3. Build' = Build BY <2>2, BuildFollows
  <2> QED BY <1>1, <1>2, <2>1, <2>2, <2>3, TableWaits
<1>3. ASSUME NEW a \in Nonces, Publish(h, a)
      PROVE  BInv'
  <2>1. req'[h].at = "rebuild" /\ \A k \in Handlers \ {h} : req'[k] = req[k]
        BY <1>3 DEF Publish, RInv, RequestsAreRecords, Request
  <2> QED BY <1>1, <1>3, <2>1, TableWaits DEF Publish
<1> QED BY <1>2, <1>3, ArrivesSound DEF Arrives, Building

\* A rebuild that runs alone builds what the rows say, and installs it; one that
\* has company, or fails, says so.
LEMMA RebuildKeepsTable ==
    ASSUME RInv, BInv, NEW h \in Handlers, Rebuild(h) \/ RebuildFails(h) \/ InstallTable(h)
    PROVE  BInv'
<1>1. req \in [Handlers -> Request] BY DEF RInv, RequestsAreRecords
<1>2. UNCHANGED <<apps, dirs, hosts>> BY DEF Rebuild, RebuildFails, InstallTable, rows
<1>3. PICK t : t = Build OBVIOUS
<1>4. Build' = t BY <1>2, <1>3, BuildFollows
<1>5. t \in Table BY <1>3, BuildIsTable DEF RInv, HostsTypeOK
<1>6. PICK c : c = Crowded(h) OBVIOUS
<1>7. \A k \in Handlers : c[k] = IF k \in Beside(h) THEN [req[k] EXCEPT !.alone = FALSE] ELSE req[k]
      BY <1>6 DEF Crowded
<1>8. c \in [Handlers -> Request] /\ \A k \in Handlers : SameTask(c[k], req[k]) /\ c[k].built = req[k].built
      BY <1>1, <1>6, CrowdedIsAlike
<1>9. \A r \in Request : [r EXCEPT !.alone = FALSE].alone = FALSE BY DEF Request
<1>10. \A k \in Handlers \ {h} :
           /\ c[k].at = req[k].at /\ c[k].built = req[k].built
           /\ c[k].at = "install" => c[k].alone = FALSE
  <2> TAKE k \in Handlers \ {h}
  <2>1. c[k].at = req[k].at /\ c[k].built = req[k].built BY <1>8 DEF SameTask
  <2>2. c[k].at = "install" => k \in Beside(h) BY <2>1 DEF Beside
  <2>3. k \in Beside(h) => c[k].alone = FALSE BY <1>1, <1>7, <1>9
  <2> QED BY <2>1, <2>2, <2>3
<1>11. CASE Rebuild(h)
  <2>1. PICK b \in BOOLEAN : b = (Beside(h) = {}) OBVIOUS
  <2>2. PICK u : u = [c[h] EXCEPT !.at = "install", !.built = t, !.alone = b] OBVIOUS
  <2>3. u.at = "install" /\ u.built = t /\ u.alone = b BY <1>8, <2>2 DEF Request
  <2>4. req' = [c EXCEPT ![h] = u] BY <1>3, <1>6, <1>8, <1>11, <2>1, <2>2 DEF Rebuild
  <2>5. req'[h] = u /\ \A k \in Handlers \ {h} : req'[k] = c[k] BY <1>8, <2>4
  <2>6. b => \A k \in Handlers \ {h} : req'[k].at # "install" BY <1>10, <2>1, <2>5 DEF Beside
  <2>7. NoneBeside'
    <3>1. ASSUME NEW k \in Handlers, NEW l \in Handlers, k # l, req'[k].at = "install", req'[l].at = "install"
          PROVE  ~req'[k].alone
      <4>1. CASE k = h BY <2>3, <2>5, <2>6, <3>1, <4>1
      <4>2. CASE k # h BY <1>10, <2>5, <3>1, <4>2
      <4> QED BY <4>1, <4>2
    <3> QED BY <3>1 DEF NoneBeside
  <2>8. BuiltIsRight' BY <1>4, <1>10, <2>3, <2>5 DEF BuiltIsRight
  <2>9. BuiltIsThere' BY <1>5, <1>10, <2>3, <2>5 DEF BInv, BuiltIsThere
  <2>10. TableFollowsTheRows' BY <2>3, <2>5 DEF TableFollowsTheRows
  <2> QED BY <2>7, <2>8, <2>9, <2>10 DEF BInv
<1>12. CASE RebuildFails(h)
  <2>1. PICK q : q = NoRequest OBVIOUS
  <2>2. q.at = "idle" BY <2>1, NoRequestIs
  <2>3. req' = [c EXCEPT ![h] = q] BY <1>6, <1>12, <2>1 DEF RebuildFails
  <2>4. req'[h] = q /\ \A k \in Handlers \ {h} : req'[k] = c[k] BY <1>8, <2>3
  <2>5. \A k \in Handlers : req'[k].at = "install" => k # h /\ req'[k].alone = FALSE /\ req'[k].built = req[k].built /\ req[k].at = "install"
        BY <1>10, <2>2, <2>4
  <2>6. NoneBeside' /\ BuiltIsRight' /\ BuiltIsThere' BY <2>5 DEF BInv, NoneBeside, BuiltIsRight, BuiltIsThere
  <2>7. TableFollowsTheRows' BY <1>12 DEF RebuildFails, TableFollowsTheRows
  <2> QED BY <2>6, <2>7 DEF BInv
<1>13. CASE InstallTable(h)
  <2>1. PICK q : q = NoRequest OBVIOUS
  <2>2. q.at = "idle" BY <2>1, NoRequestIs
  <2>3. req' = [req EXCEPT ![h] = q] BY <1>13, <2>1 DEF InstallTable, Ends
  <2>4. req'[h] = q /\ \A k \in Handlers \ {h} : req'[k] = req[k] BY <1>1, <2>3
  <2>5. NoneBeside' /\ BuiltIsThere' BY <2>2, <2>4 DEF BInv, NoneBeside, BuiltIsThere
  <2>6. req[h].at = "install" /\ table' = req[h].built /\ stale' = ~req[h].alone BY <1>13 DEF InstallTable
  <2>7. Settled' => Settled BY <2>4, <2>6 DEF Settled
  <2>8. BuiltIsRight' BY <1>3, <1>4, <2>2, <2>4, <2>7 DEF BInv, BuiltIsRight
  <2>9. TableFollowsTheRows'
    <3>1. ASSUME \A k \in Handlers : req'[k].at \notin {"rebuild", "install"}, ~stale' PROVE table' = t
      <4>1. Settled BY <2>7, <3>1 DEF Settled
      <4>2. req[h].alone BY <2>6, <3>1
      <4> QED BY <1>3, <2>6, <4>1, <4>2 DEF BInv, BuiltIsRight
    <3> QED BY <1>4, <3>1 DEF TableFollowsTheRows
  <2> QED BY <2>5, <2>8, <2>9 DEF BInv
<1> QED BY <1>11, <1>12, <1>13

-----------------------------------------------------------------------------
(* The theorems                                                            *)

HInv == RInv /\ BInv

\* The invariant holds of an install with one host, and no app or one.
LEMMA HInvInit ==
    ASSUME HostsInit
    PROVE  HInv
<1>0. PICK n \in Names, g \in Gates, i \in Hosts :
          /\ hosts = [j \in Hosts |-> IF j = i THEN [name |-> n, gate |-> g, open |-> TRUE] ELSE Gone]
          /\ \E at \in {n, Here}, first \in 0..1 :
              /\ apps = [a \in Nonces |-> IF a = first THEN [at |-> at, gate |-> NoGate] ELSE Gone]
              /\ placed = {a \in {first} \ {0} : at = n}
              /\ nextApp = first + 1 /\ dirs = {first} \ {0}
      BY Zenon DEF HostsInit
<1>1. PICK at \in {n, Here}, first \in 0..1 :
          /\ apps = [a \in Nonces |-> IF a = first THEN [at |-> at, gate |-> NoGate] ELSE Gone]
          /\ placed = {a \in {first} \ {0} : at = n}
          /\ nextApp = first + 1 /\ dirs = {first} \ {0}
      BY <1>0
<1>2. /\ records = Records /\ table = Build /\ req = [h \in Handlers |-> NoRequest] /\ begun = 0
      /\ crossed = {} /\ stale = FALSE /\ doubled = {}
      BY DEF HostsInit
<1>3. PICK q : q = NoRequest OBVIOUS
<1>4. q \in Request /\ q.at = "idle" /\ q.about = {} /\ Sound(q)
  <2>1. q \in Request /\ q.at = "idle" /\ q.about = {} BY <1>3, NoRequestIs
  <2> QED BY <2>1, OthersAreSound DEF Writing
<1>5. req \in [Handlers -> Request] /\ \A k \in Handlers : req[k] = q BY <1>2, <1>3, <1>4
<1>6. MaxApps \in Nat /\ MaxApps >= 1 /\ MaxChanges \in Nat BY HostsAssumption
<1>7. [name |-> n, gate |-> g, open |-> TRUE] \in Host /\ [at |-> at, gate |-> NoGate] \in App
      BY DEF Host, App, Gates
<1>8. hosts \in [Hosts -> Host \cup {Gone}] /\ apps \in [Nonces -> App \cup {Gone}] BY <1>0, <1>1, <1>7
<1>9. {first} \ {0} \subseteq Nonces /\ nextApp \in 1..MaxApps + 1 BY <1>1, <1>6 DEF Nonces
<1>10. HostsTypeOK
  <2>1. table \in Table BY <1>2, <1>8, BuildIsTable
  <2>2. dirs \subseteq Nonces /\ placed \subseteq Nonces BY <1>1, <1>9
  <2>3. begun \in 0..MaxChanges BY <1>2, <1>6
  <2>4. crossed \subseteq Names \cup Records /\ stale \in BOOLEAN /\ doubled \subseteq Names /\ records \subseteq Records
        BY <1>2
  <2> QED BY <1>5, <1>8, <1>9, <2>1, <2>2, <2>3, <2>4 DEF HostsTypeOK
<1>11. \A a \in Nonces : Exists(a) => a = first /\ apps[a] = [at |-> at, gate |-> NoGate] BY <1>1 DEF Exists
<1>12. AppsInOrder BY <1>1, <1>11 DEF AppsInOrder
<1>13. NamesAreApart BY <1>11 DEF NamesAreApart, On
<1>14. UsedHostsStay
  <2>1. hosts[i] # Gone /\ hosts[i].name = n BY <1>0, <1>7, GoneAssumption
  <2>2. Listed(n) BY <2>1 DEF Listed
  <2>3. \A a \in placed : Exists(a) => apps[a].at = n BY <1>1, <1>9, <1>11
  <2> QED BY <2>2, <2>3 DEF UsedHostsStay
<1>15. GatesAreRecords BY <1>0, <1>2, <1>11 DEF GatesAreRecords, ValidSlot, Gates
<1>16. AboutIsApart /\ RequestsAreSound BY <1>4, <1>5 DEF AboutIsApart, RequestsAreSound
<1>17. BInv BY <1>2, <1>4, <1>5 DEF BInv, NoneBeside, BuiltIsRight, BuiltIsThere, TableFollowsTheRows
<1> QED BY <1>5, <1>10, <1>12, <1>13, <1>14, <1>15, <1>16, <1>17 DEF HInv, RInv, RequestsAreRecords

\* A restart drops the requests and starts from the rows.
LEMMA CrashKeeps ==
    ASSUME HInv, Crash
    PROVE  HInv'
<1>1. PICK q : q = NoRequest OBVIOUS
<1>2. q \in Request /\ q.at = "idle" /\ q.about = {} /\ q.at \notin Writing BY <1>1, NoRequestIs DEF Writing
<1>3. req' \in [Handlers -> Request] /\ \A k \in Handlers : req'[k] = q BY <1>1, <1>2 DEF Crash
<1>4. UNCHANGED book /\ UNCHANGED <<apps, dirs, hosts>> /\ begun' = begun BY DEF Crash, rows, book
<1>5. Build' = Build BY <1>4, BuildFollows
<1>6. table' = Build /\ stale' = FALSE BY DEF Crash
<1>7. RInv'
  <2>1. dirs' \subseteq {a \in Nonces : a < nextApp} /\ begun' \in 0..MaxChanges
        BY <1>4 DEF HInv, RInv, HostsTypeOK, AppsInOrder
  <2>2. table' \in Table BY <1>6, BuildIsTable DEF HInv, RInv, HostsTypeOK
  <2>3. RInv BY DEF HInv
  <2>4. \A k \in Handlers : req'[k].at \notin Writing /\ req'[k].about \subseteq req[k].about BY <1>2, <1>3
  <2> QED BY <1>3, <1>4, <1>6, <2>1, <2>2, <2>3, <2>4, QuietKeeps
<1>8. BInv' BY <1>2, <1>3, <1>5, <1>6 DEF BInv, NoneBeside, BuiltIsRight, BuiltIsThere, TableFollowsTheRows
<1> QED BY <1>7, <1>8 DEF HInv

\* Every step keeps the invariant.
LEMMA HInvNext ==
    ASSUME HInv, [HostsNext]_hostsVars
    PROVE  HInv'
<1> USE DEF HInv
<1>1. ASSUME NEW h \in Handlers, Free(h), Arrive(h) PROVE HInv'
      BY <1>1, ArriveKeeps, ArrivalLeavesTable
<1>2. ASSUME NEW h \in Handlers, Step(h) PROVE HInv'
  <2>1. RInv' BY <1>2, HostsStepKeeps DEF BInv
  <2>2. BInv' BY <1>2, WritesLeaveTable, RebuildKeepsTable DEF Step
  <2> QED BY <2>1, <2>2
<1>3. CASE Crash BY <1>3, CrashKeeps
<1>4. CASE UNCHANGED hostsVars
  <2>1. UNCHANGED book /\ req' = req /\ UNCHANGED memory /\ UNCHANGED <<apps, dirs, hosts>> /\ begun' = begun
        BY <1>4 DEF hostsVars, rows, memory, book
  <2>2. Build' = Build BY <2>1, BuildFollows
  <2>3. BInv' BY <2>1, <2>2, TableWaits
  <2>4. dirs' \subseteq {a \in Nonces : a < nextApp} BY <2>1 DEF RInv, HostsTypeOK, AppsInOrder
  <2>5. table' \in Table /\ stale' \in BOOLEAN /\ begun' \in 0..MaxChanges /\ req' \in [Handlers -> Request]
        BY <2>1 DEF RInv, HostsTypeOK, RequestsAreRecords, memory
  <2>6. \A k \in Handlers : SameTask(req'[k], req[k]) BY <2>1 DEF SameTask
  <2>7. RInv' BY <2>1, <2>4, <2>5, <2>6, QuietKeeps
  <2> QED BY <2>3, <2>7
<1> QED BY <1>1, <1>2, <1>3, <1>4 DEF HostsNext

\* Once every write has been followed by its rebuild, the table says what the
\* rows and the disk say, unless rebuilds ran side by side and none alone since.
THEOREM TheTableFollows == HostsSpec => []TableFollowsTheRows
<1>1. HostsInit => HInv BY HInvInit
<1>2. HInv /\ [HostsNext]_hostsVars => HInv' BY HInvNext
<1>3. HInv => TableFollowsTheRows BY DEF HInv, BInv
<1> QED BY <1>1, <1>2, <1>3, PTL DEF HostsSpec

\* Addresses stay apart, hosts in use stay listed, and gates stay records, except
\* where two requests crossed or an app came before the host was listed.
THEOREM AddressesStay == HostsSpec => []AddressesHold
<1>1. HostsInit => HInv BY HInvInit
<1>2. HInv /\ [HostsNext]_hostsVars => HInv' BY HInvNext
<1>3. ASSUME HInv PROVE AddressesHold
  <2>1. ASSUME NEW n \in Names, n \notin crossed \cup doubled PROVE Cardinality(On(n)) <= 1
    <3>1. \A a, b \in On(n) : a = b BY <1>3, <2>1 DEF HInv, RInv, NamesAreApart
    <3>2. CASE On(n) = {} BY <3>2, FS_EmptySet
    <3>3. ASSUME NEW a \in On(n) PROVE Cardinality(On(n)) <= 1
      <4>1. On(n) = {a} BY <3>1
      <4> QED BY <4>1, FS_Singleton
    <3> QED BY <3>2, <3>3
  <2>2. OneAppPerAddress BY <2>1 DEF OneAppPerAddress
  <2> QED BY <1>3, <2>2 DEF HInv, RInv, AddressesHold
<1> QED BY <1>1, <1>2, <1>3, PTL DEF HostsSpec

=============================================================================
