------------------------------ MODULE UpdateFeeds ------------------------------
(***************************************************************************)
(* Receive feeds: checking remotes for newer archives, and applying them.  *)
(*                                                                         *)
(* A feed is one row of update_feeds: its URL, the version last applied    *)
(* (the stamp), the version last seen, and the validators of the last      *)
(* response.  Checks and applies take turns under feedRunMu; callers of    *)
(* /check who arrive while one is under way share its answer.  A run reads *)
(* the rows once, and then alternates between the network and statements   *)
(* against the store, while admins edit or delete rows, publishers replace *)
(* what a URL serves, clients hang up, writes fail and the process dies.   *)
(***************************************************************************)
EXTENDS Naturals, Sequences, FiniteSets, SequencesExt

CONSTANTS
    Checkers,    \* requests to /check
    Appliers,    \* requests to /apply
    Feeds,       \* receive feeds
    Urls,
    Archives,    \* what a URL may serve
    IdLists,     \* the feed lists an apply may name; <<>> stands for all
    NoCaller, NoFeed, Deleted, NoArchive,
    MaxTrouble      \* bound of the model: edits and failures

\* An archive's tag stands for its validators (ETag, Last-Modified); it is
\* readable when it decrypts under the feed's key and carries a manifest.
Archive == [tag: Nat, version: Nat \ {0}, readable: BOOLEAN]

Callers == Checkers \cup Appliers

VARIABLES
    rows,        \* the update_feeds table
    remote,      \* what each URL serves
    content,     \* per feed: the version whose ops last touched its targets
    feedRunMu,   \* who holds the run lock
    feedCheck,   \* whose check later callers join
    calls,       \* what each caller is doing
    edits, failures   \* counted for the bounds

vars == <<rows, remote, content, feedRunMu, feedCheck, calls, edits, failures>>

\* Version 0 is the empty string: nothing seen, nothing applied.  cache is
\* the archive whose validators are stored.
Row == [url: Urls, applied: Nat, seen: Nat, cache: Archives \cup {NoArchive}]

Pcs == {"idle", "lock", "joined", "fetch", "cache", "seen", "refetch",
        "recache", "ops", "stamp", "unlocked"}

\* todo holds the rows as the run read them, the current one first.
Call == [kind: {"check", "apply"}, pc: Pcs, ids: IdLists \cup {<<>>},
         todo: Seq([id: Feeds, row: Row]), first: BOOLEAN, gone: BOOLEAN,
         body: Archives \cup {NoArchive}, out: SUBSET (Feeds \X Nat)]

ASSUME FeedsAssumption ==
    /\ Archives \subseteq Archive
    /\ \A a, b \in Archives : a.tag = b.tag => a = b
    /\ IdLists \subseteq Seq(Feeds)
    /\ MaxTrouble \in Nat
    /\ NoArchive \notin Archives
    /\ NoCaller \notin Callers
    /\ IsFiniteSet(Feeds)
    /\ NoFeed \notin Row /\ Deleted \notin Row /\ NoFeed # Deleted

TypeOK ==
    /\ rows \in [Feeds -> Row \cup {NoFeed, Deleted}]
    /\ remote \in [Urls -> Archives]
    /\ content \in [Feeds -> Nat]
    /\ feedRunMu \in Callers \cup {NoCaller}
    /\ feedCheck \in Callers \cup {NoCaller}
    /\ calls \in [Callers -> Call]
    /\ edits \in 0..MaxTrouble /\ failures \in 0..MaxTrouble

Request(kind, pc, ids) ==
    [kind |-> kind, pc |-> pc, ids |-> ids, todo |-> <<>>, first |-> TRUE,
     gone |-> FALSE, body |-> NoArchive, out |-> {}]

Idle == Request("check", "idle", <<>>)

Init ==
    /\ rows = [f \in Feeds |-> NoFeed]
    /\ remote \in [Urls -> Archives]
    /\ content = [f \in Feeds |-> 0]
    /\ feedRunMu = NoCaller
    /\ feedCheck = NoCaller
    /\ calls = [c \in Callers |-> Idle]
    /\ edits = 0 /\ failures = 0

-----------------------------------------------------------------------------
(* Helpers                                                                 *)

Exists(f) == rows[f] \notin {NoFeed, Deleted}

At(c, pc) == calls[c].pc = pc

\* The row a run is working on, as it read it.
Cur(c) == Head(calls[c].todo)

\* mutant of Update: an upsert brings a deleted row back, without its URL.
UpdateUpserting(f, row) ==
    rows' = [rows EXCEPT ![f] =
        IF Exists(f) THEN row ELSE [url |-> "", applied |-> 0, seen |-> 0, cache |-> NoArchive]]

\* An UPDATE of a row that is gone changes nothing.
Update(f, row) == rows' = IF Exists(f) THEN [rows EXCEPT ![f] = row] ELSE rows

Goto(c, pc) == calls' = [calls EXCEPT ![c].pc = pc]

\* On to the next feed; a run that is through lets go of the lock.
NextFeed(c, call) ==
    LET rest == Tail(call.todo)
        pc == IF rest # <<>> THEN "fetch"
              ELSE IF call.kind = "check" THEN "unlocked" ELSE "idle" IN
    /\ calls' = [calls EXCEPT ![c] =
         IF pc = "idle" THEN Idle
         ELSE [call EXCEPT !.pc = pc, !.todo = rest, !.first = FALSE,
                           !.body = NoArchive]]
    /\ feedRunMu' = IF rest = <<>> THEN NoCaller ELSE feedRunMu

Skip(c) == NextFeed(c, calls[c])

\* mutant of News: any other version is news.
NewsIfOther(c, seen) == seen # Cur(c).row.applied

\* Whether the seen version is news is judged against the stamp the run read.
\* A check lists it, an apply goes on to fetch the archive again.
News(c, seen) == seen > Cur(c).row.applied

Judge(c, seen) ==
    IF ~News(c, seen) THEN Skip(c)
    ELSE IF calls[c].kind = "check"
    THEN NextFeed(c, [calls[c] EXCEPT !.out = @ \cup {<<Cur(c).id, seen>>}])
    ELSE /\ calls' = [calls EXCEPT ![c] = [@ EXCEPT !.pc = "refetch", !.body = NoArchive]]
         /\ UNCHANGED feedRunMu

-----------------------------------------------------------------------------
(* Admins and publishers                                                   *)

CreateFeed(f, url) ==
    /\ rows[f] = NoFeed
    /\ rows' = [rows EXCEPT ![f] =
         [url |-> url, applied |-> 0, seen |-> 0, cache |-> NoArchive]]
    /\ UNCHANGED <<remote, content, feedRunMu, feedCheck, calls, edits, failures>>

\* Editing the URL drops the validators and the seen version.
EditUrl(f, url) ==
    /\ edits + failures < MaxTrouble
    /\ Exists(f)
    /\ rows' = [rows EXCEPT ![f] =
         [@ EXCEPT !.url = url, !.seen = 0, !.cache = NoArchive]]
    /\ edits' = edits + 1
    /\ UNCHANGED <<remote, content, feedRunMu, feedCheck, calls, failures>>

DeleteFeed(f) ==
    /\ edits + failures < MaxTrouble
    /\ Exists(f)
    /\ rows' = [rows EXCEPT ![f] = Deleted]
    /\ edits' = edits + 1
    /\ UNCHANGED <<remote, content, feedRunMu, feedCheck, calls, failures>>

\* A publisher ships, or rolls back to, any archive at any time.
Publish(url, a) ==
    /\ remote[url] # a
    /\ remote' = [remote EXCEPT ![url] = a]
    /\ UNCHANGED <<rows, content, feedRunMu, feedCheck, calls, edits, failures>>

-----------------------------------------------------------------------------
(* Asking for a run                                                        *)

\* The first caller starts a check; the others join it.
AskCheck(c) ==
    /\ At(c, "idle")
    /\ IF feedCheck = NoCaller
       THEN /\ feedCheck' = c
            /\ calls' = [calls EXCEPT ![c] = Request("check", "lock", <<>>)]
       ELSE /\ calls' = [calls EXCEPT ![c] = Request("check", "joined", <<>>)]
            /\ UNCHANGED feedCheck
    /\ UNCHANGED <<rows, remote, content, feedRunMu, edits, failures>>

\* feedApplyBusy: one apply runs or waits, as far as live clients go.
AskApply(c, ids) ==
    /\ At(c, "idle")
    /\ \A d \in Callers : calls[d].kind = "apply" => calls[d].gone
    /\ calls' = [calls EXCEPT ![c] = Request("apply", "lock", ids)]
    /\ UNCHANGED <<rows, remote, content, feedRunMu, feedCheck, edits, failures>>

\* The rows are read once the lock is held: those named, in that order, or
\* every one.
Selected(ids) ==
    IF ids # <<>>
    THEN LET there == {i \in DOMAIN ids : Exists(ids[i])} IN
         {[n \in DOMAIN at |-> ids[at[n]]] :
            at \in {at \in SetToSeqs(there) : \A m, n \in DOMAIN at : m < n => at[m] < at[n]}}
    ELSE SetToSeqs({f \in Feeds : Exists(f)})

ReadRows(c) ==
    \E ids \in Selected(calls[c].ids) :
        LET todo == [i \in DOMAIN ids |-> [id |-> ids[i], row |-> rows[ids[i]]]] IN
        IF todo = <<>>
        THEN /\ calls' = [calls EXCEPT ![c] =
                  IF calls[c].kind = "check" THEN [@ EXCEPT !.pc = "unlocked"]
                                             ELSE Idle]
             /\ UNCHANGED feedRunMu
        ELSE /\ calls' = [calls EXCEPT ![c] = [@ EXCEPT !.pc = "fetch", !.todo = todo]]
             /\ feedRunMu' = c

\* mutant of TakeLock: runs do not take turns.
TakeLockAnyway(c) ==
    /\ At(c, "lock")
    /\ ReadRows(c)
    /\ UNCHANGED <<rows, remote, content, feedCheck, edits, failures>>

TakeLock(c) ==
    /\ At(c, "lock")
    /\ feedRunMu = NoCaller
    /\ ReadRows(c)
    /\ UNCHANGED <<rows, remote, content, feedCheck, edits, failures>>

\* mutant of ShareAnswer: those who joined are never woken.
ShareAnswerAlone(c) ==
    /\ At(c, "unlocked")
    /\ calls' = [calls EXCEPT ![c] = Idle]
    /\ feedCheck' = NoCaller
    /\ UNCHANGED <<rows, remote, content, feedRunMu, edits, failures>>

\* The answer of a check is shared with everyone who joined it, those who
\* came after the lock was let go included.
ShareAnswer(c) ==
    /\ At(c, "unlocked")
    /\ calls' = [d \in Callers |-> IF d = c \/ At(d, "joined") THEN Idle ELSE calls[d]]
    /\ feedCheck' = NoCaller
    /\ UNCHANGED <<rows, remote, content, feedRunMu, edits, failures>>

-----------------------------------------------------------------------------
(* Checking one feed (checkUpdateFeed)                                     *)

\* A conditional request, when the validators are known to describe a
\* response whose version was seen; 304 is judged by the version on record.
Unchanged(c) ==
    /\ Cur(c).row.seen # 0
    /\ Cur(c).row.cache = remote[Cur(c).row.url]

\* mutant of NotModified: 304 always reads up to date.
NotModifiedUpToDate(c) ==
    /\ At(c, "fetch")
    /\ Unchanged(c)
    /\ Skip(c)
    /\ UNCHANGED <<rows, remote, content, feedCheck, edits, failures>>

NotModified(c) ==
    /\ At(c, "fetch")
    /\ Unchanged(c)
    /\ Judge(c, Cur(c).row.seen)
    /\ UNCHANGED <<rows, remote, content, feedCheck, edits, failures>>

Fetch(c) ==
    /\ At(c, "fetch")
    /\ ~Unchanged(c)
    /\ calls' = [calls EXCEPT ![c] =
         [@ EXCEPT !.pc = "cache", !.body = remote[Cur(c).row.url]]]
    /\ UNCHANGED <<rows, remote, content, feedRunMu, feedCheck, edits, failures>>

\* The validators are stored on any 200; an archive that cannot be read then
\* ends the check of this feed.
StoreValidators(c) == LET f == Cur(c).id IN
    Update(f, [rows[f] EXCEPT !.cache = calls[c].body])

Cache(c) ==
    /\ At(c, "cache")
    /\ StoreValidators(c)
    /\ IF calls[c].body.readable
       THEN Goto(c, "seen") /\ UNCHANGED feedRunMu
       ELSE Skip(c)
    /\ UNCHANGED <<remote, content, feedCheck, edits, failures>>

Seen(c) == LET f == Cur(c).id IN
    /\ At(c, "seen")
    /\ Update(f, [rows[f] EXCEPT !.seen = calls[c].body.version])
    /\ Judge(c, calls[c].body.version)
    /\ UNCHANGED <<remote, content, feedCheck, edits, failures>>

-----------------------------------------------------------------------------
(* Applying one feed (applyUpdateFeed)                                     *)

Refetch(c) ==
    /\ At(c, "refetch")
    /\ calls' = [calls EXCEPT ![c] =
         [@ EXCEPT !.pc = "recache", !.body = remote[Cur(c).row.url]]]
    /\ UNCHANGED <<rows, remote, content, feedRunMu, feedCheck, edits, failures>>

\* What came back is judged again.
Recache(c) ==
    /\ At(c, "recache")
    /\ StoreValidators(c)
    /\ IF calls[c].body.readable /\ News(c, calls[c].body.version)
       THEN Goto(c, "ops") /\ UNCHANGED feedRunMu
       ELSE Skip(c)
    /\ UNCHANGED <<remote, content, feedCheck, edits, failures>>

\* mutant of RefuseOps: an archive none of whose ops ran is stamped.
RefuseOpsStamped(c) ==
    /\ At(c, "ops")
    /\ Goto(c, "stamp")
    /\ UNCHANGED <<rows, remote, content, feedRunMu, feedCheck, edits, failures>>

\* Validation refuses the ops before the first one runs.
RefuseOps(c) ==
    /\ At(c, "ops")
    /\ Skip(c)
    /\ UNCHANGED <<rows, remote, content, feedCheck, edits, failures>>

\* The ops run, all of them or up to one that fails.
RunOps(c) ==
    /\ At(c, "ops")
    /\ content' = [content EXCEPT ![Cur(c).id] = calls[c].body.version]
    /\ \/ Goto(c, "stamp") /\ UNCHANGED feedRunMu
       \/ Skip(c)
    /\ UNCHANGED <<rows, remote, feedCheck, edits, failures>>

Stamp(c) == LET f == Cur(c).id
                v == calls[c].body.version IN
    /\ At(c, "stamp")
    /\ Update(f, [rows[f] EXCEPT !.applied = v, !.seen = v])
    /\ Skip(c)
    /\ UNCHANGED <<remote, content, feedCheck, edits, failures>>

-----------------------------------------------------------------------------
(* Failures                                                                *)

\* The client of an apply hangs up: the door opens for the next apply, and
\* the run stops at an event it cannot deliver, or carries on to its end.
HangUp(c) ==
    /\ calls[c].kind = "apply" /\ ~calls[c].gone
    /\ calls' = [calls EXCEPT ![c].gone = TRUE]
    /\ UNCHANGED <<rows, remote, content, feedRunMu, feedCheck, edits, failures>>

Abandon(c) ==
    /\ calls[c].gone
    /\ \/ calls[c].pc \in {"ops", "stamp"}
       \/ At(c, "fetch") /\ ~calls[c].first
    /\ calls' = [calls EXCEPT ![c] = Idle]
    /\ feedRunMu' = NoCaller
    /\ UNCHANGED <<rows, remote, content, feedCheck, edits, failures>>

\* A request or a write fails: the run goes on with the next feed.
StepFails(c) ==
    /\ edits + failures < MaxTrouble
    /\ calls[c].pc \in {"fetch", "cache", "seen", "refetch", "recache", "stamp"}
    /\ Skip(c)
    /\ failures' = failures + 1
    /\ UNCHANGED <<rows, remote, content, feedCheck, edits>>

\* The process is killed, and comes back with the table.
Crash ==
    /\ edits + failures < MaxTrouble
    /\ feedRunMu # NoCaller
    /\ calls' = [c \in Callers |-> Idle]
    /\ feedRunMu' = NoCaller
    /\ feedCheck' = NoCaller
    /\ failures' = failures + 1
    /\ UNCHANGED <<rows, remote, content, edits>>

-----------------------------------------------------------------------------

RunStep(c) ==
    \/ NotModified(c)
    \/ Fetch(c)
    \/ Cache(c)
    \/ Seen(c)
    \/ Refetch(c)
    \/ Recache(c)
    \/ RefuseOps(c)
    \/ RunOps(c)
    \/ Stamp(c)
    \/ ShareAnswer(c)

Next ==
    \/ \E f \in Feeds, url \in Urls : CreateFeed(f, url)
    \/ \E f \in Feeds, url \in Urls : EditUrl(f, url)
    \/ \E f \in Feeds : DeleteFeed(f)
    \/ \E url \in Urls, a \in Archives : Publish(url, a)
    \/ \E c \in Checkers : AskCheck(c)
    \/ \E c \in Appliers, ids \in IdLists : AskApply(c, ids)
    \/ \E c \in Callers : TakeLock(c)
    \/ \E c \in Callers : RunStep(c)
    \/ \E c \in Callers : HangUp(c)
    \/ \E c \in Callers : Abandon(c)
    \/ \E c \in Callers : StepFails(c)
    \/ Crash

Spec == Init /\ [][Next]_vars

\* A run goes on to its end (its requests time out), a waiting one gets the
\* lock in its turn (sync.Mutex starves nobody), and somebody keeps asking
\* for checks, which is up to the pages that poll.
Fairness ==
    /\ \A c \in Callers : WF_vars(RunStep(c)) /\ SF_vars(TakeLock(c))
    /\ \A c \in Checkers : WF_vars(AskCheck(c))

FairSpec == Spec /\ Fairness

-----------------------------------------------------------------------------
(* Properties                                                              *)

\* The stamp is a floor: it only moves forward, through re-runs, publisher
\* rollbacks between a check and its apply, and edits in the middle of a run.
StampIsFloor ==
    [][\A f \in Feeds :
         rows[f] \notin {NoFeed, Deleted} /\ rows'[f] # Deleted
           => rows'[f].applied >= rows[f].applied]_vars

\* What is installed is never older than the stamp says, whatever ran, failed
\* or was cut short since.
ContentNotUnderStamp ==
    \A f \in Feeds : Exists(f) => content[f] >= rows[f].applied

\* The stamps a run judges by are the ones in the table for as long as it
\* runs: two runs never work on the same rows, hang-ups and failures included
\* (feedRunMu, and no feed named twice in one apply).
StampsAreCurrent ==
    \A c \in Callers : \A i \in DOMAIN calls[c].todo :
        LET item == calls[c].todo[i] IN
        Exists(item.id) => rows[item.id].applied = item.row.applied

\* Whoever asks for a check is answered, the leader as well as those who join.
ChecksAreAnswered ==
    (\E c \in Checkers : ~At(c, "idle")) ~> (\A c \in Checkers : At(c, "idle"))

\* A newer archive that stays on offer keeps being listed by the checks: the
\* cheap 304 never makes them go quiet about it, as long as no run was cut short.
Pending(f) ==
    /\ Exists(f)
    /\ remote[rows[f].url].readable
    /\ remote[rows[f].url].version > rows[f].applied

Listed(f) ==
    \E c \in Checkers : At(c, "unlocked") /\ \E item \in calls[c].out : item[1] = f

PendingStaysListed == \A f \in Feeds : <>[](Pending(f) /\ failures = 0) => []<>Listed(f)

=============================================================================
