------------------------------ MODULE AppDatabases ------------------------------
(***************************************************************************)
(* App databases: one SQLite file, the handles pooled on it, the requests  *)
(* that run through them, and the watchers of its changes.                 *)
(*                                                                         *)
(* appDB gives out the pooled handle of a mode, or opens one outside the   *)
(* pool's mutex and pools it if nobody was faster.  A handle has a single  *)
(* connection, which requests take in turn.  Handles are closed by the     *)
(* idle sweep and by a deletion, under requests that hold them: a closed   *)
(* handle serves nobody new, but a transaction that has its connection     *)
(* goes on.  SQLite's update hook tells the file's hub of every row as it  *)
(* is written, before the transaction commits.                             *)
(***************************************************************************)
EXTENDS Naturals, FiniteSets

CONSTANTS
    Callers,        \* requests of pages, members and models
    Watchers,       \* pages on /db/watch, which query again on every change
    Handles,        \* *sql.DB values
    Faces,          \* who asks: "member", or "reader" (a Read-only account, or db_query)
    NoCaller, NoHandle, NoFile,
    BufferSize,     \* of a subscriber's channel
    MaxWrites,      \* bounds of the model: transactions that write,
    MaxDeletions    \* and deletions, of the file or of its app

ASSUME ParametersAssumption ==
    /\ NoCaller \notin Callers \cup Watchers /\ NoHandle \notin Handles
    /\ NoFile \notin Nat /\ Callers \cap Watchers = {}
    /\ Faces \subseteq {"member", "reader"}
    /\ BufferSize \in Nat \ {0} /\ MaxWrites \in Nat /\ MaxDeletions \in Nat

VARIABLES
    pool,       \* appDBPool: per mode, a handle and whether its last use is long ago
    handles,    \* what each handle was opened on, and who has its connection
    file,       \* what the database's path names
    content,    \* statements committed to each file
    hub,        \* appDBWatch: which hub the path has, 0 before there is one
    subs,       \* per watcher, the hub it sits on (0: none) and its pending events
    views,      \* what each watcher read last
    calls,      \* requests in flight
    writes,     \* transactions that have begun to write
    unlinked,   \* files unlinked so far
    deleting,   \* a deletion has closed the pool's handles, and not unlinked yet
    settled     \* history: neither a deletion nor a commit past a closing so far

vars == <<pool, handles, file, content, hub, subs, views, calls, writes, unlinked, deleting, settled>>

-----------------------------------------------------------------------------
(* State                                                                   *)

Clients == Callers \cup Watchers
Modes == {"rw", "ro"}

\* The files that have the database's name, one after another.
Inodes == 0..MaxDeletions

\* The second statement of a batch writes as well as the first.
Statements == (1..MaxWrites) \X {1, 2}

Entry == [handle: Handles \cup {NoHandle}, idle: BOOLEAN]
NoEntry == [handle |-> NoHandle, idle |-> FALSE]

\* raced: the handle was opened while a deletion ran, or its app was deleted
\* under it.
Handle == [state: {"unused", "open", "closed"}, mode: Modes, inode: Inodes \cup {NoFile},
           hub: Nat, holder: Clients \cup {NoCaller}, raced: BOOLEAN]
Unused == [state |-> "unused", mode |-> "rw", inode |-> NoFile, hub |-> 0,
           holder |-> NoCaller, raced |-> FALSE]

\* "ask" is a watcher about to query again.
Call == [pc: {"idle", "ask", "open", "pool", "acquire", "run"},
         kind: {"read", "write"}, face: {"member", "reader"},
         handle: Handles \cup {NoHandle}, staged: SUBSET Statements]
Idle == [pc |-> "idle", kind |-> "read", face |-> "member", handle |-> NoHandle, staged |-> {}]

TypeOK ==
    /\ pool \in [Modes -> Entry]
    /\ handles \in [Handles -> Handle]
    /\ file \in Inodes \cup {NoFile}
    /\ content \in [Inodes -> SUBSET Statements]
    /\ hub \in Nat
    /\ subs \in [Watchers -> [hub: Nat, pending: 0..BufferSize]]
    /\ views \in [Watchers -> SUBSET Statements]
    /\ calls \in [Clients -> Call]
    /\ writes \in 0..MaxWrites
    /\ unlinked \in 0..MaxDeletions /\ deleting \in BOOLEAN /\ settled \in BOOLEAN

Init ==
    /\ pool = [m \in Modes |-> NoEntry]
    /\ handles = [h \in Handles |-> Unused]
    /\ file = NoFile /\ content = [i \in Inodes |-> {}]
    /\ hub = 0
    /\ subs = [w \in Watchers |-> [hub |-> 0, pending |-> 0]]
    /\ views = [w \in Watchers |-> {}]
    /\ calls = [c \in Clients |-> Idle]
    /\ writes = 0 /\ unlinked = 0 /\ deleting = FALSE /\ settled = TRUE

Ready(c) == calls[c].pc = "idle"

\* What a failure leaves: a watcher asks again.
Again(c) == IF c \in Watchers THEN [Idle EXCEPT !.pc = "ask"] ELSE Idle

\* Members write; Read-only accounts do not, and db_query of the MCP face is
\* read-only whoever calls it.
Mode(face) == IF face = "member" THEN "rw" ELSE "ro"

Referenced(h) ==
    \/ \E m \in Modes : pool[m].handle = h
    \/ \E c \in Clients : calls[c].handle = h
    \/ handles[h].holder # NoCaller

\* A closed handle is gone once none but the clients who leave it have it.
Collected(hs, leaving) == [h \in Handles |->
    IF /\ hs[h].state = "closed" /\ hs[h].holder = NoCaller
       /\ \A c \in Clients \ leaving : calls[c].handle # h
    THEN Unused ELSE hs[h]]

\* What a query finds under the database's name.
Visible == IF file = NoFile THEN {} ELSE content[file]

-----------------------------------------------------------------------------
(* The pool                                                                *)

\* appDB: the pooled handle, used just now, or a new one.
Lookup(c, kind, face) ==
    LET m == Mode(face) IN
    \/ /\ pool[m].handle # NoHandle
       /\ pool' = [pool EXCEPT ![m].idle = FALSE]
       /\ calls' = [calls EXCEPT ![c] = [Idle EXCEPT !.pc = "acquire", !.kind = kind, !.face = face,
                                                     !.handle = pool[m].handle]]
    \/ /\ pool[m].handle = NoHandle
       /\ calls' = [calls EXCEPT ![c] = [Idle EXCEPT !.pc = "open", !.kind = kind, !.face = face]]
       /\ UNCHANGED pool

\* Mutant: A hub for every handle.
HubOfHandle == hub + 1

\* appDBHub: one hub for the path, made on first need and never dropped.
HubOf == IF hub = 0 THEN 1 ELSE hub

\* coreDBQuery of a caller who passed gateDBTarget; a watcher's query is a
\* member's.
AskQuery(c) ==
    /\ Ready(c)
    /\ \E kind \in {"read", "write"}, face \in Faces : Lookup(c, kind, face)
    /\ UNCHANGED <<handles, file, content, hub, subs, views, writes, unlinked, deleting, settled>>

\* The handle is opened and pinged outside the mutex; the file comes into being
\* with it.
OpenHandle(c) ==
    LET h == CHOOSE g \in Handles : ~Referenced(g)
        i == IF file = NoFile THEN unlinked ELSE file
    IN
    /\ calls[c].pc = "open"
    /\ \E g \in Handles : ~Referenced(g)
    /\ file' = i
    /\ hub' = HubOf
    /\ handles' = [handles EXCEPT ![h] =
           [state |-> "open", mode |-> Mode(calls[c].face), inode |-> i, hub |-> hub',
            holder |-> NoCaller, raced |-> deleting]]
    /\ calls' = [calls EXCEPT ![c].pc = "pool", ![c].handle = h]
    /\ UNCHANGED <<pool, content, subs, views, writes, unlinked, deleting, settled>>

OpenFails(c) ==
    /\ calls[c].pc = "open"
    /\ calls' = [calls EXCEPT ![c] = Again(c)]
    /\ hub' = HubOf
    /\ UNCHANGED <<pool, handles, file, content, subs, views, writes, unlinked, deleting, settled>>

\* Nobody was faster.
PoolHandle(c) ==
    LET h == calls[c].handle m == handles[h].mode IN
    /\ calls[c].pc = "pool"
    /\ pool[m].handle = NoHandle
    /\ pool' = [pool EXCEPT ![m] = [handle |-> h, idle |-> FALSE]]
    /\ calls' = [calls EXCEPT ![c].pc = "acquire"]
    /\ UNCHANGED <<handles, file, content, hub, subs, views, writes, unlinked, deleting, settled>>

\* Somebody was: theirs is used.  Its last use is written after the mutex is
\* gone, and may be too late for a sweep that comes between.
TakePooled(c) ==
    LET h == calls[c].handle m == handles[h].mode IN
    /\ calls[c].pc = "pool"
    /\ pool[m].handle # NoHandle
    /\ handles' = Collected([handles EXCEPT ![h].state = "closed"], {c})
    /\ \E idle \in {FALSE, pool[m].idle} : pool' = [pool EXCEPT ![m].idle = idle]
    /\ calls' = [calls EXCEPT ![c].pc = "acquire", ![c].handle = pool[m].handle]
    /\ UNCHANGED <<file, content, hub, subs, views, writes, unlinked, deleting, settled>>

-----------------------------------------------------------------------------
(* Statements and batches                                                  *)

\* The answer is sent, and the connection is free.
Released(c) ==
    Collected([handles EXCEPT ![calls[c].handle].holder = IF @ = c THEN NoCaller ELSE @], {c})

\* The single connection of an open handle.
Available(c) ==
    /\ calls[c].pc = "acquire"
    /\ handles[calls[c].handle].state = "open" /\ handles[calls[c].handle].holder = NoCaller

\* BeginTx, or the one statement that is a transaction of its own.
Acquire(c) ==
    LET h == calls[c].handle IN
    /\ Available(c) /\ calls[c].kind = "write"
    /\ handles' = [handles EXCEPT ![h].holder = c]
    /\ calls' = [calls EXCEPT ![c].pc = "run"]
    /\ UNCHANGED <<pool, file, content, hub, subs, views, writes, unlinked, deleting, settled>>

\* "sql: database is closed": the handle was closed before its turn came.
HandleGone(c) ==
    /\ calls[c].pc = "acquire"
    /\ handles[calls[c].handle].state = "closed"
    /\ handles' = Released(c)
    /\ calls' = [calls EXCEPT ![c] = Again(c)]
    /\ UNCHANGED <<pool, file, content, hub, subs, views, writes, unlinked, deleting, settled>>

Heard(h) == [w \in Watchers |->
    IF subs[w].hub # 0 /\ subs[w].hub = handles[h].hub
    THEN [subs[w] EXCEPT !.pending = IF @ < BufferSize THEN @ + 1 ELSE @]
    ELSE subs[w]]

\* A reader's turn and its answer, from one snapshot.  (The handler of a
\* Read-only account looks for an error in an answer that has none, and panics:
\* by then the connection is free, and nothing else of it is left.)
Read(c) ==
    LET h == calls[c].handle IN
    /\ Available(c) /\ calls[c].kind = "read"
    /\ views' = IF c \in Watchers THEN [views EXCEPT ![c] = content[handles[h].inode]] ELSE views
    /\ calls' = [calls EXCEPT ![c] = Idle]
    /\ UNCHANGED <<pool, handles, file, content, hub, subs, writes, unlinked, deleting, settled>>

\* One row written, and announced to the hub the handle was opened with; one
\* transaction writes to a file at a time.
WriteRow(c) ==
    LET h == calls[c].handle n == Cardinality(calls[c].staged) + 1 IN
    /\ calls[c].pc = "run" /\ calls[c].kind = "write" /\ handles[h].mode = "rw"
    /\ n = 1 \/ n = 2
    /\ n = 1 => writes < MaxWrites
    /\ \A d \in Clients : calls[d].staged # {} /\ d # c =>
           handles[calls[d].handle].inode # handles[h].inode
    /\ writes' = IF n = 1 THEN writes + 1 ELSE writes
    /\ calls' = [calls EXCEPT ![c].staged = @ \cup
           {<<IF n = 1 THEN writes + 1 ELSE (CHOOSE s \in @ : TRUE)[1], n>>}]
    /\ subs' = Heard(h)
    /\ UNCHANGED <<pool, handles, file, content, hub, views, unlinked, deleting, settled>>

\* Mutant: Statements run on the handle instead of the transaction.
CommitEach(c) ==
    /\ calls[c].pc = "run" /\ calls[c].staged # {}
    /\ content' = [content EXCEPT ![handles[calls[c].handle].inode] = @ \cup calls[c].staged]
    /\ handles' = Released(c)
    /\ calls' = [calls EXCEPT ![c] = Idle]
    /\ UNCHANGED <<pool, file, hub, subs, views, writes, unlinked, deleting, settled>>

Commit(c) ==
    LET h == calls[c].handle IN
    /\ calls[c].pc = "run" /\ calls[c].kind = "write"
    /\ Cardinality(calls[c].staged) = 2
    /\ content' = [content EXCEPT ![handles[h].inode] = @ \cup calls[c].staged]
    /\ settled' = (settled /\ handles[h].state = "open")
    /\ handles' = Released(c)
    /\ calls' = [calls EXCEPT ![c] = Idle]
    /\ UNCHANGED <<pool, file, hub, subs, views, writes, unlinked, deleting>>

\* A statement fails, is refused by a read-only handle, finds the file locked
\* for too long, or runs into its timeout: what was staged is rolled back.
StatementFails(c) ==
    /\ calls[c].pc = "run" \/ Available(c)
    /\ handles' = Released(c)
    /\ calls' = [calls EXCEPT ![c] = Again(c)]
    /\ UNCHANGED <<pool, file, content, hub, subs, views, writes, unlinked, deleting, settled>>

-----------------------------------------------------------------------------
(* Watchers                                                                *)

\* The stream opens, and the page queries what it shows.
Subscribe(w) ==
    /\ subs[w].hub = 0
    /\ hub' = HubOf
    /\ subs' = [subs EXCEPT ![w] = [hub |-> hub', pending |-> 0]]
    /\ calls' = [calls EXCEPT ![w] = [Idle EXCEPT !.pc = "ask"]]
    /\ UNCHANGED <<pool, handles, file, content, views, writes, unlinked, deleting, settled>>

HearChange(w) ==
    /\ Ready(w) /\ subs[w].pending > 0
    /\ subs' = [subs EXCEPT ![w].pending = @ - 1]
    /\ calls' = [calls EXCEPT ![w] = [Idle EXCEPT !.pc = "ask"]]
    /\ UNCHANGED <<pool, handles, file, content, hub, views, writes, unlinked, deleting, settled>>

QueryAgain(w) ==
    /\ calls[w].pc = "ask"
    /\ Lookup(w, "read", "member")
    /\ UNCHANGED <<handles, file, content, hub, subs, views, writes, unlinked, deleting, settled>>

\* The page goes away.
Unsubscribe(w) ==
    /\ Ready(w) /\ subs[w].hub # 0
    /\ subs' = [subs EXCEPT ![w] = [hub |-> 0, pending |-> 0]]
    /\ views' = [views EXCEPT ![w] = {}]
    /\ UNCHANGED <<pool, handles, file, content, hub, calls, writes, unlinked, deleting, settled>>

-----------------------------------------------------------------------------
(* The sweep, deletions and restarts                                       *)

\* Nobody has asked for the handle for appDBIdleEviction.
GrowIdle(m) ==
    /\ pool[m].handle # NoHandle /\ ~pool[m].idle
    /\ pool' = [pool EXCEPT ![m].idle = TRUE]
    /\ UNCHANGED <<handles, file, content, hub, subs, views, calls, writes, unlinked, deleting, settled>>

\* Handles are dropped from the pool and closed, whoever is using them.
CloseEntries(ms) ==
    /\ pool' = [m \in Modes |-> IF m \in ms THEN NoEntry ELSE pool[m]]
    /\ handles' = Collected([h \in Handles |->
           IF \E m \in ms : pool[m].handle = h
           THEN [handles[h] EXCEPT !.state = "closed", !.raced = FALSE]
           ELSE handles[h]], {})

\* appDBSweep.
Sweep ==
    /\ \E m \in Modes : pool[m].idle
    /\ CloseEntries({m \in Modes : pool[m].idle})
    /\ UNCHANGED <<file, content, hub, subs, views, calls, writes, unlinked, deleting, settled>>

\* Another deletion fits in the model, besides the one that is under way.
MayDelete == unlinked + (IF deleting THEN 1 ELSE 0) < MaxDeletions

\* Mutant: Only the read-write handle is closed before the file is unlinked.
DeleteWriterOnly ==
    /\ file # NoFile /\ ~deleting /\ MayDelete
    /\ CloseEntries({"rw"})
    /\ deleting' = TRUE
    /\ UNCHANGED <<file, content, hub, subs, views, calls, writes, unlinked, settled>>

\* coreDBDelete finds the file and closes the pool's handles on it.
Delete ==
    /\ file # NoFile /\ ~deleting /\ MayDelete
    /\ pool' = [m \in Modes |-> NoEntry]
    /\ handles' = Collected([h \in Handles |->
           IF \E m \in Modes : pool[m].handle = h
           THEN [handles[h] EXCEPT !.state = "closed", !.raced = FALSE]
           ELSE [handles[h] EXCEPT !.raced = handles[h].state = "open"]], {})
    /\ deleting' = TRUE
    /\ UNCHANGED <<file, content, hub, subs, views, calls, writes, unlinked, settled>>

\* The file and its sidecars are unlinked, unless an app's deletion took them
\* already.  Watchers are not told.
Unlink ==
    /\ deleting
    /\ file' = NoFile /\ unlinked' = IF file = NoFile THEN unlinked ELSE unlinked + 1
    /\ deleting' = FALSE /\ settled' = FALSE
    /\ UNCHANGED <<pool, handles, content, hub, subs, views, calls, writes>>

\* coreDeleteApp: the app's folder is removed, databases and all, and the pool
\* keeps the handles it has on them.  Admins, the MCP face and virtual tools
\* still query by the app's nonce: what they find is the pooled handle, or an
\* empty database, in a folder made anew.  (Two requests that both find the
\* app's row both come this far.)
DeleteApp ==
    /\ file # NoFile /\ MayDelete
    /\ file' = NoFile /\ unlinked' = unlinked + 1
    /\ handles' = [h \in Handles |->
           [handles[h] EXCEPT !.raced = @ \/ handles[h].state = "open"]]
    /\ settled' = FALSE
    /\ UNCHANGED <<pool, content, hub, subs, views, calls, writes, deleting>>

\* The process restarts: only files are left.
Restart ==
    /\ pool' = [m \in Modes |-> NoEntry]
    /\ handles' = [h \in Handles |-> Unused]
    /\ hub' = 0 /\ subs' = [w \in Watchers |-> [hub |-> 0, pending |-> 0]]
    /\ calls' = [c \in Clients |-> Idle]
    /\ views' = [w \in Watchers |-> {}]
    /\ deleting' = FALSE /\ settled' = TRUE
    /\ UNCHANGED <<file, content, writes, unlinked>>

-----------------------------------------------------------------------------
(* Specification                                                           *)

Run(c) ==
    \/ OpenHandle(c) \/ OpenFails(c) \/ PoolHandle(c) \/ TakePooled(c)
    \/ Acquire(c) \/ HandleGone(c) \/ Read(c) \/ WriteRow(c) \/ Commit(c) \/ StatementFails(c)

Next ==
    \/ \E c \in Callers : AskQuery(c)
    \/ \E c \in Clients : Run(c)
    \/ \E w \in Watchers : Subscribe(w) \/ HearChange(w) \/ QueryAgain(w) \/ Unsubscribe(w)
    \/ \E m \in Modes : GrowIdle(m)
    \/ Sweep \/ Delete \/ Unlink \/ DeleteApp \/ Restart

Spec == Init /\ [][Next]_vars

-----------------------------------------------------------------------------
(* Properties                                                              *)

\* An open handle is in the pool, or with the request that is about to pool it:
\* two requests that open the same database leave no handle behind.
NoHandleLeaks ==
    \A h \in Handles : handles[h].state = "open" =>
        \/ \E m \in Modes : pool[m].handle = h
        \/ \E c \in Clients : calls[c].pc = "pool" /\ calls[c].handle = h

\* A batch is committed whole or not at all, and read so, whichever of its
\* statements fails and whatever is closed, deleted or restarted meanwhile.
Whole(read) == \A s \in read : {<<s[1], 1>>, <<s[1], 2>>} \subseteq read
BatchesAreWhole ==
    /\ \A i \in Inodes : Whole(content[i])
    /\ \A w \in Watchers : Whole(views[w])

\* Events come before their commit and are dropped when a buffer is full, and
\* still a watcher does not stay behind: what it shows is what the database
\* holds, or it has an event left, or its query is under way and will wait for
\* the writer's connection.  (A commit through a handle that was closed under
\* it, and a deletion, are what it may miss.)
StaleViewsAreTold ==
    settled => \A w \in Watchers : subs[w].hub # 0 =>
        \/ views[w] = Visible
        \/ subs[w].pending > 0
        \/ ~Ready(w)

\* The pool serves the file the path names, with two exceptions: a handle that
\* was being opened while coreDBDelete ran, and one that was open when its app
\* was deleted, may be pooled on a file that has no name.  coreDBDelete closes
\* every other handle before it unlinks; coreDeleteApp closes none.
PoolServesTheFile ==
    \A m \in Modes : pool[m].handle # NoHandle =>
        LET h == handles[pool[m].handle] IN
        h.inode = file \/ h.raced

\* The one connection of a handle is held by a request that still runs, so that
\* those who wait for it, without a timeout, get their turn.
ConnectionsAreHeldByRunners ==
    \A h \in Handles : LET c == handles[h].holder IN
        c # NoCaller => calls[c].pc = "run" /\ calls[c].handle = h

\* What holds of the handles: the type invariant and the three above.
HandlesAreKept ==
    /\ TypeOK
    /\ NoHandleLeaks
    /\ PoolServesTheFile
    /\ ConnectionsAreHeldByRunners

=============================================================================
