# A TLA+ model of freshbreath

freshbreath is a single Go process with one SQLite store: it signs people in
(chaining its own accounts with upstream OAuth and MCP providers), hosts small
apps in deployment slots, gives apps and models databases, services and tools,
opens SSH connections for its users, and pulls updates from publishers' feeds.
Nearly all of its state is either a row, written one statement at a time, or a
map under a mutex that is released while something slow is awaited. That is
where its interesting behaviours are, and what these modules are about.

## Inventory

Sources are under `src/internal/server/` unless a directory is given.

| Component | Module | Source | State | What makes it correct |
|---|---|---|---|---|
| Refresh sessions | `RefreshSessions`, `SessionLifecycle` | `oauth_server.go`, `db/db.go` | `refresh_families`, accounts, codes, requests in flight | a session is one chain of tokens, ends once, and ends when an account operation says so |
| Upstream legs | `UpstreamLegs` | `oauth_server.go`, `auth_resolve.go`, `services.go` | grants inside a refresh token, sealed credentials in an access token | no refresh loses a leg it did not have to; a credential goes to the server it is for |
| Login flow | `LoginFlow` | `auth_flows.go`, `auth_resolve.go`, `oauth_server.go` | pending logins, legs, hand-offs, codes, the failure window | identity is the gate's, every leg is proved, one session per login |
| Accounts, roles, onboarding | `Accounts` | `admin_core.go`, `onboarding.go`, `db/` | users, auth records, the gate's setting | a request changes what it was asked to; there is a gate, and somebody to pass it |
| Members and links | `Access` | `admin_core.go`, `db/db.go`, `http.go` | members of apps and services, links of apps to services | doors open to those last let in, links are approved |
| Services and mounts | `Services` | `admin_core.go`, `mcp_endpoint.go` | rows, definition files, mounted servers | a mount answers for the service it was made from, under its gate |
| Virtual services | `VirtualTools` | `formats/virtual.go`, `elicitation.go` | definitions, runs, suspensions | a resumed run means what its lines mean and acts once |
| Hosts and addresses | `Hosts` | `hosts.go`, `handler.go`, `admin_core.go` | hosts, apps, the route table | the table follows the rows; one app per address |
| App slots and routes | `AppSlots` | `admin_core.go`, `updates_core.go`, `handler.go` | `web`, `staging`, `production`, `web.bak`, details, the route table | slots are whole, the last good copy survives, routes agree with the disk |
| App databases | `AppDatabases` | `appdb.go`, `handler_db.go` | handle pool, files, transactions, watch hubs | handles are not leaked, batches are whole, watchers hear of changes |
| Receive feeds | `UpdateFeeds` | `updates_core.go`, `handler_updates.go` | `update_feeds`, the run lock, the shared check | the stamp is a floor; nothing is stamped that did not run; checks are answered |
| SSH sessions and agent | `SSHSessions` | `sshkit/`, `auth_flows.go`, `admin_core.go` | sessions, decrypted keys, connections, known hosts | connections are not leaked, closed ids stay closed, a reopen needs a fresh sign-in |
| Act tickets, tunnel, tool faces, jq and task scripts, git and sync, remotes, sealing, local TLS, browser code, command line | none | | | see "Not modelled" |

Components talk through the store (rows one of them writes and another reads
later), through a few shared maps, and by direct calls: an account operation
revokes refresh families and drops the agent's key; a login opens a family; a
check writes the row an apply reads; an update op replaces an app's slot and
rebuilds the routes; a request for a service passes the door of its app, then its
link, and is given one of the session's credentials.

The hard behaviours are of four kinds. Rows are read, something is awaited (an
upstream provider, a publisher, a dial, a key derivation), and the row is used
or written afterwards. Maps are unlocked around slow calls and looked at again
(`appDB`, `SessionManager.Get`, `rebuildHosted`). What is one step to a reader is
several statements to the store, with failures and restarts between them. And
clocks (grace windows, times to live, sweeps every 60 seconds) race all of it.

How the modules divide what they share: `LoginFlow` ends where `RefreshSessions`
begins (`ClearLogin` there is `Finish` here); `UpstreamLegs` is the detail of
`RefreshSessions!RefreshLegs`, with a family of the simplest kind; `AppSlots` is
the detail of `UpdateFeeds!RunOps`; `Hosts`, `AppSlots` and `Access` each keep the
part of an app they are about, the address and gate, the directories, and the
members and links.

## RefreshSessions and SessionLifecycle

A sign-in opens a *family*, one row of `refresh_families`. Its refresh token
carries the family's id and a jti; refreshing rotates the row's current jti by a
compare-and-swap and answers with a token for the new one. A previous jti still
answers for a grace window; any older one is a replay and ends the family.

| Model | Code |
|---|---|
| `families` | rows of `refresh_families` |
| `logins` | the authorization code a cleared login left, redeemed once |
| `tokens` | every refresh token handed out, with the jti it was exchanged for |
| `requests` | refreshes in flight, with what they read of the row |
| `accountOps` | account operations between their write of the account and their revocation |
| `ClearLogin`, `OpenFamily` | `finishLogin`, `openFamily` |
| `BeginRefresh`, `DetectReuse`, `RefreshLegs`, `LegsRefused`, `Reissue`, `Rotate`, `RotateLost`, `TakeWinners`, `RotatedElsewhere`, `Respond` | the stretches of `handleRefreshTokenGrant` between its awaits and statements |
| `SignOut`, `SignOutAll`, `DeleteUser`, `ChangeKey`, `SetStatus`, `RevokeListedSessions`, `RevokeSessions` | the operations of `admin_core.go` and their `RevokeUserRefreshFamilies` |
| `Sweep`, `StoreFails`, `Crash`, `Tick` | the ticker, a failing statement, a killed process, the clock |

`SessionLifecycle` is what a session promises without the table: unopened, open
with a generation that only grows, ended for good. `RefreshSessions` implements
it with the phase and generation read off the rows and codes.

Upstream legs are one step that succeeds or refuses here; `UpstreamLegs` has its detail. Signatures and
client checks are left out: every token in `tokens` is a genuine one.

## UpdateFeeds

One row per feed holds its URL, the version last applied (the *stamp*), the
version last seen and the validators of the last response. A check asks the
publisher with those validators; an apply checks, fetches again, runs the ops and
stamps.

| Model | Code |
|---|---|
| `rows` | `update_feeds` |
| `remote` | what each URL serves; publishers ship and roll back as they like |
| `content` | the version whose ops last touched the feed's targets |
| `feedRunMu`, `feedCheck` | the run lock, and the check later callers join |
| `calls` | callers, with the rows as their run read them |
| `AskCheck`, `TakeLock`, `ShareAnswer` | `coreCheckAllUpdateFeeds` |
| `Unchanged`/`NotModified`, `Fetch`, `Cache`, `Seen` | `checkUpdateFeed`, one step per request or statement |
| `AskApply`, `HangUp`, `Abandon` | `handleUpdateApply` and its stream |
| `Refetch`, `Recache`, `RefuseOps`, `RunOps`, `Stamp` | `applyUpdateFeed` |
| `EditUrl`, `DeleteFeed`, `Publish`, `StepFails`, `Crash` | admins, publishers, failures, a killed process |

An archive is a version, the tag its validators stand for, and whether it can be
read. The ops of an archive are one step, which may stop halfway. Versions are
numbers; how the code orders version strings is left out.

## SSHSessions

A passphrase login hands the account's decrypted key to the agent for
`sshAgentTTL`; with it the user opens sessions, whose ids outlive their
connections: past `ttl` the connection is shut and the next use of the id dials
again, with whatever key the agent has then.

| Model | Code |
|---|---|
| `accounts` | the key an account holds: its generation, and whether there is one |
| `agent` | `AgentManager.entries` |
| `sessions`, `issued` | `SessionManager.sessions`, and every id ever drawn |
| `open` | connections not yet closed |
| `knownHost` | the row of `ssh_host_keys` of one remote host |
| `calls` | requests, with the session a reopen has in hand and the connection just dialed |
| `VerifyPassphrase`, `AddKey` | `handleSSHAuth`, `handleDirectLogin` |
| `GenerateKey`, `ChangeKey`, `RemoveKey`, `RemoveFails` | account operations that write the key and then clear the agent |
| `AskOpen`, `AskReopen`, `Sign`, `CheckHost`, `TrustHost`, `DialFails` | the way into `dial`, and its steps |
| `InstallOpened`, `InstallReopened`, `DropReopened` | what `Open` and `Get` do when they have the mutex again |
| `Close`, `ExpireSessions`, `ExpireKeys`, `ForgetHost`, `Stop`, `Tick` | closing, the ticker, an admin, the end of the process, the clock |

`NewTOFUHostKeyCallback` looks the host up in one statement and stores its key in
another, which is why `CheckHost` and `TrustHost` are two actions.

## UpstreamLegs

A login collects a grant from every upstream provider it went through. The grants
ride in the session's refresh token, the credentials in its access token; a
refresh renews every leg at its provider, then rotates its own token.

| Model | Code |
|---|---|
| `jar`, `creds` | what the client holds: the refresh token with its legs, the sealed credentials |
| `family` | the row's current and previous jti |
| `grants` | the refresh token each provider takes next |
| `reqs` | refreshes in flight, with the legs still to visit and those renewed |
| `SignIn` | `collectLegs`, `mintForLegs` |
| `Ask`, `RideOn`, `Renew`, `Exchange`, `Refuse`, `ExchangeLost`, `Mint`, `RotateFamily`, `FollowWinner`, `Deliver`, `Lose` | `handleRefreshTokenGrant`, `refreshLegs`, leg by leg |
| `Proxied`, `ToolToken` and what they use | `resolveOutboundCred`, `handleServiceProxy`, `virtualAuth`: pure operators, checked for every service, gate and way of showing the session |

Legs are visited in any order (the code ranges over a map); a provider rotates
its token or lets it live; answers are lost on either side.

## LoginFlow

| Model | Code |
|---|---|
| `logins` | `pendingAuth`: legs, the one it is at, who it belongs to, what was collected |
| `handlers` | requests that advance a login, between what they read and what they write |
| `tokens`, `proofs` | what was minted, and what was really proved and by whom |
| `StartApp`, `StartPage`, `StartMCP`, `MayBind`, `Bind`, `Continue` | the doors a login begins at, and the consent page |
| `SignIn`, `Callback`, `Exchange`, `CompleteLeg` | a trip to a provider and back |
| `Attempt`, `Submit`, `WrongCredential`, `RightCredential`, `RollWindow` | a credential form and its failure window |
| `BeginLeg`, `LegCovered`, `LegFromClaims`, `MintForLegs`, `HandOut`, `Finish`, `Collect`, `Refuse`, `Expire`, `Restart` | walking the legs, minting, handing over, expiry |

Steps between two waits are atomic. A login of the past (constant `Past`) has left
a token that may cover legs of the new one.

## Accounts

One statement of the store is one step. A request reads a row, decides by it, and
writes the whole row back, so `Begin...` has the reads and the action named for the
operation the write. `book` is a ghost: what each row would be if every request
changed only the fields it was about. `Crash`, `LastStepFails` and the failing
steps of onboarding end a request between its statements.

A passphrase login is two steps: `BeginLogin` reads the row and checks the passphrase
against its key, `OpenSession` opens the family when the code is redeemed and looks at
nothing again; anything may happen between them, and `LoginLapses` if it never comes to
that. A login that passed under a key that has ended since, and was still to be redeemed
when `Revoke` ended the account's sessions, does open its session, and nothing ends it.
`outlived` records those sessions, as the code has this behaviour (see *Divergences
seen*), and `EndedKeysLeaveNoSession` is about all others, opened before the revocation or by a
login that began after it.

## Hosts

A request checks (`Checks`, `FreeOf`, `NameFree`, `InUse`, `Refs`), writes, then
`Rebuild`s a table from the rows and installs it (`InstallTable`), each a step of its own. All
apps ask for one slug, so that a host name is an address. The ghosts `crossed`,
`doubled` and `stale` name what overlapping requests, an earlier double booking, or
rebuilds side by side excuse; a rebuild that runs alone heals the table.

## Services

Rows, definition files (under the service's name) and mounts (under the slug of its
URL). `Load` and `Register` are the two steps of mounting; `Settled` excludes
services whose requests overlapped. A rename does not move the file.

## Access

Lists of members and links are rewritten whole, by a request that read before
(`memberServiceLinks`). Deletions are one step per statement and may be cut short;
`Crash` runs the clean-ups of the next start. `staffed` and `linked` record the last
decision about each pair, `approved` every link that was ever asked for by an Admin
or by a member of the service.

## VirtualTools

A definition is a sequence of lines, and a step of it is a request or a question with
the statements that lead up to it (`Start` finds the first of them). `CallTool` begins a
run; `Statement`, `Act`, `HandOff`, `Suspend`, `AskInVain` and `Finish` take it from line to
line; `Retry`, `TakeAnswer` and `Report` resume it, from the start of the step that asked;
`Age`, `Sweep` and `Restart` forget it. A value is known by where it came from and how
often it was changed. `ScopeAt`, `XAt` and `GetsTo` are the reference: what the lines
before a line mean with the answers given, read off the text of the tool and not off any
run of it.

Assignments set `$x` from `.`, from a token, or from itself (`count`, which is
`$n = $n + 1`). Since the step that asked is gone over again with the variables the first
time left, a `count` there counts twice, and a change of `.` is made twice.
`ChangesBeforeAsking` names the tools this happens to, and `ResultsAreAsMeant` is about
the others: a `count` that follows an assignment of the same step, in the step of a
request, or in that of a link that is handed over, is within it.

## AppDatabases

`Lookup`, `OpenHandle`, `PoolHandle`, `TakePooled` are the unlocked stretches of
`open`; `Acquire`, `WriteRow`, `Commit`, `StatementFails`, `Again` a batch on a
handle's only connection; `GrowIdle` and `CloseEntries` the sweep; `Delete` and
`Unlink` the deletion of the database, `DeleteApp` that of its app; `Subscribe`, `HearChange`, `QueryAgain` a watcher. A file is an
inode that may have lost its name.

`coreDBDelete` closes the pool's handles and then unlinks; a handle opened between the
two, or opened but not yet pooled, ends up pooled on a nameless file. `coreDeleteApp`
removes the app's folder and closes nothing, so every handle open at that moment does.
`raced` marks the handles of both kinds, and `PoolServesTheFile` says that no others are
on a file the path does not name. An app's database is still asked for after its app is
gone, since an Admin's query names a folder and not a row (`gateDBTarget`).

## AppSlots

A job is one file operation per step (`Clear`, `Backup`, `Rename`, `Fill`,
`Wipe`), then the details row (`Save`), then the route table (`List`, `Install`);
any of them may fail. No lock holds jobs apart, and none is modelled.

## Runs

Every run passes; with two workers TLC takes a minute or less for most, and two to three
minutes for `ssh`, whose three connections and liveness make it the longest.

| Run | Properties | Shows |
|---|---|---|
| `sessions` | `TypeOK`, `NeverForks`, `OnlySpentTokensRetire`, `NoFalseAccusation`, `RevokedIsFinal`, `ImplementsLifecycle`, `ReuseIsFatal`, `AccountOpsEndSessions` | concurrent refreshes, grace retries, replays, sign-outs, account operations, the sweep, store failures and crashes never fork a session, never accuse the current token, never revive a revoked row, and implement the lifecycle; a detected replay and an account operation end what they should |
| `feeds` | `TypeOK`, `ContentNotUnderStamp`, `StampsAreCurrent`, `StampIsFloor`, `ChecksAreAnswered`, `PendingStaysListed` | the stamp never moves back and never covers ops that did not run; every caller of a check is answered; an update that stays on offer keeps being listed |
| `ssh` | `TypeOK`, `NoConnectionLeaks`, `LiveSessionsConnected`, `ClosedStaysClosed`, `ReopensAfterLogin`, `UnusedConnectionsClose` | no connection leaks, no closed id comes back, sessions inside their time are connected, a reopen dials with a key loaded since the session was dialed, and unused connections are closed in the end |
| `databases` | `HandlesAreKept`, `BatchesAreWhole`, `StaleViewsAreTold` | no handle is lost and the pool serves the file of the path, but for handles opened beside a deletion or left open by an app's; batches are whole; a watcher that is behind has an event to come |
| `slots` | `AloneLeavesWhole`, `ReplacedSlotIsKept`, `SlotsAreEarned` | what a job that ran alone leaves; a replaced slot stays one rename away; staging and production only have files that were in dev, and the report no slot nobody filled |
| `logins` | `TokensAreProved`, `LoginsStayTheirs`, `GuessesAreBounded` | a token's identity is the gate's and proved, fresh means signed in, a login nobody raced proves every record it binds; one session per login; consent stays in its browser; the failure window holds under bursts |
| `accounts` | `AccountsFollowTheBook`, `GatesAndKeysHold`, `OnboardingIsWhole` | a row whose writers did not overlap is what they meant; no Superuser that was never made one; ended keys leave no session but those of logins that were under way; the gate is a record; onboarding is all or nothing |
| `hosts` | `TableFollowsTheRows`, `AddressesHold` | the table settles to the rows; one app per address, used hosts stay listed, gates are records |
| `services` | `MountsFollowTheRows` | what is mounted is a service that exists, its definition and its gate |
| `access` | `NothingUnapprovedIsLinked`, `ListsFollowDecisions` | an app reaches only approved services, whatever overlaps; doors and lists follow the last decisions |
| `virtual` | `ResultsAreAsMeant`, `RunsKeepToThemselves` | suspended and retried runs mean what their lines mean (unless a step that asks changes `.` or counts a variable up), act once, stay in their session and keep the session's token here |
| `legs` | `LegsServeTheSession` | after any history of refreshes the client's legs are current and complete unless an answer was lost; every credential goes to the server it is for |

Several invariants are conjunctions of named parts, with the module's type
invariant first: `HandlesAreKept`, `SlotsAreEarned`, `TokensAreProved`,
`LoginsStayTheirs`, `GatesAndKeysHold`, `AddressesHold`, `MountsFollowTheRows`,
`ListsFollowDecisions`, `RunsKeepToThemselves`, `LegsServeTheSession`. Each part has
its own comment in the module.

### Bounds

| Run | Bounds | Why they are enough |
|---|---|---|
| `sessions` | one family, two requests, grace window 1, family life 1, time to 3, three jtis, one key change, trouble until time 2 | two requests are what a race needs; three jtis have a current, a previous and an older token; families do not interact |
| `feeds` | one feed, two checkers, one apply, two releases, one edit or failure | one checker leads and one joins; the apply finds newer, older and equal archives. A second apply behind one whose client hung up does not fit the run's time |
| `ssh` | two requests, one id, three connections, times to live 0 and 1, time to 3, two key changes | one connection for the session both requests found expired and one for each that dials, so the slower of two reopens finds another's session installed and drops its own; a closing and a sweep race both; an id lives through expiry, reopening and forgetting |
| `databases` | two callers, one watcher, three handles, a buffer of one event, one batch of two rows, one deletion of the database or of its app | two openers of one database, and a third handle after a sweep or deletion; an app's deletion under pooled handles and under one being opened; a buffer that overflows |
| `slots` | two jobs at a time, three in all, two paths, two versions, one fault | mixtures need two jobs; the third sees what the first two left |
| `logins` | one past and one new login, two handlers, two people, two browsers, four doors of two legs, one failure allowed, one trip | each order of form and provider; two submissions of one leg; a covered leg |
| `accounts`, `hosts`, `services`, `access` | three requests, two at a time; two or three of each thing | every pair of operations overlaps, after or before a third; a key ends and its sessions with it between a login's check and its session |
| `virtual` | every definition of one or two lines and nine of up to six; two runs, three suspensions | two questions in one run, a link with and without its report, a retry sent twice; variables counted up in a step that asks, after and without an assignment |
| `legs` | five doors of two legs, two refreshes at a time, two jtis, three upstream tokens per provider | both legs at one provider or at two; a leg without refresh; a rotation in and out of grace |

Names beginning with `Max` and `TroubleEnds` bound the exploration and stand in
guards only; `CHECK_DEADLOCK FALSE` is set where those bounds, or the end of time,
leave nothing to do. `databases` runs with deadlock checked.

### Fairness

- `RefreshSessions`: a handler that has started runs on to its end (its upstream
  calls time out); an account operation goes on to its revocation. No fairness is
  assumed of clients, of the sweep or of failures; `ReuseIsFatal` and
  `AccountOpsEndSessions` are about what begins once `TroubleEnds` has passed, since a
  failed write or a killed process does lose the revocation.
- `UpdateFeeds`: runs go on; whoever waits for `feedRunMu` gets it in turn
  (`sync.Mutex` starves nobody), which is strong fairness of `TakeLock`; and
  somebody keeps asking for checks, as the pages that poll do.
- `SSHSessions`: requests go on (dials have a 15 second timeout), and the ticker
  sweeps. Nobody is assumed to ask for an id again.

The other modules state safety only.

## Proofs

Eight modules prove, for every value of the constants, what TLC checks on the instances
above: `RefreshSessions_proofs`, `SSHSessions_proofs`, `Access_proofs`,
`UpdateFeeds_proofs`, `AppDatabases_proofs`, `AppSlots_proofs`, `LoginFlow_proofs` and
`Accounts_proofs`. Each states an inductive invariant of named parts, one lemma per
action (or per group of actions that do the same to it), and closes with the temporal
theorem. Four of them prove things about a second
component too, and extend both: `Hosts` in `AppSlots_proofs`, `Services` in
`AppDatabases_proofs`, `UpstreamLegs` in `RefreshSessions_proofs`, `VirtualTools` in
`UpdateFeeds_proofs`. That is why those four name their definitions `HostsInit`,
`ToolNext`, `LegsSpec` and so on. Nothing is said of two components together.

They assume what the modules' `ASSUME`s say, which TLC evaluates: times and bounds are
naturals, null values are not in the sets they stand beside, and

- `SSHSessions`: the agent's time to live is below the session's (one hour and eight);
- `UpdateFeeds`: the table of feeds is finite, and an archive is known by its tag;
- `AppSlots`: a directory that is not there is not a set of files;
- `Access`: users, apps, services and nobody are four kinds of things;
- `Accounts`: a row or a record that does not exist is not one that does; the bounds leave
  room for the rows that `Init` starts with;
- `VirtualTools`: a tool has a line and no more than `MaxLines`; a page is not a host's
  session, an answer that does not fit is none that does, and a session's token is
  neither a line's response nor anything that can be answered;
- `LoginFlow`: a door asks for its first record only once (`legsForLogin` leaves the
  primary out of the rest, `auth_flows.go:67`), and a form's kind is not a record;
- `Hosts`: names of hosts and ids of app records are two kinds of things;
- `Services`: names, slugs and ids are three;
- `UpstreamLegs`: an mcp service has a record of its own (`mcpAuthID`), and a login clears
  at least the record of its gate (`mintForLegs` refuses one that has not).

Three theorems about feeds say what they need on top, `NamesOnce`: no apply names a
feed twice. The code does not refuse one that does, and such an apply can move a stamp
back (see *Divergences seen*); the run's applies name each feed once as well.

**RefreshSessions.** `NeverForks` is not inductive: a rotation writes what a read
before two awaits allowed. The invariant `IInv` adds that jtis grow along a chain
(`JtiOrder`), that nobody was answered for the current token yet (`CurrentUnspent`),
that whoever spent the previous one got the current one (`PrevSpentForCurrent`),
that what a request remembers of its row stays meaningful (`RequestSnapshot`: in the
grace window the answer it is going to give has been given before; outside it, its
own token was current), and that a family id has no row, token or request before its
code is spent (`Unopened`). Most steps are *quiet* (`QuietStep`); opening, answering
and rotating are done one by one. Proved from it: `TypeCorrect`,
`SessionsNeverFork`, `TokensRetireOnlyWhenSpent`, `ReuseDetectionIsRight`,
`RevocationIsFinal`, and `LifecycleImplemented`, the refinement.

**SSHSessions.** `NoConnectionLeaks` needs that no two ids share a connection
(`OwnConnections`), that a connection just dialed is open and its request's alone
(`DialedApart`), that what a reopen has shut stays shut (`ReopensShut`, without
which replacing a record could lose an open connection), and that requests know
whose they are (`RequestsKnow`). Steps are quiet, dial (`ConnectStep`), install
(`InstallStep`) or shut (`ShutStep`). Proved: `TypeCorrect`, `Leakless`,
`Connected`, `Closed` and `LoginBeforeReopen`.

**Access.** `OnlyApprovedLinks` proves `NothingUnapprovedIsLinked` for any number of
requests. A Member's rewrite carries links its request read some time ago, so the
invariant also says that what a request is about to write is approved already
(`WritesAreApproved`): that survives any interleaving since approvals are never
taken back. Steps that go on, end or only drop links are treated together
(`OnwardKeeps`), as are requests that arrive (`BeginKeeps`).
`ListsSayWhatWasDecided` proves `ListsFollowDecisions`, which speaks of what no two
requests shared at once. Its invariant `LInv` says so of requests under way: those
that share a thing have *crossed* in all they are about (`SharedIsCrossed`), so
whoever has not still finds what it read. A list about to be written names who is
there (`WrittenIsThere`); a Member's rewrite covers all of their own services and has
the links to others' as they are (`SharesAreKept`); a deletion that has left a list
behind is in none of its pairs (`DeletionsGoThrough`), so its row can go. A step alters
only pairs it is about (`AboutKeeps`), and what it does to them it does to the decisions.

**UpdateFeeds.** A run judges a feed by the row it read, which may be minutes old, and
writes the whole stamp. What makes that safe is `RunsTakeTurns`: only the run that
holds `feedRunMu` has feeds left to work on. Nobody else writes a stamp meanwhile, so
the rows in hand stay current (`StampsAreCurrent`), given that no feed is in the list
twice (`ListsHoldEachOnce`). `StampsAreNews` says that an archive that is about to be
stamped is newer than the row and, by then, installed. Proved: `TypeSafety`,
`RunsSeeTheStamps`, `StampsAreBacked` and `StampsMoveForward`, the action property.

**AppDatabases.** A handle passes from the request that opens it to the pool and on to
requests that use it, while sweeps, evictions and deletions close it under them.
`RequestsHoldHandles` says who may have it at which point (the one being opened is
nobody else's), `PooledAreOpen` and `HandlesAreOnFiles` what the pool and an open
handle can count on (the handle is on the file of the path unless a deletion got in
between or the app was deleted under it), `FilesFollow` that the name goes to one file after another, and
`StagedInOrder` that a batch runs on a connection that may write. `HandlesAccounted`
and `BatchesStayWhole` follow. `WatchersAreTold` needs two more facts that only hold
together: `BatchesAreHeard`, that the event of a batch comes before its commit, and
`WatchersRead`, that a watcher that shows an old view reads through the hub's handle.

**AppSlots.** `EInv` holds whatever overlaps: what is in a slot has been in dev
(`SlotsHaveDevFiles`), because only dev takes files from a request and every copy
comes out of a slot; and a job that writes the report has filled or cleared its slot
(`JobsKeepToSlots`). `AInv` follows a job that has the disk to itself from request to
end: what it wants is still where it reads it, what is written so far is as wanted,
and what it replaced is in the backup (`AtClear` to `AtEnd`, `HasKept`). A job is
written off as soon as another one starts, so no step of another one needs to be
considered. Proved: `SlotsHoldWhatWasEarned`, `TheReplacedIsKept` and
`AloneJobsLeaveWhole`.

**LoginFlow.** Three invariants, each on top of the first. `SInv` holds whatever the
requests do: a request that stands before a check belongs to a login that is under
way and of the leg it read, what is done in a login was proved by the person it names
(`LegsOK`), and codes and tokens say the same (`TokenOK`); hence identity and
freshness. `GInv` counts: wrong tries of this window and checks under way are booked,
or were taken back late. `RInv` is about logins no two requests advance at once
(`~raced`), for which `Alone` says what the code relies on and no lock ensures: one
request, at the leg that is current; at the end, no leg left; one parcel or one
session, never both. `PInv` then carries what was proved from legs to tokens.
Legs stacked on an earlier token enter through lemmas about `Covered`.
Proved: `GuessesStayBounded`, `TokensSayWhatWasProved` and `LoginsKeepToTheirs`.

**Accounts.** A request writes back the whole row it read, so `AInv` says what it goes by
(`Knows`): the row was one of an account that had its id by then, whoever is Superuser on it
had been made one, and what it is going to write is that row but for the fields it may
change. `OnTheBooks` compares each account with its page in the book, where every
request has changed only what it meant to: they say the same as long as no writer found a
row other than the one it had read, but for the pin while a move has yet to clear it.
`IdsInOrder` keeps a new account clear of old sessions. `KeysEnd` speaks of sessions and
of logins that may still open one alike (`Signed`): they are of the account's key, or they
outlived a revocation, or the request that ended the key has yet to revoke, so a login that
passes before the key ends and is redeemed after is either caught by the revocation or
among the `outlived`. `AloneAsBegun` says that what a
request about the gate found is still so while it is alone, which is what `GateIsThere`
and `OnboardingIsWhole` rest on. Writers of a row are treated together (`RewriteKeeps`,
`AlikeKeeps`), as are requests that arrive (`BeginKeeps`). Proved:
`AccountsStayOnTheBooks`, `GatesAndKeysStay` and the action property
`OnboardingStaysWhole`.

**Hosts.** A rebuild reads the rows, works out a table and installs it later; an app's
address is built from the name its host had when the request read it. The invariant says
that no two rows share a name (`NamesAreApart`), that what is about to be written of an
app, a host or a record is what it was read as or was meant to become (`AppWrites`,
`HostWrites`, `RecordDrops`), and of requests that were never overlapped, `NoneBeside`,
that what they read is still so: their table is built from the rows as they are
(`BuiltIsRight`) and has all of them (`BuiltIsThere`). Proved: `TheTableFollows`,
`AddressesStay`.

**Services.** Mounts are written after the rows, by whoever wrote the row, and
`MountsFollowTheRows` speaks of services whose writers were alone. The invariant says of
those alone what they know, have in hand and own (`Knows`, `InHand`, `OwnThings`), that
a service nobody is busy with is in step (`UntouchedAreInStep`), and that a mount is its
service's or somebody is about to take it away (`MountsAreOwned`). That carries because
a step touches nothing but what its request is about (`Within`). Proved:
`TheMountsFollow`.

**UpstreamLegs.** What a client holds may be two answers behind what a provider takes.
The invariant follows a request from its token to its answer (`Progress`: a leg it spent
has a later token in its answer, a rotation a later jti), so what a client holds only
gets newer as long as every answer came in its turn (`JarsGrow`). Then an answer to the
token that the client still holds is current but for what *other* requests have spent or
rotated (`AnswersAreCurrent`), and a client that is given back what it had proves that
nothing was spent for it (`BelowBothWays`, in `DeliverKeeps`). `LegsAreTheLogins` says
that every token has the legs of the login, whence where they may go: `ResolvedIsDue`
and `DueGoesHome` go through the cases of `resolveOutboundCred` and of the doors.
Proved: `TheLegsServe`.

**VirtualTools.** `Sound` says of one run and what it did: it has what the lines before
it mean (`AsMeant`); only requests it is past have acted (`Acted`), so going back over the
statements of a step acts nowhere twice; what it could send elsewhere is not its caller's
session (`Discreet`); and a run resumed with an answer is on its way to the question that
the answer is for, with nothing but statements before it (`OnTheWay`). There `$x` may be
ahead of the lines: it is what it was at the question, until an assignment on the way sets
it to that again; no line on the way counts it up before one has (`Settles`), which is what
`ChangesBeforeAsking` is there to ensure. `Waiting` says that a suspension is the only one of its run, holds what
the run had when it asked, and has the last report. What lines mean is not defined by
recursion but by the last line that sets `.` or `$x` (`LastOf`), so the lemmas `ScopeSet`,
`ScopeBumped`, `ScopeSame`, `XAssigned`, `XCounted` and `XSame` say how it goes from line to line, and
`ScopeEarlier` and `XEarlier` that an answer changes nothing before its question. Proved:
`ResultsStayAsMeant` and `RunsStayToThemselves`.

TLC checked `LInv` and the inductive invariants of these last nine components on their
runs' instances before they were proved.

Only model-checked: the liveness properties (`ReuseIsFatal`, `AccountOpsEndSessions`,
`ChecksAreAnswered`, `PendingStaysListed`, `UnusedConnectionsClose`), since the prover has
no `ENABLED` and so no fairness.

## Divergences seen

What a comment or a guide says and the code does not keep, met while modelling. The
properties leave these cases out, each by a condition its comment names.

| Says | Does |
|---|---|
| a passphrase reset ends the account's sessions (`admin_core.go:1200`) | a login that passed under the old key (`auth_flows.go:1375`) and is redeemed after the revocation (`:1202`) opens its family (`oauth_server.go:705`), and nothing ends it; the same of a key that is deleted |
| a refusing upstream "leaves the client holding a still-current token to retry" (`oauth_server.go:862`) | after a partial refresh an earlier leg's single-use token is already spent; overlapping refreshes in the grace window spend it twice |
| a lost rotation race answers with the winner's token | without looking at `revoked` (`oauth_server.go:894`), and a grace retry answers with the jti it read before it waited (`:879`) |
| "one token carrying every cleared record" (`auth_flows.go:36`) | a form sent twice binds a record nobody proved (`:1399`) |
| an apply never moves a stamp back | one that names a feed twice can (`updates_core.go:905`, `:952`) |
| checks go on listing an update on offer | not after a crash or failed write between the validators and the seen version (`updates_core.go:807`); validators may stand beside another archive's version, or be written after an edit dropped them (`:795`, `:997`) |
| "rather than losing the only copy of the old files" (`updates_core.go:446`) | a second apply after half a copy clears the backup |
| "an app is routable iff at least one deployment slot dir exists" (`handler.go:611`) | not after a failed copy, or rebuilds that overlapped |
| two jobs on one slot | nothing holds them apart: they mix files, and lose each other's report (`admin_core.go:1744`) |
| a key that was replaced leaves the agent (`admin_core.go:1059`) | a login that verified it before puts it back (`auth_flows.go:1393`) |
| a known host's key is compared | the later of two first connections replaces it (`sshkit/session.go:257`); `Get` reopens an id past its window until the next sweep (`:98`) |
| "no SQLITE_BUSY, ever" (`appdb.go:334`) | not when a handle is evicted under a long batch; a deletion that races an opening leaves the pool on a nameless file (`:761`); `isReadonlyWriteErr(nil)` panics on a Read-only account's query that succeeds (`:448`) |
| "Close the pool entries before unlinking" (`appdb.go:759`) | `coreDBDelete` does; `coreDeleteApp` removes the app's folder, databases and all, and closes none (`admin_core.go:589`): the pool serves the nameless file until the handle is idle for long enough or the process restarts |
| "role, status and metadata stay as they are" (`admin_core.go:1073`) | overlapping requests write back what they read; a passphrase link that was spent or withdrawn is restored the same way |
| the gate's record names an identity | `coreUpdateAuth` may change its kind to one that does not (`admin_core.go:1226`); an update over HTTP without a role stores an empty one (`:270`); a changed address keeps the pins of the old one (`:1092`) |
| an address has one app (`hosts.go:200`) | two apps that run elsewhere share a URL whose host is then listed; a stale update of a host strands its apps (`:226`); `update_app` without a URL blanks it |
| a gate change "takes effect without a remount" (`mcp_endpoint.go:28`) | not when the definition is missing or does not parse (`:64`) |
| "links to every other service stay as they are" (`admin_core.go:618`) | undone when a Member's rewrite overlaps an Admin's |
| a step that asked is "re-run harmlessly" (`formats/virtual.go:1305`) | not one that changes `.` (`:1579`) or assigns a variable from its own value (`:1577`, as `$n = $n + 1` does): the pre-block runs again over the variables stored at the suspension |

## Abstractions worth knowing

- `AppDatabases`: SQL is abstracted to rows; the `-wal` and `-shm` files go with the
  file in one step; a read holds its connection within one step.
- `AppSlots`: one app; its data area and the hosts are left out.
- `LoginFlow`: the gate-pass cookie and the direct sign-in are the session a token
  stands for; a restart forgets everything but tokens.
- `Accounts`: the reads of authentication and handler are one step; a link's expiry
  and act tickets as actors are left out.
- `Hosts`: the reads of a check are one step, and so are the two of a rebuild; default
  apps and owners are left out.
- `Services`: an app's own service (`app:<nonce>`) is left out.
- `Access`: ids and nonces are never used again; members of hosts are in `Hosts`.
- `VirtualTools`: sealed parameters, enumerations, templates and jq are left out; a
  retry that comes with the wrong session or tool uses the suspension up, as in the code.
- `UpstreamLegs`: one session of one caller; a caller's own `X-API-Key` is left out.

## Not modelled

- Act tickets: entries of one map under one mutex that never change until they expire.
- Tunnel: one listener started and stopped under one mutex; two Superusers switching
  it at once may leave a stored flag or address that is not the running one, which
  nothing acts on before the next start. The sign-in that comes through it is in
  `LoginFlow`.
- The tool faces of MCP central: translations of requests onto the operations modelled
  in `Accounts`, `Hosts`, `Services`, `Access`, `AppSlots` and `AppDatabases`.
- Task scripts and jq: a parser and an evaluator of expressions, without state.
- Git gateway and file sync: streams between a client and a remote host.
- Remotes registry: rows written one at a time, with nothing derived from them.
- Sealing of stored secrets and local TLS: codecs and files.
- The control panel, `frbr.js` and the command line.
