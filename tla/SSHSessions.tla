------------------------------ MODULE SSHSessions ------------------------------
(***************************************************************************)
(* SSH sessions, the agent's decrypted keys, and trust on first use.       *)
(*                                                                         *)
(* A passphrase login leaves the user's decrypted key in the agent for a   *)
(* while.  With it the user opens sessions: an id that stands for a        *)
(* connection.  Past its time to live the connection is shut and the id    *)
(* stays good for a reopen, which dials again.  Dialing happens outside    *)
(* the manager's mutex, so opens, reopens, closings and the sweeper        *)
(* interleave; each action below is one stretch under a mutex, or one      *)
(* statement against the store.                                            *)
(***************************************************************************)
EXTENDS Naturals

CONSTANTS
    Users,
    Callers,        \* requests in flight
    Ids,            \* session ids; each is issued at most once
    Conns,          \* connections (the structs holding them, too)
    HostKeys,       \* what the one remote host may show
    NoSession, NoEntry, NoConn, NoHostKey, NoUser, NoId,
    AgentTTL,       \* sshAgentTTL, in ticks
    SessionTTL,     \* the manager's ttl
    ReopenWindow,   \* reopenWindow
    MaxTime, MaxKeys   \* bounds of the model

VARIABLES
    accounts,   \* the key a user's account holds: a generation, held or dropped
    agent,      \* AgentManager.entries
    sessions,   \* SessionManager.sessions
    open,       \* connections not closed
    knownHost,  \* the row of ssh_host_keys
    calls,      \* what each request is doing
    issued,     \* ids ever handed out
    now

vars == <<accounts, agent, sessions, open, knownHost, calls, issued, now>>

-----------------------------------------------------------------------------
(* State                                                                   *)

Key == [gen: 0..MaxKeys, held: BOOLEAN]

Entry == [gen: 0..MaxKeys, expiry: Nat]

\* A session is closed when its connection is.
Session == [user: Users, conn: Conns, expires: Nat]

\* old is the session a reopen has in hand, conn the one just dialed, gen the
\* key a login has verified.
Call == [pc: {"idle", "login", "account", "sign", "dial", "trust", "install"},
         user: Users \cup {NoUser}, id: Ids \cup {NoId},
         old: Session \cup {NoSession}, conn: Conns \cup {NoConn},
         hostKey: HostKeys \cup {NoHostKey}, gen: 0..MaxKeys]

Doing(pc, user, id, old, gen) ==
    [pc |-> pc, user |-> user, id |-> id, old |-> old, gen |-> gen,
     conn |-> NoConn, hostKey |-> NoHostKey]

Idle == Doing("idle", NoUser, NoId, NoSession, 0)

ASSUME ParametersAssumption ==
    /\ AgentTTL \in Nat /\ SessionTTL \in Nat /\ ReopenWindow \in Nat
    /\ AgentTTL < SessionTTL
    /\ MaxTime \in Nat /\ MaxKeys \in Nat
    /\ NoSession \notin Session /\ NoEntry \notin Entry
    /\ NoConn \notin Conns /\ NoId \notin Ids
    /\ NoHostKey \notin HostKeys /\ NoUser \notin Users

TypeOK ==
    /\ accounts \in [Users -> Key]
    /\ agent \in [Users -> Entry \cup {NoEntry}]
    /\ sessions \in [Ids -> Session \cup {NoSession}]
    /\ open \subseteq Conns
    /\ knownHost \in HostKeys \cup {NoHostKey}
    /\ calls \in [Callers -> Call]
    /\ issued \subseteq Ids
    /\ now \in Nat

Init ==
    /\ accounts = [u \in Users |-> [gen |-> 0, held |-> TRUE]]
    /\ agent = [u \in Users |-> NoEntry]
    /\ sessions = [id \in Ids |-> NoSession]
    /\ open = {}
    /\ knownHost = NoHostKey
    /\ calls = [c \in Callers |-> Idle]
    /\ issued = {}
    /\ now = 0

-----------------------------------------------------------------------------
(* Helpers                                                                 *)

At(c, pc) == calls[c].pc = pc

End(c) == calls' = [calls EXCEPT ![c] = Idle]

Exists(id) == sessions[id] # NoSession

\* Get redials from the moment of expiry, the sweeper shuts after it.
Unexpired(s) == now < s.expires

ConnsOf(ids) == {sessions[id].conn : id \in {i \in ids : Exists(i)}}

\* Every struct somebody still points to.
Referenced ==
    open \cup ConnsOf(Ids)
         \cup {calls[c].old.conn : c \in {d \in Callers : calls[d].old # NoSession}}

NewSession(u, conn) == [user |-> u, conn |-> conn, expires |-> now + SessionTTL]

-----------------------------------------------------------------------------
(* Keys: passphrase logins, account operations, the agent                  *)

\* A login verifies the passphrase against the account row it has read ...
VerifyPassphrase(c, u) ==
    /\ At(c, "idle")
    /\ accounts[u].held
    /\ calls' = [calls EXCEPT ![c] =
         Doing("login", u, NoId, NoSession, accounts[u].gen)]
    /\ UNCHANGED <<accounts, agent, sessions, open, knownHost, issued, now>>

\* ... and hands the agent the key of that row.
AddKey(c) ==
    /\ At(c, "login")
    /\ agent' = [agent EXCEPT ![calls[c].user] =
         [gen |-> calls[c].gen, expiry |-> now + AgentTTL]]
    /\ End(c)
    /\ UNCHANGED <<accounts, sessions, open, knownHost, issued, now>>

\* A key where there was none; the agent is left alone.
GenerateKey(u) ==
    /\ accounts[u].gen < MaxKeys
    /\ ~accounts[u].held
    /\ accounts' = [accounts EXCEPT ![u] = [gen |-> @.gen + 1, held |-> TRUE]]
    /\ UNCHANGED <<agent, sessions, open, knownHost, calls, issued, now>>

\* A passphrase reset replaces the key, coreDeleteSSHKey and coreDeleteUser
\* drop it; all write the row first and then clear the agent.
ChangeKey(c, u, held) ==
    /\ At(c, "idle")
    /\ accounts[u].gen < MaxKeys
    /\ held \/ accounts[u].held
    /\ accounts' = [accounts EXCEPT ![u] = [gen |-> @.gen + 1, held |-> held]]
    /\ calls' = [calls EXCEPT ![c] = Doing("account", u, NoId, NoSession, 0)]
    /\ UNCHANGED <<agent, sessions, open, knownHost, issued, now>>

RemoveKey(c) ==
    /\ At(c, "account")
    /\ agent' = [agent EXCEPT ![calls[c].user] = NoEntry]
    /\ End(c)
    /\ UNCHANGED <<accounts, sessions, open, knownHost, issued, now>>

\* coreDeleteUser stops short when the sessions cannot be revoked.
RemoveFails(c) ==
    /\ At(c, "account")
    /\ ~accounts[calls[c].user].held
    /\ End(c)
    /\ UNCHANGED <<accounts, agent, sessions, open, knownHost, issued, now>>

ExpireKeys ==
    /\ \E u \in Users : agent[u] # NoEntry /\ now > agent[u].expiry
    /\ agent' = [u \in Users |->
         IF agent[u] # NoEntry /\ now > agent[u].expiry THEN NoEntry ELSE agent[u]]
    /\ UNCHANGED <<accounts, sessions, open, knownHost, calls, issued, now>>

-----------------------------------------------------------------------------
(* Opening and reopening                                                   *)

AskOpen(c, u) ==
    /\ At(c, "idle")
    /\ calls' = [calls EXCEPT ![c] = Doing("sign", u, NoId, NoSession, 0)]
    /\ UNCHANGED <<accounts, agent, sessions, open, knownHost, issued, now>>

\* Mutant: the session is shut before its expiry is looked at.
AskReopenAnyway(c, id) ==
    /\ At(c, "idle")
    /\ Exists(id)
    /\ open' = open \ {sessions[id].conn}
    /\ calls' = [calls EXCEPT ![c] =
         Doing("sign", sessions[id].user, id, sessions[id], 0)]
    /\ UNCHANGED <<accounts, agent, sessions, knownHost, issued, now>>

\* Get, on a session past its time: shut it, then redial.  An unexpired one
\* is handed out as it is.
AskReopen(c, id) ==
    /\ At(c, "idle")
    /\ Exists(id)
    /\ ~Unexpired(sessions[id])
    /\ open' = open \ {sessions[id].conn}
    /\ calls' = [calls EXCEPT ![c] =
         Doing("sign", sessions[id].user, id, sessions[id], 0)]
    /\ UNCHANGED <<accounts, agent, sessions, knownHost, issued, now>>

\* Mutant: a key counts until the sweeper has removed it.
SignStale(c) ==
    /\ At(c, "sign")
    /\ IF agent[calls[c].user] # NoEntry
       THEN calls' = [calls EXCEPT ![c].pc = "dial"]
       ELSE End(c)
    /\ UNCHANGED <<accounts, agent, sessions, open, knownHost, issued, now>>

\* GetSigner; without a key the user has to log in again.
Sign(c) == LET u == calls[c].user IN
    /\ At(c, "sign")
    /\ IF agent[u] # NoEntry /\ now <= agent[u].expiry
       THEN calls' = [calls EXCEPT ![c].pc = "dial"]
       ELSE End(c)
    /\ UNCHANGED <<accounts, agent, sessions, open, knownHost, issued, now>>

\* A new struct; which one does not matter as long as nobody points to it.
Free == Conns \ Referenced
FreshConn == CHOOSE conn \in Free : TRUE

\* The connection stands, in a struct of its own.
Connect(c) ==
    /\ Free # {}
    /\ open' = open \cup {FreshConn}
    /\ calls' = [calls EXCEPT ![c] =
         [@ EXCEPT !.pc = "install", !.conn = FreshConn, !.hostKey = NoHostKey]]

\* Trust on first use: the host shows a key, and the stored one is looked up.
CheckHost(c, k) ==
    /\ At(c, "dial")
    /\ \/ /\ knownHost = NoHostKey
          /\ calls' = [calls EXCEPT ![c] = [@ EXCEPT !.pc = "trust", !.hostKey = k]]
          /\ UNCHANGED open
       \/ /\ knownHost = k
          /\ Connect(c)
    /\ UNCHANGED <<accounts, agent, sessions, knownHost, issued, now>>

\* INSERT OR REPLACE.
TrustHost(c) ==
    /\ At(c, "trust")
    /\ knownHost' = calls[c].hostKey
    /\ Connect(c)
    /\ UNCHANGED <<accounts, agent, sessions, issued, now>>

\* The host is away, shows another key, or has no SFTP.
DialFails(c) ==
    /\ calls[c].pc \in {"dial", "trust"}
    /\ End(c)
    /\ UNCHANGED <<accounts, agent, sessions, open, knownHost, issued, now>>

InstallOpened(c, id) ==
    /\ At(c, "install")
    /\ calls[c].id = NoId
    /\ id \notin issued
    /\ sessions' = [sessions EXCEPT ![id] = NewSession(calls[c].user, calls[c].conn)]
    /\ issued' = issued \cup {id}
    /\ End(c)
    /\ UNCHANGED <<accounts, agent, open, knownHost, now>>

\* Mutant: an id that is gone passes for unchanged.
StillOldOrGone(c) ==
    Exists(calls[c].id) => sessions[calls[c].id].conn = calls[c].old.conn

\* The id still stands for the session the reopen started from.
StillOld(c) ==
    /\ Exists(calls[c].id)
    /\ sessions[calls[c].id].conn = calls[c].old.conn

InstallReopened(c) == LET id == calls[c].id IN
    /\ At(c, "install")
    /\ id # NoId
    /\ StillOld(c)
    /\ sessions' = [sessions EXCEPT ![id] = NewSession(calls[c].old.user, calls[c].conn)]
    /\ End(c)
    /\ UNCHANGED <<accounts, agent, open, knownHost, issued, now>>

\* Mutant: the connection of the loser stays open.
DropReopenedOpen(c) ==
    /\ At(c, "install")
    /\ calls[c].id # NoId
    /\ ~StillOld(c)
    /\ End(c)
    /\ UNCHANGED <<accounts, agent, sessions, open, knownHost, issued, now>>

\* Closed meanwhile, or another request has reopened it: the new connection
\* goes, and the caller gets what the id stands for now.
DropReopened(c) ==
    /\ At(c, "install")
    /\ calls[c].id # NoId
    /\ ~StillOld(c)
    /\ open' = open \ {calls[c].conn}
    /\ End(c)
    /\ UNCHANGED <<accounts, agent, sessions, knownHost, issued, now>>

-----------------------------------------------------------------------------
(* Closing                                                                 *)

\* Mutant: the record stays behind without its clients.
CloseKeepingStub(id) ==
    /\ Exists(id)
    /\ open' = open \ {sessions[id].conn}
    /\ sessions' = [sessions EXCEPT ![id].conn = NoConn]
    /\ UNCHANGED <<accounts, agent, knownHost, calls, issued, now>>

Close(id) ==
    /\ Exists(id)
    /\ open' = open \ {sessions[id].conn}
    /\ sessions' = [sessions EXCEPT ![id] = NoSession]
    /\ UNCHANGED <<accounts, agent, knownHost, calls, issued, now>>

Expired == {id \in Ids : Exists(id) /\ now > sessions[id].expires}

Forgotten == {id \in Expired : now > sessions[id].expires + ReopenWindow}

\* Mutant: only sessions past their reopen window are shut.
ExpireForgotten ==
    /\ Forgotten # {}
    /\ open' = open \ ConnsOf(Forgotten)
    /\ sessions' = [id \in Ids |-> IF id \in Forgotten THEN NoSession ELSE sessions[id]]
    /\ UNCHANGED <<accounts, agent, knownHost, calls, issued, now>>

ExpireSessions ==
    /\ ConnsOf(Expired) \cap open # {} \/ Forgotten # {}
    /\ open' = open \ ConnsOf(Expired)
    /\ sessions' = [id \in Ids |-> IF id \in Forgotten THEN NoSession ELSE sessions[id]]
    /\ UNCHANGED <<accounts, agent, knownHost, calls, issued, now>>

\* An admin forgets the host's key, to accept another.
ForgetHost ==
    /\ knownHost # NoHostKey
    /\ knownHost' = NoHostKey
    /\ UNCHANGED <<accounts, agent, sessions, open, calls, issued, now>>

\* Stop, or the end of the process: what is in memory is gone.
Stop ==
    /\ issued # {}
    /\ agent' = [u \in Users |-> NoEntry]
    /\ sessions' = [id \in Ids |-> NoSession]
    /\ open' = {}
    /\ calls' = [c \in Callers |-> Idle]
    /\ UNCHANGED <<accounts, knownHost, issued, now>>

Tick ==
    /\ now < MaxTime
    /\ now' = now + 1
    /\ UNCHANGED <<accounts, agent, sessions, open, knownHost, calls, issued>>

-----------------------------------------------------------------------------

CallStep(c) ==
    \/ AddKey(c)
    \/ RemoveKey(c)
    \/ RemoveFails(c)
    \/ Sign(c)
    \/ \E k \in HostKeys : CheckHost(c, k)
    \/ TrustHost(c)
    \/ DialFails(c)
    \/ \E id \in Ids : InstallOpened(c, id)
    \/ InstallReopened(c)
    \/ DropReopened(c)

Next ==
    \/ \E c \in Callers, u \in Users : VerifyPassphrase(c, u)
    \/ \E u \in Users : GenerateKey(u)
    \/ \E c \in Callers, u \in Users, held \in BOOLEAN : ChangeKey(c, u, held)
    \/ \E c \in Callers, u \in Users : AskOpen(c, u)
    \/ \E c \in Callers, id \in Ids : AskReopen(c, id)
    \/ \E c \in Callers : CallStep(c)
    \/ \E id \in Ids : Close(id)
    \/ ExpireKeys
    \/ ExpireSessions
    \/ ForgetHost
    \/ Stop
    \/ Tick

Spec == Init /\ [][Next]_vars

\* A request runs on to its end (a dial times out), and the ticker sweeps.
Fairness ==
    /\ \A c \in Callers : WF_vars(CallStep(c))
    /\ WF_vars(ExpireSessions)

FairSpec == Spec /\ Fairness

-----------------------------------------------------------------------------
(* Properties                                                              *)

\* No connection leaks: an open one belongs to a session in the table or to
\* the request that has just dialed it, whoever reopened, closed or swept the
\* id while it was dialing (Get, Close, ExpireSessions).
NoConnectionLeaks ==
    \A conn \in open :
        \/ conn \in ConnsOf(Ids)
        \/ \E c \in Callers : At(c, "install") /\ calls[c].conn = conn

\* A session inside its time is connected: no reopen, closing of another id or
\* sweep shuts the connection of a session that Get still hands out.
LiveSessionsConnected ==
    \A id \in Ids : Exists(id) /\ Unexpired(sessions[id]) => sessions[id].conn \in open

\* An id that was closed or forgotten never comes back, although a reopen that
\* found it may still be dialing (the second look in Get).
ClosedIdsStay ==
    \A id \in issued : ~Exists(id) => sessions'[id] = NoSession

ClosedStaysClosed == [][ClosedIdsStay]_vars

\* "A refreshed token never keeps SSH access alive on its own": the key a
\* reopen dials with was loaded by a passphrase login later than the session
\* it reopens was dialed.  It takes AgentTTL < SessionTTL, and the expiry
\* checks of both (Get, GetSigner); a slow dial does not stretch it.
LoggedInSince(c) ==
    agent[calls[c].user].expiry + SessionTTL > calls[c].old.expires + AgentTTL

ReopensAfterLogin ==
    [][\A c \in Callers :
         At(c, "sign") /\ calls[c].id # NoId /\ calls'[c].pc = "dial"
           => LoggedInSince(c)]_vars

\* A connection that serves no unexpired session and no request is closed in
\* the end, also when nobody asks for its id again (ExpireSessions).
Unused(conn) ==
    /\ conn \in open
    /\ \A id \in Ids : Exists(id) /\ sessions[id].conn = conn => now > sessions[id].expires
    /\ \A c \in Callers : calls[c].conn # conn

UnusedConnectionsClose == \A conn \in Conns : Unused(conn) ~> conn \notin open

=============================================================================
