-------------------------- MODULE SSHSessions_proofs --------------------------
(***************************************************************************)
(* Proofs about SSHSessions: type correctness, and that connections are    *)
(* accounted for whatever the number of users, requests and ids.           *)
(***************************************************************************)
EXTENDS SSHSessions, TLAPS

USE DEF At, Exists, End

\* What a request knows: whose it is, the key it is about to trust, and, for a
\* reopen, the expired session it started from.
RequestsKnow ==
    \A c \in Callers :
        /\ ~At(c, "idle") => calls[c].user \in Users
        /\ At(c, "trust") => calls[c].hostKey \in HostKeys
        /\ calls[c].id # NoId =>
             calls[c].old \in Session /\ calls[c].old.expires <= now

\* No two ids share a connection.
OwnConnections ==
    \A i, j \in Ids :
        Exists(i) /\ Exists(j) /\ sessions[i].conn = sessions[j].conn => i = j

\* A connection just dialed is open, and its request's alone.
DialedApart ==
    \A c \in Callers : At(c, "install") =>
        /\ calls[c].conn \in open
        /\ \A id \in Ids : Exists(id) => sessions[id].conn # calls[c].conn
        /\ \A d \in Callers : At(d, "install") /\ calls[d].conn = calls[c].conn => d = c

\* The connection a reopen has shut stays shut for as long as it runs.
ReopensShut ==
    \A c \in Callers : calls[c].id # NoId => calls[c].old.conn \notin open

ConnectionsKept ==
    /\ OwnConnections
    /\ DialedApart
    /\ ReopensShut
    /\ NoConnectionLeaks
    /\ LiveSessionsConnected

\* Every id in the table has been drawn before.
SessionsIssued == \A id \in Ids : Exists(id) => id \in issued

IInv == TypeOK /\ RequestsKnow /\ SessionsIssued /\ ConnectionsKept

-----------------------------------------------------------------------------
(* Type correctness                                                        *)

\* A caller doing nothing is a call like any other.
LEMMA IdleIsCall == Idle \in Call
BY ParametersAssumption DEF Idle, Doing, Call

\* A connection that stands is in a struct that was free.
LEMMA ConnectIs ==
    ASSUME NEW c \in Callers, Connect(c)
    PROVE  \E conn \in Conns \ Referenced :
             /\ open' = open \cup {conn}
             /\ calls' = [calls EXCEPT ![c] =
                  [@ EXCEPT !.pc = "install", !.conn = conn, !.hostKey = NoHostKey]]
<1>1. Free # {} BY DEF Connect
<1>2. FreshConn \in Free BY <1>1 DEF FreshConn
<1> QED BY <1>2 DEF Connect, Free

\* A call that holds a connection just dialed is well typed.
LEMMA ConnectedCall ==
    ASSUME NEW call \in Call, NEW conn \in Conns
    PROVE  [call EXCEPT !.pc = "install", !.conn = conn, !.hostKey = NoHostKey] \in Call
BY DEF Call

\* A call about to trust a host key is well typed.
LEMMA TrustingCall ==
    ASSUME NEW call \in Call, NEW k \in HostKeys
    PROVE  [call EXCEPT !.pc = "trust", !.hostKey = k] \in Call
BY DEF Call

\* The connections of a set of ids are those of its members in the table.
LEMMA ConnsOfIds ==
    ASSUME NEW conn
    PROVE  conn \in ConnsOf(Ids) <=> \E id \in Ids : Exists(id) /\ sessions[id].conn = conn
BY DEF ConnsOf

\* The initial state has its type, and no request knows anything yet.
LEMMA TypeInit == Init => TypeOK /\ RequestsKnow
<1> SUFFICES ASSUME Init PROVE TypeOK /\ RequestsKnow
    OBVIOUS
<1>1. TypeOK
    BY ParametersAssumption, IdleIsCall DEF Init, TypeOK, Key, Idle, Doing
<1>2. RequestsKnow
    BY DEF Init, RequestsKnow, Idle, Doing
<1> QED BY <1>1, <1>2

\* The requests keep their type, and what they know, in every step of theirs.
LEMMA TypeStep ==
    ASSUME TypeOK, RequestsKnow, DialedApart, [Next]_vars
    PROVE  TypeOK' /\ RequestsKnow'
<1> USE ParametersAssumption, IdleIsCall
<1>1. ASSUME NEW c \in Callers, NEW u \in Users, VerifyPassphrase(c, u)
      PROVE  TypeOK' /\ RequestsKnow'
  <2>1. TypeOK'
      BY <1>1 DEF VerifyPassphrase, TypeOK, Key, Call, Idle, Doing
  <2>2. RequestsKnow'
      BY <1>1 DEF VerifyPassphrase, TypeOK, RequestsKnow, Idle, Doing
  <2> QED BY <2>1, <2>2
<1>2. ASSUME NEW c \in Callers, AddKey(c)
      PROVE  TypeOK' /\ RequestsKnow'
  <2>1. agent' \in [Users -> Entry \cup {NoEntry}]
    <3>1. [gen |-> calls[c].gen, expiry |-> now + AgentTTL] \in Entry
        BY DEF TypeOK, Entry, Call
    <3> QED BY <1>2, <3>1 DEF AddKey, TypeOK
  <2>2. TypeOK'
      BY <1>2, <2>1 DEF AddKey, TypeOK
  <2>3. RequestsKnow'
      BY <1>2 DEF AddKey, TypeOK, RequestsKnow, Idle, Doing
  <2> QED BY <2>2, <2>3
<1>3. ASSUME NEW c \in Callers, NEW u \in Users, NEW held \in BOOLEAN, ChangeKey(c, u, held)
      PROVE  TypeOK' /\ RequestsKnow'
  <2>1. accounts' \in [Users -> Key]
      BY <1>3 DEF ChangeKey, TypeOK, Key
  <2>2. calls' \in [Callers -> Call]
      BY <1>3 DEF ChangeKey, TypeOK, Call, Doing
  <2>3. TypeOK'
      BY <1>3, <2>1, <2>2 DEF ChangeKey, TypeOK
  <2>4. RequestsKnow'
      BY <1>3 DEF ChangeKey, TypeOK, RequestsKnow, Doing
  <2> QED BY <2>3, <2>4
<1>4. ASSUME NEW u \in Users, GenerateKey(u)
      PROVE  TypeOK' /\ RequestsKnow'
    BY <1>4 DEF GenerateKey, TypeOK, RequestsKnow, Key
<1>5. ASSUME NEW c \in Callers, RemoveKey(c)
      PROVE  TypeOK' /\ RequestsKnow'
    BY <1>5 DEF RemoveKey, TypeOK, RequestsKnow, Idle, Doing
<1>5a. ASSUME NEW c \in Callers, RemoveFails(c)
       PROVE  TypeOK' /\ RequestsKnow'
    BY <1>5a DEF RemoveFails, TypeOK, RequestsKnow, Idle, Doing
<1>6. ASSUME ExpireKeys
      PROVE  TypeOK' /\ RequestsKnow'
    BY <1>6 DEF ExpireKeys, TypeOK, RequestsKnow
<1>7. ASSUME NEW c \in Callers, NEW u \in Users, AskOpen(c, u)
      PROVE  TypeOK' /\ RequestsKnow'
  <2>1. TypeOK'
      BY <1>7 DEF AskOpen, TypeOK, Call, Idle, Doing
  <2>2. RequestsKnow'
      BY <1>7 DEF AskOpen, TypeOK, RequestsKnow, Idle, Doing
  <2> QED BY <2>1, <2>2
<1>8. ASSUME NEW c \in Callers, NEW id \in Ids, AskReopen(c, id)
      PROVE  TypeOK' /\ RequestsKnow'
  <2>1. sessions[id] \in Session /\ sessions[id].user \in Users
      BY <1>8 DEF AskReopen, TypeOK, Session
  <2>2. sessions[id].expires <= now
      BY <1>8, <2>1 DEF AskReopen, Unexpired, TypeOK, Session
  <2>3. TypeOK'
      BY <1>8, <2>1 DEF AskReopen, TypeOK, Call, Idle, Doing
  <2>4. RequestsKnow'
      BY <1>8, <2>1, <2>2 DEF AskReopen, TypeOK, RequestsKnow, Idle, Doing
  <2> QED BY <2>3, <2>4
<1>9. ASSUME NEW c \in Callers, Sign(c)
      PROVE  TypeOK' /\ RequestsKnow'
  <2>1. TypeOK'
      BY <1>9 DEF Sign, TypeOK, Call
  <2>2. RequestsKnow'
      BY <1>9 DEF Sign, TypeOK, RequestsKnow, Call, Idle, Doing
  <2> QED BY <2>1, <2>2
<1>10. ASSUME NEW c \in Callers, Connect(c),
              knownHost' \in HostKeys \cup {NoHostKey}, ~At(c, "idle"),
              UNCHANGED <<accounts, agent, sessions, issued, now>>
       PROVE  TypeOK' /\ RequestsKnow'
  <2>1. TypeOK'
    <3>1. PICK conn \in Conns \ Referenced :
             /\ open' = open \cup {conn}
             /\ calls' = [calls EXCEPT ![c] =
                  [@ EXCEPT !.pc = "install", !.conn = conn, !.hostKey = NoHostKey]]
        BY <1>10, ConnectIs
    <3>2. calls' \in [Callers -> Call]
        BY <3>1, ConnectedCall DEF TypeOK
    <3> QED BY <1>10, <3>1, <3>2 DEF TypeOK
  <2>2. RequestsKnow'
    <3>1. PICK conn \in Conns \ Referenced :
             calls' = [calls EXCEPT ![c] =
                  [@ EXCEPT !.pc = "install", !.conn = conn, !.hostKey = NoHostKey]]
        BY <1>10, ConnectIs
    <3> QED BY <1>10, <3>1 DEF TypeOK, RequestsKnow, Call
  <2> QED BY <2>1, <2>2
<1>11. ASSUME NEW c \in Callers, NEW k \in HostKeys, CheckHost(c, k)
       PROVE  TypeOK' /\ RequestsKnow'
  <2>1. CASE Connect(c)
      BY <1>10, <1>11, <2>1 DEF CheckHost, TypeOK
  <2>2. CASE calls' = [calls EXCEPT ![c] = [@ EXCEPT !.pc = "trust", !.hostKey = k]]
             /\ UNCHANGED open
    <3>1. TypeOK'
      <4>1. calls' \in [Callers -> Call]
          BY <2>2, TrustingCall DEF TypeOK
      <4> QED BY <1>11, <2>2, <4>1 DEF CheckHost, TypeOK
    <3>2. RequestsKnow'
        BY <1>11, <2>2 DEF CheckHost, TypeOK, RequestsKnow, Call
    <3> QED BY <3>1, <3>2
  <2> QED BY <1>11, <2>1, <2>2 DEF CheckHost
<1>12. ASSUME NEW c \in Callers, TrustHost(c)
       PROVE  TypeOK' /\ RequestsKnow'
    BY <1>10, <1>12 DEF TrustHost, RequestsKnow
<1>13. ASSUME NEW c \in Callers, DialFails(c)
       PROVE  TypeOK' /\ RequestsKnow'
    BY <1>13 DEF DialFails, TypeOK, RequestsKnow, Idle, Doing
<1>14. ASSUME NEW c \in Callers, NEW id \in Ids, InstallOpened(c, id)
       PROVE  TypeOK' /\ RequestsKnow'
  <2>1. NewSession(calls[c].user, calls[c].conn) \in Session
      BY <1>14 DEF InstallOpened, NewSession, TypeOK, RequestsKnow, DialedApart, Call, Session
  <2>2. TypeOK'
      BY <1>14, <2>1 DEF InstallOpened, TypeOK
  <2>3. RequestsKnow'
      BY <1>14 DEF InstallOpened, TypeOK, RequestsKnow, Idle, Doing
  <2> QED BY <2>2, <2>3
<1>15. ASSUME NEW c \in Callers, InstallReopened(c)
       PROVE  TypeOK' /\ RequestsKnow'
  <2>1. NewSession(calls[c].old.user, calls[c].conn) \in Session
      BY <1>15 DEF InstallReopened, NewSession, TypeOK, RequestsKnow, DialedApart, Call, Session
  <2>2. TypeOK'
      BY <1>15, <2>1 DEF InstallReopened, TypeOK
  <2>3. RequestsKnow'
      BY <1>15 DEF InstallReopened, TypeOK, RequestsKnow, Idle, Doing
  <2> QED BY <2>2, <2>3
<1>16. ASSUME NEW c \in Callers, DropReopened(c)
       PROVE  TypeOK' /\ RequestsKnow'
    BY <1>16 DEF DropReopened, TypeOK, RequestsKnow, Idle, Doing
<1>17. ASSUME NEW id \in Ids, Close(id)
       PROVE  TypeOK' /\ RequestsKnow'
    BY <1>17 DEF Close, TypeOK, RequestsKnow
<1>18. ASSUME ExpireSessions
       PROVE  TypeOK' /\ RequestsKnow'
    BY <1>18 DEF ExpireSessions, TypeOK, RequestsKnow
<1>19. ASSUME ForgetHost
       PROVE  TypeOK' /\ RequestsKnow'
    BY <1>19 DEF ForgetHost, TypeOK, RequestsKnow
<1>20. ASSUME Stop
       PROVE  TypeOK' /\ RequestsKnow'
    BY <1>20 DEF Stop, TypeOK, RequestsKnow, Idle, Doing
<1>21. ASSUME Tick
       PROVE  TypeOK' /\ RequestsKnow'
    BY <1>21 DEF Tick, TypeOK, RequestsKnow, Session
<1>22. CASE UNCHANGED vars
    BY <1>22 DEF vars, TypeOK, RequestsKnow
<1> QED
    BY <1>1, <1>2, <1>3, <1>4, <1>5, <1>5a, <1>6, <1>7, <1>8, <1>9, <1>11, <1>12, <1>13,
       <1>14, <1>15, <1>16, <1>17, <1>18, <1>19, <1>20, <1>21, <1>22
       DEF Next, CallStep

-----------------------------------------------------------------------------
(* Connections                                                             *)

\* Steps that leave sessions, connections and the requests holding a dialed
\* one as they are.
LEMMA QuietStep ==
    ASSUME TypeOK, ConnectionsKept, UNCHANGED <<sessions, open, now>>,
           \A c \in Callers :
             /\ At(c, "install") \/ At(c, "install")' => calls'[c] = calls[c]
             /\ calls'[c].id # NoId =>
                  calls'[c].id = calls[c].id /\ calls'[c].old = calls[c].old
    PROVE  ConnectionsKept'
<1>1. OwnConnections' /\ DialedApart' /\ ReopensShut'
    BY DEF ConnectionsKept, OwnConnections, DialedApart, ReopensShut
<1>2. NoConnectionLeaks'
  <2> SUFFICES ASSUME NEW conn \in open'
               PROVE  NoConnectionLeaks!(conn)'
      BY DEF NoConnectionLeaks
  <2>1. NoConnectionLeaks!(conn)
      BY DEF ConnectionsKept, NoConnectionLeaks
  <2> QED BY <2>1 DEF ConnsOf
<1>3. LiveSessionsConnected'
    BY DEF ConnectionsKept, LiveSessionsConnected, Unexpired
<1> QED BY <1>1, <1>2, <1>3 DEF ConnectionsKept

\* A connection just dialed is nobody else's.
LEMMA ConnectStep ==
    ASSUME TypeOK, RequestsKnow, ConnectionsKept, NEW c \in Callers, Connect(c),
           ~At(c, "install"), UNCHANGED <<sessions, now>>
    PROVE  ConnectionsKept'
<1>1. PICK conn \in Conns \ Referenced :
         /\ open' = open \cup {conn}
         /\ calls' = [calls EXCEPT ![c] =
              [@ EXCEPT !.pc = "install", !.conn = conn, !.hostKey = NoHostKey]]
    BY ConnectIs
<1>2. /\ conn \notin open
      /\ \A id \in Ids : Exists(id) => sessions[id].conn # conn
      /\ \A d \in Callers : calls[d].id # NoId => calls[d].old.conn # conn
    BY <1>1, ConnsOfIds, ParametersAssumption DEF Referenced, RequestsKnow
<1>3. /\ calls'[c].pc = "install" /\ calls'[c].conn = conn
      /\ calls'[c].id = calls[c].id /\ calls'[c].old = calls[c].old
      /\ \A d \in Callers \ {c} : calls'[d] = calls[d]
    BY <1>1 DEF TypeOK, Call
<1>4. OwnConnections'
    BY DEF ConnectionsKept, OwnConnections
<1>5. DialedApart' /\ ReopensShut'
    BY <1>1, <1>2, <1>3 DEF ConnectionsKept, DialedApart, ReopensShut
<1>6. NoConnectionLeaks'
    BY <1>1, <1>3 DEF ConnectionsKept, NoConnectionLeaks, ConnsOf
<1>7. LiveSessionsConnected'
    BY <1>1 DEF ConnectionsKept, LiveSessionsConnected, Unexpired
<1> QED BY <1>4, <1>5, <1>6, <1>7 DEF ConnectionsKept

\* A dialed connection becomes the session of one id.
LEMMA InstallStep ==
    ASSUME TypeOK, RequestsKnow, ConnectionsKept,
           NEW c \in Callers, NEW id \in Ids, NEW u,
           At(c, "install"), ~Exists(id) \/ sessions[id].conn \notin open,
           sessions' = [sessions EXCEPT ![id] = NewSession(u, calls[c].conn)],
           End(c), UNCHANGED <<open, now>>, NewSession(u, calls[c].conn) \in Session
    PROVE  ConnectionsKept'
<1>1. /\ Exists(id)' /\ sessions'[id].conn = calls[c].conn
      /\ \A i \in Ids \ {id} : sessions'[i] = sessions[i]
    BY ParametersAssumption DEF TypeOK, NewSession
<1>2. /\ calls'[c].pc = "idle" /\ calls'[c].id = NoId
      /\ \A d \in Callers \ {c} : calls'[d] = calls[d]
    BY DEF TypeOK, Idle, Doing
<1>3. OwnConnections'
    BY <1>1 DEF ConnectionsKept, OwnConnections, DialedApart
<1>4. DialedApart' /\ ReopensShut'
    BY <1>1, <1>2 DEF ConnectionsKept, DialedApart, ReopensShut
<1>5. NoConnectionLeaks'
    BY <1>1, <1>2 DEF ConnectionsKept, NoConnectionLeaks, ConnsOf
<1>6. LiveSessionsConnected'
    BY <1>1 DEF ConnectionsKept, LiveSessionsConnected, DialedApart, Unexpired
<1> QED BY <1>3, <1>4, <1>5, <1>6 DEF ConnectionsKept

\* Steps that shut some connections and end some sessions: those are nobody
\* else's, and what is left is as it was.
LEMMA ShutStep ==
    ASSUME TypeOK, ConnectionsKept, NEW shut,
           open' = open \ shut, UNCHANGED now,
           \A id \in Ids : Exists(id)' => Exists(id) /\ sessions'[id] = sessions[id],
           \A id \in Ids : Exists(id) /\ ~Exists(id)' => sessions[id].conn \in shut,
           \A id \in Ids : Exists(id)' /\ Unexpired(sessions[id]) =>
             sessions[id].conn \notin shut,
           \A c \in Callers :
             /\ At(c, "install") =>
                  calls'[c] = calls[c] \/ calls[c].conn \in shut
             /\ At(c, "install")' =>
                  calls'[c] = calls[c] /\ calls[c].conn \notin shut
             /\ calls'[c].id # NoId => calls'[c].old.conn \notin open'
    PROVE  ConnectionsKept'
<1>1. OwnConnections'
    BY DEF ConnectionsKept, OwnConnections
<1>2. DialedApart' /\ ReopensShut'
    BY DEF ConnectionsKept, DialedApart, ReopensShut
<1>3. NoConnectionLeaks'
    BY DEF ConnectionsKept, NoConnectionLeaks, ConnsOf
<1>4. LiveSessionsConnected'
    BY DEF ConnectionsKept, LiveSessionsConnected, Unexpired
<1> QED BY <1>1, <1>2, <1>3, <1>4 DEF ConnectionsKept

\* Nobody holds a connection in the initial state.
LEMMA ConnectionsInit == Init => ConnectionsKept
BY DEF Init, ConnectionsKept, OwnConnections, DialedApart, ReopensShut, Idle, Doing,
       NoConnectionLeaks, LiveSessionsConnected

\* Every action of the server keeps every open connection with one owner.
LEMMA ConnectionsStep ==
    ASSUME IInv, [Next]_vars
    PROVE  ConnectionsKept'
<1> USE DEF IInv
<1>1. ASSUME NEW c \in Callers, NEW u \in Users, VerifyPassphrase(c, u)
      PROVE  ConnectionsKept'
    BY <1>1, QuietStep DEF VerifyPassphrase, TypeOK, Doing
<1>2. ASSUME NEW c \in Callers, AddKey(c)
      PROVE  ConnectionsKept'
    BY <1>2, QuietStep DEF AddKey, TypeOK, Idle, Doing
<1>3. ASSUME NEW c \in Callers, NEW u \in Users, NEW held \in BOOLEAN, ChangeKey(c, u, held)
      PROVE  ConnectionsKept'
    BY <1>3, QuietStep DEF ChangeKey, TypeOK, Doing
<1>4. ASSUME NEW u \in Users, GenerateKey(u)
      PROVE  ConnectionsKept'
    BY <1>4, QuietStep DEF GenerateKey
<1>5. ASSUME NEW c \in Callers, RemoveKey(c)
      PROVE  ConnectionsKept'
    BY <1>5, QuietStep DEF RemoveKey, TypeOK, Idle, Doing
<1>5a. ASSUME NEW c \in Callers, RemoveFails(c)
       PROVE  ConnectionsKept'
    BY <1>5a, QuietStep DEF RemoveFails, TypeOK, Idle, Doing
<1>6. ASSUME ExpireKeys
      PROVE  ConnectionsKept'
    BY <1>6, QuietStep DEF ExpireKeys
<1>7. ASSUME NEW c \in Callers, NEW u \in Users, AskOpen(c, u)
      PROVE  ConnectionsKept'
    BY <1>7, QuietStep DEF AskOpen, TypeOK, Doing
<1>8. ASSUME NEW c \in Callers, NEW id \in Ids, AskReopen(c, id)
      PROVE  ConnectionsKept'
  <2>1. calls'[c] = Doing("sign", sessions[id].user, id, sessions[id], 0)
        /\ \A d \in Callers \ {c} : calls'[d] = calls[d]
      BY <1>8 DEF AskReopen, TypeOK
  <2>2. \A d \in Callers : calls'[d].id # NoId => calls'[d].old.conn \notin open'
      BY <1>8, <2>1 DEF AskReopen, ConnectionsKept, ReopensShut, Doing
  <2>3. \A i \in Ids : Exists(i) /\ Unexpired(sessions[i]) =>
          sessions[i].conn \notin {sessions[id].conn}
      BY <1>8 DEF AskReopen, ConnectionsKept, OwnConnections
  <2>4. \A d \in Callers :
          /\ At(d, "install") => calls'[d] = calls[d]
          /\ At(d, "install")' =>
               calls'[d] = calls[d] /\ calls[d].conn \notin {sessions[id].conn}
      BY <1>8, <2>1 DEF AskReopen, ConnectionsKept, DialedApart, Doing
  <2> QED BY <1>8, <2>2, <2>3, <2>4, ShutStep DEF AskReopen
<1>9. ASSUME NEW c \in Callers, Sign(c)
      PROVE  ConnectionsKept'
    BY <1>9, QuietStep DEF Sign, TypeOK, Call, Idle, Doing
<1>10. ASSUME NEW c \in Callers, NEW k \in HostKeys, CheckHost(c, k)
       PROVE  ConnectionsKept'
  <2>1. CASE Connect(c)
      BY <1>10, <2>1, ConnectStep DEF CheckHost
  <2>2. CASE calls' = [calls EXCEPT ![c] = [@ EXCEPT !.pc = "trust", !.hostKey = k]]
             /\ UNCHANGED open
      BY <1>10, <2>2, QuietStep DEF CheckHost, TypeOK, Call
  <2> QED BY <1>10, <2>1, <2>2 DEF CheckHost
<1>11. ASSUME NEW c \in Callers, TrustHost(c)
       PROVE  ConnectionsKept'
    BY <1>11, ConnectStep DEF TrustHost
<1>12. ASSUME NEW c \in Callers, DialFails(c)
       PROVE  ConnectionsKept'
    BY <1>12, QuietStep DEF DialFails, TypeOK, Idle, Doing
<1>13. ASSUME NEW c \in Callers, NEW id \in Ids, InstallOpened(c, id)
       PROVE  ConnectionsKept'
  <2>1. ~Exists(id)
      BY <1>13 DEF InstallOpened, SessionsIssued
  <2>2. NewSession(calls[c].user, calls[c].conn) \in Session
      BY <1>13, ParametersAssumption
         DEF InstallOpened, NewSession, TypeOK, RequestsKnow,
             ConnectionsKept, DialedApart, Session
  <2> QED BY <1>13, <2>1, <2>2, InstallStep DEF InstallOpened
<1>14. ASSUME NEW c \in Callers, InstallReopened(c)
       PROVE  ConnectionsKept'
  <2>1. /\ calls[c].id \in Ids
        /\ sessions[calls[c].id].conn \notin open
      BY <1>14 DEF InstallReopened, StillOld, TypeOK, Call, ConnectionsKept, ReopensShut
  <2>2. NewSession(calls[c].old.user, calls[c].conn) \in Session
      BY <1>14, ParametersAssumption
         DEF InstallReopened, NewSession, TypeOK, RequestsKnow,
             ConnectionsKept, DialedApart, Session
  <2> QED BY <1>14, <2>1, <2>2, InstallStep DEF InstallReopened
<1>15. ASSUME NEW c \in Callers, DropReopened(c)
       PROVE  ConnectionsKept'
  <2>1. calls'[c] = Idle /\ \A d \in Callers \ {c} : calls'[d] = calls[d]
      BY <1>15 DEF DropReopened, TypeOK
  <2>2. \A id \in Ids : Exists(id) => sessions[id].conn \notin {calls[c].conn}
      BY <1>15 DEF DropReopened, ConnectionsKept, DialedApart
  <2>3. \A d \in Callers :
          /\ At(d, "install") => calls'[d] = calls[d] \/ calls[d].conn \in {calls[c].conn}
          /\ At(d, "install")' =>
               calls'[d] = calls[d] /\ calls[d].conn \notin {calls[c].conn}
          /\ calls'[d].id # NoId => calls'[d].old.conn \notin open'
      BY <1>15, <2>1
         DEF DropReopened, ConnectionsKept, DialedApart, ReopensShut, Idle, Doing
  <2> QED BY <1>15, <2>2, <2>3, ShutStep DEF DropReopened
<1>16. ASSUME NEW id \in Ids, Close(id)
       PROVE  ConnectionsKept'
  <2>1. \A i \in Ids \ {id} : sessions'[i] = sessions[i]
      BY <1>16 DEF Close, TypeOK
  <2>2. ~Exists(id)'
      BY <1>16 DEF Close, TypeOK
  <2>3. \A i \in Ids : Exists(i)' => sessions[i].conn \notin {sessions[id].conn}
      BY <1>16, <2>1, <2>2 DEF Close, ConnectionsKept, OwnConnections
  <2>4. \A c \in Callers :
          /\ At(c, "install") =>
               calls'[c] = calls[c] \/ calls[c].conn \in {sessions[id].conn}
          /\ At(c, "install")' =>
               calls'[c] = calls[c] /\ calls[c].conn \notin {sessions[id].conn}
          /\ calls'[c].id # NoId => calls'[c].old.conn \notin open'
      BY <1>16 DEF Close, ConnectionsKept, DialedApart, ReopensShut
  <2>5. \A i \in Ids :
          /\ Exists(i)' => Exists(i) /\ sessions'[i] = sessions[i]
          /\ Exists(i) /\ ~Exists(i)' => sessions[i].conn \in {sessions[id].conn}
      BY <2>1, <2>2
  <2> QED BY <1>16, <2>3, <2>4, <2>5, ShutStep DEF Close
<1>17. ASSUME ExpireSessions
       PROVE  ConnectionsKept'
  <2>1. \A id \in Ids :
          /\ Exists(id)' => Exists(id) /\ sessions'[id] = sessions[id]
          /\ Exists(id) /\ ~Exists(id)' => sessions[id].conn \in ConnsOf(Expired)
      BY <1>17 DEF ExpireSessions, Forgotten, Expired, ConnsOf
  <2>2. \A id \in Ids : Exists(id) /\ Unexpired(sessions[id]) =>
          sessions[id].conn \notin ConnsOf(Expired)
    <3> SUFFICES ASSUME NEW id \in Ids, Exists(id), Unexpired(sessions[id]),
                        NEW i \in Expired, Exists(i), sessions[i].conn = sessions[id].conn
                 PROVE  FALSE
        BY DEF ConnsOf
    <3>1. i = id
        BY DEF Expired, ConnectionsKept, OwnConnections
    <3>2. now \in Nat /\ sessions[id].expires \in Nat
        BY DEF TypeOK, Session
    <3> QED BY <3>1, <3>2 DEF Expired, Unexpired
  <2>3. \A c \in Callers :
          /\ At(c, "install") => calls[c].conn \notin ConnsOf(Expired)
          /\ calls[c].id # NoId => calls[c].old.conn \notin open'
      BY <1>17 DEF ExpireSessions, ConnsOf, Expired, ConnectionsKept, DialedApart, ReopensShut
  <2> QED BY <1>17, <2>1, <2>2, <2>3, ShutStep DEF ExpireSessions
<1>18. ASSUME ForgetHost
       PROVE  ConnectionsKept'
    BY <1>18, QuietStep DEF ForgetHost
<1>19. ASSUME Stop
       PROVE  ConnectionsKept'
    BY <1>19 DEF Stop, ConnectionsKept, OwnConnections, DialedApart, ReopensShut,
                 NoConnectionLeaks, LiveSessionsConnected, Idle, Doing
<1>20. ASSUME Tick
       PROVE  ConnectionsKept'
  <2>1. \A id \in Ids : Exists(id) /\ Unexpired(sessions[id])' => Unexpired(sessions[id])
      BY <1>20 DEF Tick, Unexpired, TypeOK, Session
  <2> QED BY <1>20, <2>1 DEF Tick, ConnectionsKept, OwnConnections, DialedApart,
             ReopensShut, NoConnectionLeaks, LiveSessionsConnected, ConnsOf
<1>21. CASE UNCHANGED vars
    BY <1>21, QuietStep DEF vars
<1> QED
    BY <1>1, <1>2, <1>3, <1>4, <1>5, <1>5a, <1>6, <1>7, <1>8, <1>9, <1>10, <1>11, <1>12,
       <1>13, <1>14, <1>15, <1>16, <1>17, <1>18, <1>19, <1>20, <1>21
       DEF Next, CallStep

-----------------------------------------------------------------------------
(* The theorems                                                            *)

\* Ids in the table have been issued, and what was issued stays so: with it
\* InstallOpened never takes an id somebody holds.
LEMMA IssuedStep ==
    ASSUME TypeOK, SessionsIssued, [Next]_vars
    PROVE  SessionsIssued' /\ ClosedIdsStay
<1>1. ASSUME NEW c \in Callers, NEW id \in Ids, InstallOpened(c, id)
      PROVE  SessionsIssued' /\ ClosedIdsStay
    BY <1>1 DEF InstallOpened, TypeOK, SessionsIssued, ClosedIdsStay
<1>2. ASSUME NEW c \in Callers, InstallReopened(c)
      PROVE  SessionsIssued' /\ ClosedIdsStay
    BY <1>2 DEF InstallReopened, StillOld, TypeOK, SessionsIssued, ClosedIdsStay
<1>3. ASSUME NEW id \in Ids, Close(id)
      PROVE  SessionsIssued' /\ ClosedIdsStay
    BY <1>3 DEF Close, TypeOK, SessionsIssued, ClosedIdsStay
<1>4. ASSUME ExpireSessions
      PROVE  SessionsIssued' /\ ClosedIdsStay
    BY <1>4 DEF ExpireSessions, TypeOK, SessionsIssued, ClosedIdsStay
<1>5. ASSUME Stop
      PROVE  SessionsIssued' /\ ClosedIdsStay
    BY <1>5 DEF Stop, TypeOK, SessionsIssued, ClosedIdsStay
<1>6. ASSUME UNCHANGED <<sessions, issued>>
      PROVE  SessionsIssued' /\ ClosedIdsStay
    BY <1>6 DEF TypeOK, SessionsIssued, ClosedIdsStay
<1>7. \/ UNCHANGED <<sessions, issued>>
      \/ \E c \in Callers : InstallReopened(c) \/ \E id \in Ids : InstallOpened(c, id)
      \/ \E id \in Ids : Close(id)
      \/ ExpireSessions
      \/ Stop
    BY DEF Next, CallStep, vars, VerifyPassphrase, AddKey, ChangeKey, GenerateKey,
           RemoveKey, RemoveFails, ExpireKeys, AskOpen, AskReopen, Sign, CheckHost, TrustHost,
           DialFails, DropReopened, ForgetHost, Tick
<1> QED BY <1>1, <1>2, <1>3, <1>4, <1>5, <1>6, <1>7

\* The inductive invariant: every request knows what it works on, and every
\* open connection has one owner.
THEOREM Invariant == Spec => []IInv
<1>1. Init => IInv
    BY TypeInit, ConnectionsInit DEF IInv, Init, SessionsIssued
<1>2. IInv /\ [Next]_vars => IInv'
    BY TypeStep, ConnectionsStep, IssuedStep DEF IInv, ConnectionsKept
<1> QED BY <1>1, <1>2, PTL DEF Spec

\* Type correctness of the whole state.
THEOREM TypeCorrect == Spec => []TypeOK
<1>1. IInv => TypeOK
    BY DEF IInv
<1> QED BY <1>1, Invariant, PTL

\* No connection leaks, however many requests open, reopen, close and sweep.
THEOREM Leakless == Spec => []NoConnectionLeaks
<1>1. IInv => NoConnectionLeaks
    BY DEF IInv, ConnectionsKept
<1> QED BY <1>1, Invariant, PTL

\* A session inside its time is connected.
THEOREM Connected == Spec => []LiveSessionsConnected
<1>1. IInv => LiveSessionsConnected
    BY DEF IInv, ConnectionsKept
<1> QED BY <1>1, Invariant, PTL

\* The key a reopen dials with was loaded since the session was dialed, for
\* every pair of times to live with the agent's below the session's.
THEOREM LoginBeforeReopen == Spec => ReopensAfterLogin
<1>1. IInv /\ [Next]_vars =>
        [\A c \in Callers :
           At(c, "sign") /\ calls[c].id # NoId /\ calls'[c].pc = "dial"
             => LoggedInSince(c)]_vars
  <2> SUFFICES ASSUME IInv, [Next]_vars, NEW c \in Callers,
                      At(c, "sign"), calls[c].id # NoId, calls'[c].pc = "dial"
               PROVE  LoggedInSince(c)
      OBVIOUS
  <2>1. Sign(c)
    <3> USE DEF IInv, TypeOK, Doing, Idle
    <3>1. ~\E d \in Callers, u \in Users :
             \/ VerifyPassphrase(d, u) \/ AskOpen(d, u)
             \/ \E held \in BOOLEAN : ChangeKey(d, u, held)
        BY DEF VerifyPassphrase, AskOpen, ChangeKey
    <3>2. ~\E d \in Callers, id \in Ids : AskReopen(d, id) \/ InstallOpened(d, id)
        BY DEF AskReopen, InstallOpened
    <3>3. ~\E d \in Callers :
             \/ AddKey(d) \/ RemoveKey(d) \/ RemoveFails(d) \/ DialFails(d)
             \/ InstallReopened(d) \/ DropReopened(d)
        BY DEF AddKey, RemoveKey, RemoveFails, DialFails, InstallReopened, DropReopened
    <3>4. ~\E d \in Callers : TrustHost(d) \/ \E k \in HostKeys : CheckHost(d, k)
        BY DEF TrustHost, CheckHost, Connect, Call
    <3>5. \A d \in Callers : Sign(d) => d = c
        BY DEF Sign, Call
    <3>6. ~UNCHANGED calls
        OBVIOUS
    <3>7. ~Stop
        BY DEF Stop
    <3> QED
        BY <3>1, <3>2, <3>3, <3>4, <3>5, <3>6, <3>7
           DEF Next, CallStep, vars, GenerateKey, ExpireKeys, Close, ExpireSessions,
               ForgetHost, Tick
  <2>2. /\ calls[c].user \in Users
        /\ calls[c].old.expires \in Nat /\ calls[c].old.expires <= now
      BY DEF IInv, RequestsKnow, Session
  <2>3. /\ agent[calls[c].user].expiry \in Nat
        /\ now <= agent[calls[c].user].expiry
      BY <2>1, <2>2 DEF Sign, IInv, TypeOK, Entry, Idle, Doing
  <2> QED BY <2>2, <2>3, ParametersAssumption DEF LoggedInSince, IInv, TypeOK
<1> QED BY <1>1, Invariant, PTL DEF Spec, ReopensAfterLogin

\* An id that was closed or forgotten never comes back.
THEOREM Closed == Spec => ClosedStaysClosed
<1>1. IInv /\ [Next]_vars => [ClosedIdsStay]_vars
    BY IssuedStep DEF IInv
<1> QED BY <1>1, Invariant, PTL DEF Spec, ClosedStaysClosed

=============================================================================
