\* One id, two requests that open, reopen and lose the race to one another: one
\* connection for the session both found expired and one for each that dials.
\* They run on to their end and the ticker sweeps.
SPECIFICATION FairSpec
CONSTANTS
    Users = {u1}
    Callers = {c1, c2}
    Ids = {i1}
    Conns = {s1, s2, s3}
    HostKeys = {h1}
    NoSession = NoSession
    NoEntry = NoEntry
    NoConn = NoConn
    NoHostKey = NoHostKey
    NoUser = NoUser
    NoId = NoId
    AgentTTL = 0
    SessionTTL = 1
    ReopenWindow = 1
    MaxTime = 3
    MaxKeys = 2
CHECK_DEADLOCK FALSE
INVARIANTS
    TypeOK
    NoConnectionLeaks
    LiveSessionsConnected
PROPERTIES
    ClosedStaysClosed
    ReopensAfterLogin
    UnusedConnectionsClose
