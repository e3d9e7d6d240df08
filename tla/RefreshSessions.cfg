\* One account, one family, two concurrent refreshes, sign-outs, account
\* operations and the sweeper, with failed writes and crashes at first; every
\* started handler runs to its end.
SPECIFICATION FairSpec
CONSTANTS
    Users = {u1}
    Families = {f1}
    Requests = {r1, r2}
    GraceWindow = 1
    FamilyTTL = 1
    NoFamily = NoFamily
    NoRequest = NoRequest
    MaxTime = 3
    MaxJti = 3
    MaxKey = 1
    TroubleEnds = 2
CHECK_DEADLOCK FALSE
INVARIANTS
    TypeOK
    NeverForks
    OnlySpentTokensRetire
    NoFalseAccusation
PROPERTIES
    RevokedIsFinal
    ImplementsLifecycle
    ReuseIsFatal
    AccountOpsEndSessions
