\* One feed; checks that share an answer and an apply race an edit or a
\* deletion, rollbacks, a hang-up, a failed step or a crash, and run to their end.
SPECIFICATION FairSpec
CONSTANTS
    Checkers = {c1, c2}
    Appliers = {a1}
    Feeds = {f1}
    Urls = {u1}
    Archives <- Releases
    IdLists <- All
    NoCaller = NoCaller
    NoFeed = NoFeed
    Deleted = Deleted
    NoArchive = NoArchive
    MaxTrouble = 1
CHECK_DEADLOCK FALSE
INVARIANTS
    TypeOK
    ContentNotUnderStamp
    StampsAreCurrent
PROPERTIES
    StampIsFloor
    ChecksAreAnswered
    PendingStaysListed
