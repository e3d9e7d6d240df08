\* Three requests, two of them at a time, on an app shared by two accounts.
SPECIFICATION Spec
CONSTANTS
    Handlers = {h1, h2}
    Users = {u1, u2}
    Apps = {a1, a2}
    Services = {s1, s2}
    Gone = Gone
    MaxRequests = 3
SYMMETRY Symmetry
CHECK_DEADLOCK FALSE
INVARIANTS
    NothingUnapprovedIsLinked
    ListsFollowDecisions
