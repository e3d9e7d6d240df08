\* Three requests, two of them at a time, on a fresh install or one with two accounts.
SPECIFICATION Spec
CONSTANTS
    Handlers = {h1, h2}
    Emails = {e1, e2}
    Gone = Gone
    NoOne = NoOne
    MaxUsers = 3
    MaxRecords = 2
    MaxSecrets = 3
    MaxRequests = 3
SYMMETRY Symmetry
CHECK_DEADLOCK FALSE
INVARIANTS
    AccountsFollowTheBook
    GatesAndKeysHold
PROPERTIES
    OnboardingIsWhole
