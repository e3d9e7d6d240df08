\* Two refreshes at a time of a session with one or two legs.
SPECIFICATION LegsSpec
CONSTANTS
    Records = {"sso", "work", "home", "wiki", "ssh", "key", "open"}
    Kind <- Kinds
    Providers = {"one", "two", "three"}
    Provider <- SignsInWith
    Services <- Every
    Doors <- TwoLegs
    NoRecord = NoRecord
    NoToken = NoToken
    NoLeg = NoLeg
    Refreshers = {h1, h2}
    MaxRotations = 2
    MaxSpent = 3
SYMMETRY Symmetry
CHECK_DEADLOCK FALSE
INVARIANTS
    LegsServeTheSession
