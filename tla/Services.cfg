\* Three requests, two of them at a time, on an install with one virtual service.
SPECIFICATION ServicesSpec
CONSTANTS
    Handlers = {h1, h2}
    Names = {n1, n2}
    Slugs = {s1, s2}
    Gates = {g1, g2}
    Contents = {c1}
    Bad = Bad
    Away = Away
    Gone = Gone
    MaxServices = 2
    MaxRequests = 3
SYMMETRY Symmetry
CHECK_DEADLOCK FALSE
INVARIANTS
    MountsFollowTheRows
