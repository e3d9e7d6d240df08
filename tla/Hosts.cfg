\* Three requests, two of them at a time, on an install with one app and one host.
SPECIFICATION HostsSpec
CONSTANTS
    Handlers = {h1, h2}
    Names = {n1, n2}
    Hosts = {i1, i2}
    Records = {g1}
    NoGate = NoGate
    Here = Here
    Gone = Gone
    MaxApps = 2
    MaxChanges = 3
SYMMETRY Symmetry
CHECK_DEADLOCK FALSE
INVARIANTS
    TableFollowsTheRows
    AddressesHold
