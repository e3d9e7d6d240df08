\* Every kind of request, two at a time.
SPECIFICATION Spec
CONSTANTS
    Jobs = {j1, j2}
    Kinds = {"upload", "folder", "write", "remove", "clear", "deploy", "apply", "pack", "delete", "create"}
    Paths = {1, 2}
    Index = 1
    Folder = {2}
    NoDir = NoDir
    None = None
    Torn = Torn
    MaxVersions = 2
    MaxFaults = 1
    MaxRequests = 3
SYMMETRY Symmetry
CHECK_DEADLOCK FALSE
INVARIANTS
    AloneLeavesWhole
    ReplacedSlotIsKept
    SlotsAreEarned
