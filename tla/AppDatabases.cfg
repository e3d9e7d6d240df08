\* Two requests and a watcher.
SPECIFICATION Spec
CONSTANTS
    Callers = {c1, c2}
    Watchers = {w1}
    Handles = {h1, h2, h3}
    Faces = {"member", "reader"}
    NoCaller = NoCaller
    NoHandle = NoHandle
    NoFile = NoFile
    BufferSize = 1
    MaxWrites = 1
    MaxDeletions = 1
SYMMETRY Symmetry
INVARIANTS
    HandlesAreKept
    BatchesAreWhole
    StaleViewsAreTold
