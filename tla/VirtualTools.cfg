\* Two calls of one tool, with up to three suspensions.
SPECIFICATION ToolSpec
CONSTANTS
    Tools <- Definitions
    Sessions = {s1, s2}
    Browser = Browser
    Contents = {c1}
    Payloads = {p1, p2}
    Bad = Bad
    Nothing = Nothing
    Session = Session
    Upstream = Upstream
    Unset = Unset
    MaxRuns = 2
    MaxIds = 3
    MaxLines = 6
CHECK_DEADLOCK FALSE
SYMMETRY Symmetry
INVARIANTS
    ResultsAreAsMeant
    RunsKeepToThemselves
