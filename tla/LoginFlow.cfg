\* An earlier session and a login, with two requests at a time.
SPECIFICATION Spec
CONSTANTS
    Logins = {past, new}
    Past = past
    Handlers = {h1, h2}
    Browsers = {b1, b2}
    People = {ann, bob}
    Records = {"ssh", "oidc", "key", "mcp"}
    Doors <- FormAndProvider
    NoLogin = NoLogin
    NoRecord = NoRecord
    NoOne = NoOne
    FailureLimit = 1
    MaxTrips = 1
    MaxAllowed = 2
SYMMETRY Symmetry
CHECK_DEADLOCK FALSE
INVARIANTS
    TokensAreProved
    LoginsStayTheirs
    GuessesAreBounded
