SPECIFICATION Spec
CONSTANTS
    c1 = c1
    std = std
    other = other
    opp = opp
    serve = serve
    Garbled = Garbled
    Clis = {c1}
    Paths = {std, other}
    Default = std
    Schools = {"home", "away"}
    SportNames = {"quidditch"}
    SeasonYears = {"none", "26-27", "2026"}
    Requests <- AllRequests
    Terms = {"fall"}
    Opponents = {opp}
    EnvSchool <- Environments
    FirstDocs <- AtFirst
    HandEdits <- ByHand
    MaxSaves = 2
    OtherNames = {"quidditch"}
    MaxActiveSports = 2
INVARIANTS
    SelectionsAreValid
    AcknowledgedStays
    RestartKeepsTheSelection
    UrlsTellTeamsApart
CHECK_DEADLOCK FALSE
