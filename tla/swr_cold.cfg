SPECIFICATION Spec
CONSTANTS
    serve = serve
    cli = cli
    venue = venue
    a = a
    b = b
    c = c
    r = r
    s = s
    NoTask = NoTask
    Procs = {serve, venue}
    OfflineProcs = {venue}
    CrashingProcs = {venue}
    Callers = {a, b, c}
    Revals = {r, s}
    Home <- HomeOffline
    Outcomes <- NoRawErrors
    Ttls = {1, 2}
    MaxAge = 3
    MaxVersion = 2
    WarmStart = FALSE
SYMMETRY TaskSymmetry
INVARIANTS
    SnapshotMirrorsRow
    NeverNothing
