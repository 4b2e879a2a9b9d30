SPECIFICATION Spec
CONSTANTS
    serve = serve
    cli = cli
    venue = venue
    a = a
    b = b
    c = c
    r = r
    s = s
    NoTask = NoTask
    Procs = {serve, cli}
    OfflineProcs = {}
    CrashingProcs = {cli}
    Callers = {a, b}
    Revals = {r, s}
    Home <- HomeShared
    Outcomes <- AllOutcomes
    Ttls = {1}
    MaxAge = 2
    MaxVersion = 3
    WarmStart = FALSE
INVARIANTS
    SnapshotHasRow
    FreshIsCurrent
