SPECIFICATION NetworkSpec
CONSTANTS
    serve = serve
    cli = cli
    venue = venue
    a = a
    b = b
    c = c
    r = r
    s = s
    NoTask = NoTask
    Procs = {serve}
    OfflineProcs = {}
    CrashingProcs = {serve}
    Callers = {a, b}
    Revals = {r, s}
    Home <- HomeAlone
    Outcomes <- AllOutcomes
    Ttls = {1}
    MaxAge = 2
    MaxVersion = 3
    WarmStart = TRUE
INVARIANTS
    OneRevalidation
    TiersAgree
PROPERTIES
    NeverGoesBack
    LastVersionArrives
