SPECIFICATION KeyFairSpec
CONSTANTS
    Contests = {g1, g2}
    x = x
    y = y
    Scores = {x, y}
    NoState = NoState
    Subs = {s1}
    Nobody = Nobody
    MaxTicks = 3
    None = None
    Streams <- MCStreams
    Shown <- Values
    MaxHistory = 2
    NoDocument = NoDocument
INVARIANTS
    StreamPartsOnlyIfSlipped
    KeyframesFollowLive
    NobodySleepsOnNews
PROPERTIES
    EventsAreReal
    NothingIsSentTwice
    EveryTickEnds
    ClientsSeeLive
