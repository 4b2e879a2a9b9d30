SPECIFICATION Spec
CONSTANTS
    a = a
    b = b
    outsider = outsider
    derby = derby
    final = final
    friendly = friendly
    NoTeam = NoTeam
    Games = {derby, final}
    Teams = {a, b, outsider}
    HomeTeam <- HomeTeams
    AwayTeam <- AwayTeams
    Neutral = {final}
    Start <- Starts
    Primary = b
    Standings <- League
    MaxTeams = 24
    HasIds = TRUE
    WindowHours = 1
    FinalsWithin = 0
    PregameWindow = 0
    Ttl = 0
    MaxScore = 1
    MaxNews = 2
    MaxTime = 2
INVARIANTS
    AgeIsHonest
    FreshBoardIsTheTruth
    NothingLiveIsHidden
