SPECIFICATION FairSpec
CONSTANTS
    Fetches = {f1, f2}
    WithTables = {f1}
    Conditional = {f2}
    LastBuild = 2
    RobotsFiles <- MCRobotsFiles
    BuildIdTTL = 1
    RobotsTTL = 0
    RobotsDelay = 1
INVARIANTS
    BuildIdAgeIsHonest
    DeploymentIsSurvived
PROPERTIES
    NothingLongForbidden
    EveryFetchEnds
