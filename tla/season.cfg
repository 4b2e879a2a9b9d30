SPECIFICATION SeasonSpec
CONSTANTS
    Days = {0, 3, 4, 10, 18}
    Marks = {"none", "live", "scored", "W", "L", "void"}
    MaxRows = 3
INVARIANTS
    RecordsAddUp
    WeeksInOrder
    ScorebugShowsTheGame
