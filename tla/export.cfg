SPECIFICATION Spec
CONSTANTS
    football = football
    volleyball = volleyball
    NoFile = NoFile
    Torn = Torn
    Active <- Rotation
    Wanted = {{"json"}, {"mgjson", "csv"}}
    MaxRuns = 2
INVARIANTS
    ReadersSeeWholeFiles
    IndexNamesWhatIsThere
    SportFilesAgree
CHECK_DEADLOCK FALSE
