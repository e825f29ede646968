SPECIFICATION FairSpec
CONSTANTS
    Flavours = {"gcs", "gcs-nolist", "fake-gcs", "s3", "s3-plain", "s3-nolist", "s3-noversions"}
    ParamSets <- AllParams
    Locations = {"us", "eu"}
    Rules = {"none", "r"}
    Keys = {1, 2}
    PageSize = 2
    MaxWrites = 3
    MaxEdits = 2
    MaxMoves = 4
    MaxFaults = 1
INVARIANT StalledHonest
PROPERTIES ReadyOverOwn TeardownCompletes KnobsConverge
CHECK_DEADLOCK FALSE
