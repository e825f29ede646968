SPECIFICATION FairSpec
CONSTANTS
    Email = {"e1", "e2"}
    Webhook = FALSE
    MaxIdentity = 2
    MaxKey = 2
    MaxEdits = 2
    MaxFaults = 1
INVARIANTS NothingLeft KeyGoesWithAccess
PROPERTIES ForeignUntouched AccountBound DeletionCompletes
CHECK_DEADLOCK FALSE
