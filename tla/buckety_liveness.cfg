SPECIFICATION FairSpec
CONSTANTS
    b1 = b1
    r1 = r1
    x1 = x1
    Buckety = {b1}
    Resource = {r1}
    ResourceOf <- AllOnOne
    BadName = {}
    Access = {x1}
    RefOf <- AllOfB1
    Specs <- LivenessSpecs
    Backends <- SameMajor
    DeletionRequeue = 2
    DeletionRequeueCap = 3
    Env = {"crash", "stale", "read", "write", "patch", "inspect", "ensure", "delete", "stall",
           "writer"}
    MaxFaults = 1
    MaxGen = 2
    MaxContent = 1
INVARIANTS AccessBlocksTeardown ImplicitGoneFirst
PROPERTIES DeletionCompletes ServedEventually ExplicitReplacesImplicit
CHECK_DEADLOCK FALSE
