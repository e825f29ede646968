SPECIFICATION Spec
CONSTANTS
    b1 = b1
    r1 = r1
    x1 = x1
    Buckety = {b1}
    Resource = {r1}
    ResourceOf <- AllOnOne
    BadName = {"mysql"}
    Access = {}
    RefOf <- AllOfB1
    Specs <- ClaimSpecs
    Backends <- AllBackends
    DeletionRequeue = 2
    DeletionRequeueCap = 3
    Env = {"lag", "crash", "patch", "inspect", "ensure", "delete", "stall", "denied", "third"}
    MaxFaults = 2
    MaxGen = 2
    MaxContent = 1
INVARIANTS TypeOK ReadyIsClean
PROPERTIES StickyStamp DestroysOnlyOwn RightDriver
CHECK_DEADLOCK FALSE
