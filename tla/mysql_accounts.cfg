SPECIFICATION FairSpec
CONSTANTS
    p1 = p1
    p2 = p2
    p3 = p3
    p4 = p4
    Host = {1, 2}
    Password = {p1, p2, p3, p4}
    Roles = {"Reader", "ReadWrite", "Writer"}
    Env = {"userHost", "crash", "statement", "lostReply", "login", "write", "patch", "delete", "secretDelete", "secretEdit"}
    MaxFaults = 1
    MaxChanges = 2
    MaxGen = 2
INVARIANTS MemoryHonest RoleEnforced StraysBounded
PROPERTY ServedEventually
CHECK_DEADLOCK FALSE
