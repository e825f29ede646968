SPECIFICATION Spec
CONSTANTS
    p1 = p1
    p2 = p2
    p3 = p3
    p4 = p4
    Host = {1, 2}
    Password = {p1, p2, p3, p4}
    Roles = {"ReadWrite", "Writer"}
    Env = {"userHost"}
    MaxFaults = 0
    MaxChanges = 1
    MaxGen = 2
INVARIANT WriterHoldsNothing
CHECK_DEADLOCK FALSE
