SPECIFICATION FairSpec
CONSTANTS
    a1 = a1
    a2 = a2
    s1 = s1
    s2 = s2
    k1 = k1
    k2 = k2
    k3 = k3
    Access = {a1}
    Secret = {s1}
    SecretOf <- SecretOfOne
    Key = {k1, k2}
    Invalid = {2}
    Drivers = {"minting", "static", "absent"}
    Env = {"lag", "crash", "revoke", "read", "grant", "lostReply", "secretDelete", "bkyWaits", "bkyGoes"}
    MaxFaults = 1
    MaxGen = 2

PROPERTIES DeletionCompletes ServedEventually
