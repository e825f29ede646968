SPECIFICATION FairSpec
CONSTANTS
    w1 = w1
    w2 = w2
    Worker = {w1, w2}
    BreakerMin = 2
    BreakerMax = 5
    MaxFailures = 6
    MaxOutages = 2
    MaxCancels = 1
    MaxElapsed = 12
INVARIANT FailuresPaced
PROPERTIES OneProbePerCooldown Recovers
