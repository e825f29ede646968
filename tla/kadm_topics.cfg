SPECIFICATION FairSpec
CONSTANTS
    t1 = t1
    t2 = t2
    Topic = {t1, t2}
    Contested = {t1}
    Key = {"retention", "policy", "lag"}
    PolicyKey = "policy"
    EffectiveKey = {"retention", "lag"}
    Hidden = {"lag"}
    Value = {"1", "2", "delete", "compact"}
    Numeric = {"1", "2"}
    ValidFor <- Valid
    Inherited <- Levels
    Specs <- AllSpecs
    DefaultParts = 1
    DefaultRF = 1
    MaxParts = 2
    MaxRecords = 1
    MaxEdits = 2
    MaxFaults = 1
INVARIANTS SeriesMatchRecord NoSeriesLeft MemoryHonest
PROPERTIES VerdictTrue Converges GaugesCatchUp
CHECK_DEADLOCK FALSE
