SPECIFICATION FairSpec
CONSTANTS
    pri = pri
    r1 = r1
    Primary = pri
    Replicas = {r1}
    FirstList <- Both
    ReloadLists <- PrimaryOnly
    MaxReloads = 0
    MaxWAL = 0
    MaxFailures = 2
    FailureThreshold = 2
    Interval = 1
    BaseBackoff = 1
    MaxBackoff = 1
    MaxShift = 1
    Width = 8
    Hangs = TRUE
    Reads = FALSE
PROPERTY TripsWhenUnresponsive
