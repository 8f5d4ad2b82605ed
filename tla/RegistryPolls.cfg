SPECIFICATION FairSpec
CONSTANTS
    pri = pri
    r1 = r1
    Primary = pri
    Replicas = {r1}
    FirstList <- Both
    ReloadLists <- PrimaryOnly
    MaxReloads = 1
    MaxWAL = 1
    MaxFailures = 2
    FailureThreshold = 2
    Interval = 1
    BaseBackoff = 70
    MaxBackoff = 100
    MaxShift = 1
    Width = 8
    Hangs = FALSE
    Reads = FALSE
INVARIANTS BreakerConsistent DelayBounded OnlyListedPolled
PROPERTIES ImplementsHealthView BreakerConverges PollersStop
