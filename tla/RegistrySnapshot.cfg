SPECIFICATION Spec
CONSTANTS
    pri = pri
    r1 = r1
    Primary = pri
    Replicas = {r1}
    FirstList <- Both
    ReloadLists <- Same
    MaxReloads = 0
    MaxWAL = 1
    MaxFailures = 1
    FailureThreshold = 1
    Interval = 1
    BaseBackoff = 1
    MaxBackoff = 1
    MaxShift = 0
    Width = 8
    Hangs = FALSE
    Reads = TRUE
INVARIANT SnapshotSound
