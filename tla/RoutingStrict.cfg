SPECIFICATION FairSpec
CONSTANTS
    Sessions = {s1}
    Replicas = {r1, r2}
    Primary = pri
    None = None
    Mode = "strict"
    MaxWAL = 1
INVARIANTS PinnedToPrimary LentOnce InFlightExact
PROPERTIES SeenOwnWrites DispatchEnds
