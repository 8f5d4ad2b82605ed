SPECIFICATION FairSpec
CONSTANTS
    Names = {"round-robin", "least-in-flight", "scored"}
    Order <- TwoReplicas
    Reads = {s1, s2, s3}
    Shapes = {f1}
    Latency <- SlowAndFast
    Failing = {"r1"}
    MaxLag = 1
    Wrap = 4
    Alpha <- OneFifth
    Unit = 10
    DefaultService = 10
    LagPenalty = 50
INVARIANTS CountsExact LoadShare EqualShare
 
