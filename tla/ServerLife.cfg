SPECIFICATION FairSpec
CONSTANTS
    Clients = {c1, c2}
    Keys = {k1}
    NoKey = NoKey
    Mode = "transaction"
    MaxPools = 2
    MaxSize = 1
    MaxReloads = 1
INVARIANTS HomePool NothingLeft
PROPERTY ShutsDown
