SPECIFICATION FairSpec
CONSTANTS
    Acquirers = {a1, a2, a3, a4}
    Conns = {c1, c2}
    MaxSize = 1
    MaxWaiters = 2
    TimesOut = TRUE
    Reaps = TRUE
    None = None
    Nil = Nil
INVARIANTS TypeOK OpenAccounting OwnedOnce NoIdleWhileWaiting SendNeverBlocks
PROPERTIES AbandonReturns CloseDrains
