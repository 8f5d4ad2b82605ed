SPECIFICATION FairSpec
CONSTANTS
    Acquirers = {a1, a2}
    Conns = {c1, c2}
    MaxSize = 1
    MaxWaiters = 0
    TimesOut = FALSE
    Reaps = FALSE
    None = None
    Nil = Nil
PROPERTY WaiterServed
