SPECIFICATION FairSpec
CONSTANTS
    Clients = {c1, c2}
    Modes = {"session", "transaction", "routing"}
    MaxPending = 3
INVARIANTS OwnAnswers CleanHandout
PROPERTY NoneStuck
