SPECIFICATION Spec
CONSTANTS
    Clients = {c1, c2}
    Modes = {"routing"}
    MaxPending = 3
SYMMETRY Symmetry
INVARIANT PingChecksReady
