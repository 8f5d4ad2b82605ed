SPECIFICATION RelayFairSpec
CONSTANTS
    Requests = 3
    Notices = 1
    Cap = 1
    Polite = TRUE
CHECK_DEADLOCK FALSE
INVARIANTS RelayTypeOK ReleasedAtRest NoneLeftBehind
PROPERTY UnwindsUnlessJammed
