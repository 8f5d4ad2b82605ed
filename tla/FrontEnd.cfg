SPECIFICATION FairSpec
CONSTANTS
    Depth = 6
    Levels <- MCLevels
    Texts <- MCTexts
    Files <- MCFiles
    Names <- MCNames
    Passwords <- MCPasswords
    Databases = {"", "db"}
    MaxSessions = 3
INVARIANTS Admitted OneRole AssumptionsMet
INVARIANTS ReadsAreSafe WritesAreNeeded PinsNotMissed
PROPERTY StartupEnds
CHECK_DEADLOCK FALSE
