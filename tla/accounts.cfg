SPECIFICATION AccountsSpec
CONSTANTS
    None = None
    Threads = {t1, t2}
    Names = {n1}
    Sources = {a1}
    Passwords = {p1, p2}
    MaxIds = 1
    MaxSessions = 3
    MaxNow = 6
    MaxUpdates = 1
    MaxCrashes = 1
    Threshold = 2
    Window = 3
SYMMETRY AccountSymmetry
CHECK_DEADLOCK FALSE
INVARIANTS
    AccountsTypeOK
    StaleSessionsOnlyByRaces
    CounterStopsAtThreshold
