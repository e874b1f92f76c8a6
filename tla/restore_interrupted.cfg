SPECIFICATION BackupSpec
CONSTANTS
    Instances = {i1, i2}
    MaxBackups = 3
    MaxFaults = 2
CHECK_DEADLOCK FALSE
INVARIANTS
    BackupConsistent
    NothingIsLost
    CompletedIsTheBackup
