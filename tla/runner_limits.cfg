SPECIFICATION FairRunnerSpec
CONSTANTS
    None = None
    MaxCases = 2
    TimeLimit = 2
    TotalWall = 3
    CompileWall = 1
    CallTime = 1
    Poll = 1
    OutLimit = 0
CHECK_DEADLOCK FALSE
INVARIANTS
    RunnerConsistent
    WallTimeIsBounded
    CancelIsPrompt
    MemoryVerdictIsOwn
PROPERTIES
    RefinesExecution
    ExecuteEnds
