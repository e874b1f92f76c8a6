SPECIFICATION SysSpec
CONSTANTS
    None = None
    Users = {1}
    Requests = {r1}
    Payloads <- OneSize
    Offers <- NoOffers
    MaxJobs = 2
    MaxGrants = 0
    MaxCases = 1
    MaxNow = 0
    MaxMem = 3
    MaxTime = 1
    MaxInflight = 2
    Slots = {s1, s2}
    MaxFaults = 0
CHECK_DEADLOCK FALSE
INVARIANTS
    LiveMemoryWithinQuota
