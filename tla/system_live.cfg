SPECIFICATION FairSysSpec
CONSTANTS
    None = None
    Users = {1}
    Requests = {r1}
    Payloads <- LivePayloads
    Offers <- LiveOffers
    MaxJobs = 2
    MaxGrants = 1
    MaxCases = 1
    MaxNow = 1
    MaxMem = 3
    MaxTime = 1
    MaxInflight = 2
    Slots = {s1, s2}
    MaxFaults = 0
CHECK_DEADLOCK FALSE
PROPERTIES
    SlotsExecute
    EveryJobFinishes
