SPECIFICATION PollingSpec
CONSTANTS
    None = None
    Users = {1}
    Requests = {r1}
    Payloads <- ExpiredPayloads
    Offers <- ExpiredOffers
    MaxJobs = 1
    MaxGrants = 1
    MaxCases = 1
    MaxNow = 1
    MaxMem = 3
    MaxTime = 1
    MaxInflight = 2
CHECK_DEADLOCK FALSE
PROPERTIES
    ExpiredGrantLeavesQueue
