SPECIFICATION Spec
CONSTANTS
    None = None
    Users = {1, 2}
    Requests = {r1}
    Payloads <- QueuePayloads
    Offers <- NoOffers
    MaxJobs = 3
    MaxGrants = 0
    MaxCases = 1
    MaxNow = 1
    MaxMem = 3
    MaxTime = 1
    MaxInflight = 2
CHECK_DEADLOCK FALSE
INVARIANTS
    SameSizeInOrder
    NewcomerGoesFirst
