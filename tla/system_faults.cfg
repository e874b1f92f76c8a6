SPECIFICATION SysSpec
CONSTANTS
    None = None
    Users = {1}
    Requests = {r1}
    Payloads <- FaultPayloads
    Offers <- NoOffers
    MaxJobs = 3
    MaxGrants = 0
    MaxCases = 1
    MaxNow = 0
    MaxMem = 3
    MaxTime = 1
    MaxInflight = 3
    Slots = {s1, s2}
    MaxFaults = 1
SYMMETRY SlotSymmetry
CHECK_DEADLOCK FALSE
INVARIANTS
    SlotsConsistent
    ExecutingIsActiveOrCancelled
    StrandedOnlyByFaults
PROPERTIES
    RefinesStore
    ResultsAreKept
