SPECIFICATION Spec
CONSTANTS
    None = None
    Users = {1, 2}
    Requests = {r1, r2}
    Payloads <- ThreadPayloads
    Offers <- ThreadOffers
    MaxJobs = 2
    MaxGrants = 1
    MaxCases = 2
    MaxNow = 1
    MaxMem = 3
    MaxTime = 1
    MaxInflight = 1
SYMMETRY RequestSymmetry
CHECK_DEADLOCK FALSE
INVARIANTS
    TypeOK
    TablesAgree
    OvershootIsBounded
    ReservationsFit
    GrantAccounting
    ExcessIsAuthorised
    ClosedJobHasNoQueuedCase
PROPERTIES
    RefinesLifecycle
