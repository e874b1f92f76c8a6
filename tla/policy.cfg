SPECIFICATION PolicySpec
CONSTANTS
    Headers = {"<a>", "<b>"}
    Absolute = {"</a>"}
    Builtin = {"<a>"}
    Developers = {d1, d2}
    Extensions = {e1}
    Admins = {a1, a2}
    Sources <- Submitted
    Samples <- Texts
    MaxUpdates = 3
    MaxRestarts = 1
SYMMETRY PolicySymmetry
INVARIANTS
    CatalogConsistent
    ParserMeetsReference
    JobsMeetThePolicy
    AuditTellsThePolicy
