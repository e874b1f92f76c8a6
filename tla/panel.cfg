SPECIFICATION FairPanelSpec
CONSTANTS
    MaxSubmits = 2
    MaxCancels = 1
    MaxLag = 2
    MaxPolls = 2
INVARIANTS
    PanelConsistent
    CancelIsOffered
    FinalResultIsShown
PROPERTIES
    SubmitComesBack
