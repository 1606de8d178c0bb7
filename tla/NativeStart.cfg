CONSTANTS
    Profiles <- MCProfiles
    Keys = {k1, k2}
    Paths = {link, f1, f2}
    Files = {f1, f2}
    Gone = Gone
    Conditions <- AnyCondition
    MaxMoves = 2
SPECIFICATION MCSpec
CHECK_DEADLOCK FALSE
INVARIANTS
    ReportIsAFailure
    NothingHidden
    PreflightIsProductionCheck
    KeptApart
