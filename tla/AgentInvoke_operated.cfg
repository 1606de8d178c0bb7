\* As the exclusive run, with an operator who removes the locks of calls that ended.
SPECIFICATION OperatedSpec
CONSTANTS
    Clients = {c1, c2}
    Exclusive = {c1, c2}
    Hung = {}
    NoClient = NoClient
    Sessions = {s1, s2}
    NoSessionId = NoSessionId
    Artifacts = {a1}
    a1 = a1
    a2 = a2
    Entries <- MCEntries
    Requires <- MCRequires
    Produces <- MCProduces
    NoEntry = NoEntry
    Times = {t1}
    NoTime = NoTime
SYMMETRY Symmetry
CHECK_DEADLOCK FALSE
INVARIANTS
    
    OwnerWhileHolding
PROPERTIES
    OnlyOwnerReleases
