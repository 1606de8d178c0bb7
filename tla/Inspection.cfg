\* One client without the lock, two Sessions, one Artifact, one reader.
SPECIFICATION InspectedSpec
CONSTANTS
    Clients = {c1}
    Exclusive = {}
    Hung = {}
    NoClient = NoClient
    Sessions = {s1, s2}
    NoSessionId = NoSessionId
    Artifacts = {a1}
    a1 = a1
    a2 = a2
    Entries <- MCEntries
    Requires <- MCRequires
    Produces <- MCProduces
    NoEntry = NoEntry
    Times = {t1}
    NoTime = NoTime
SYMMETRY Symmetry
CHECK_DEADLOCK FALSE
INVARIANTS
    
    OnlyNewSessionsDisturb
