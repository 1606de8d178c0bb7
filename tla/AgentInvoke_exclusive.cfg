\* Two exclusive clients, two Sessions, two Artifacts that match the same requirements.
SPECIFICATION Spec
CONSTANTS
    Clients = {c1, c2}
    Exclusive = {c1, c2}
    Hung = {}
    NoClient = NoClient
    Sessions = {s1, s2}
    NoSessionId = NoSessionId
    Artifacts = {a1, a2}
    a1 = a1
    a2 = a2
    Entries <- MCEntries
    Requires <- MCRequires
    Produces <- MCProduces
    NoEntry = NoEntry
    Times = {t1, t2}
    NoTime = NoTime
SYMMETRY Symmetry
CHECK_DEADLOCK FALSE
INVARIANTS
    TypeOK
    
    UncertainKeepsLock
    CompletedReceiptIsTrue
    DenialsAreTrue
PROPERTIES
    KeepsPromise
