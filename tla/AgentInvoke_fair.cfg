\* Liveness: two exclusive clients.
SPECIFICATION FairSpec
CONSTANTS
    Clients = {c1, c2}
    Exclusive = {c1, c2}
    Hung = {c2}
    NoClient = NoClient
    Sessions = {s1, s2}
    NoSessionId = NoSessionId
    Artifacts = {a1}
    a1 = a1
    a2 = a2
    Entries <- MCEntries
    Requires <- MCRequires
    Produces <- MCProduces
    NoEntry = NoEntry
    Times = {t1}
    NoTime = NoTime

CHECK_DEADLOCK FALSE
PROPERTIES
    EveryCallReturns
