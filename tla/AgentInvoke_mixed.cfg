\* One exclusive client and one that never takes the lock, at the same time.
SPECIFICATION Spec
CONSTANTS
    Clients = {c1, c2}
    Exclusive = {c1}
    Hung = {}
    NoClient = NoClient
    Sessions = {s1, s2}
    NoSessionId = NoSessionId
    Artifacts = {a1}
    a1 = a1
    a2 = a2
    Entries <- MCEntries
    Requires <- MCRequires
    Produces <- MCProduces
    NoEntry = NoEntry
    Times = {t1}
    NoTime = NoTime
SYMMETRY Symmetry
CHECK_DEADLOCK FALSE
INVARIANTS
    ConsumptionEvidence
    OnlyDamageBlinds
    TerminalEventFirst

    
