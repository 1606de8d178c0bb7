\* Three Artifacts of two kinds, entries with up to two requirements.
CONSTANTS
    x = x
    y = y
    z = z
    f = f
    g = g
    n = n
    m = m
    v = v
    w = w
    Ids = {x, y, z}
    Facts = {f, g}
    Names = {n, m}
    Values = {v, w}
    Profiles <- MCProfiles
    Requests <- MCRequests
    NoId = NoId
    NoName = NoName
    NoData = NoData
SPECIFICATION Spec
CHECK_DEADLOCK FALSE
INVARIANT SchemaDescribesRequests
INVARIANT NoSilentRebinding
INVARIANT SelectionIsHonoured
INVARIANT NamedInputsLast
INVARIANT CandidatesExplain
