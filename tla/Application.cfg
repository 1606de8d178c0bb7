\* One or two Profiles over at most two Plugins; every Schema against all data.
CONSTANTS
    p = p
    q = q
    a = a
    b = b
    bad = bad
    t = t
    k = k
    l = l
    n = n
    pi = pi
    x = x
    y = y
    Schemas <- MCSchemas
    Depth <- MCDepth
    Data <- MCData
    PropertyNames = {"m", "o"}
    MaxNodes = 4
    MaxDepth = 2
    Candidates <- MCCandidates
    Identifiers = {p, q, a, b, k, l, n, pi}
    EntryNames = {a, b}
    None = None
SPECIFICATION Spec
CHECK_DEADLOCK FALSE
INVARIANT StartedAsDeclared
INVARIANT DataMatchesSchema
