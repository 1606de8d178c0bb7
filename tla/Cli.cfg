\* Two commands at a time, with any options, on a Task that exists or is being created.
CONSTANTS
    c1 = c1
    c2 = c2
    m = m
    o = o
    Commands = {c1, c2}
    Invocations <- MCInvocations
    Modules = {m, o}
    None = None
    Torn = Torn
SPECIFICATION Spec
SYMMETRY Symmetry
CHECK_DEADLOCK FALSE
INVARIANT RunsTheChosenHost
INVARIANT ExitIsTrue
