\* Three commands, any of two names at any of two roots.
CONSTANTS
    Commands = {c1, c2, c3}
    Names = {n1, n2}
    Roots = {r1, r2}
    Free = Free
    Torn = Torn
SPECIFICATION Spec
CHECK_DEADLOCK FALSE
INVARIANT CreatedOpensByName
INVARIANT OneSuccessPerName
INVARIANT UnregisteredOpensByRoot
INVARIANT OpenedIsComplete
PROPERTY HalfMadeStaysAsLeft
