\* A primary, an aspect with an after-run phase and one without, two reports of extensions.
CONSTANTS
    p = p
    a = a
    b = b
    Primary = p
    Aspects <- TwoAspects
    Phased = {a}
    MaxBatch = 2
    MaxReports = 2
SPECIFICATION FairSpec
INVARIANTS
    DrainedBeforeTerminal
    SettlesAsItWent
    CompletedParticipants
    RefusedBatchesLeaveNothing
    RejectionSurfacesOnceOpen
PROPERTIES
    HostSettles
