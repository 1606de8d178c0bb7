\* The comment on the write queue, as it is worded.
CONSTANTS
    p = p
    a = a
    b = b
    Primary = p
    Aspects <- TwoAspects
    Phased = {a}
    MaxBatch = 2
    MaxReports = 2
SPECIFICATION Spec
INVARIANT StorageRejectionSurfaces
