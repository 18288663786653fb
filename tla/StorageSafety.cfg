SPECIFICATION Spec
CONSTANTS
    l1 = l1
    l2 = l2
    l3 = l3
    l4 = l4
    Lines = {l1,l2,l3,l4}
    EmptyMsg = {l4}
    MaxBufferLines = 2
    MaxSegId = 7
    MaxCrashes = 2
    MaxFaults = 1
SYMMETRY LineSymmetry
INVARIANTS IInv AuditInv OnlyKnownLosses AckedIsVisible CopiesBounded OrphansAreCovered StatsAreExact
PROPERTIES ListedIsImmutable TruncatedIsSealedOrAbandoned ImplementsLogStore
