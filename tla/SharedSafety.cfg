SPECIFICATION Spec
CONSTANTS
    l1 = l1
    l2 = l2
    l3 = l3
    l4 = l4
    t1 = t1
    t2 = t2
    t3 = t3
    Lines = {l1,l2,l3,l4}
    Threads = {t1,t2,t3}
    MaxBufferLines = 3
    Hole = Hole
SYMMETRY SharedSymmetry
INVARIANTS IInv ExactlyOnce ManifestCatchesUp QueryIsExact DropLosesOnlyExposed
