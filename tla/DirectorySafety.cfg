SPECIFICATION Spec
CONSTANTS
    l1 = l1
    l2 = l2
    l3 = l3
    l4 = l4
    l5 = l5
    Lines = {l1,l2,l3,l4,l5}
    MaxBufferLines = 2
    MaxOpens = 4
    MaxId = 8
    Hole = Hole
SYMMETRY DirectorySymmetry
CHECK_DEADLOCK FALSE
INVARIANTS IInv AckedIsServed QueryMissesOnlyCarried
PROPERTIES RecoverableGrows
