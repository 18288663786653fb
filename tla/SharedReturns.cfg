SPECIFICATION FairSpec
CONSTANTS
    l1 = l1
    l2 = l2
    l3 = l3
    t1 = t1
    t2 = t2
    Lines = {l1,l2,l3}
    Threads = {t1,t2}
    MaxBufferLines = 2
    Hole = Hole
PROPERTIES CallsReturn
