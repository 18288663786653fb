SPECIFICATION FairSpec
CONSTANTS
    l1 = l1
    l2 = l2
    l3 = l3
    Lines = {l1,l2,l3}
    EmptyMsg = {}
    MaxBufferLines = 2
    MaxSegId = 6
    MaxCrashes = 2
    MaxFaults = 1
PROPERTIES BootRecovers
