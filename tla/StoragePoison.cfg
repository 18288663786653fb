SPECIFICATION FairSpec
CONSTANTS
    l1 = l1
    l2 = l2
    l3 = l3
    Lines = {l1,l2,l3}
    EmptyMsg = {l1}
    MaxBufferLines = 2
    MaxSegId = 6
    MaxCrashes = 0
    MaxFaults = 0
PROPERTIES BootRecovers
