SPECIFICATION FairSpec
CONSTANTS
    Pieces = 4
    Breaks = {2,3,4}
    Garbled = {3}
    Fatal = {4}
    MaxRotations = 2
    MaxClears = 1
CHECK_DEADLOCK FALSE
INVARIANTS IInv SentWithoutGap
PROPERTIES LeftUpToLastSize ArrivesUnlessGarbled StopEnds
