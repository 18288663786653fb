SPECIFICATION Spec
CONSTANTS
    Now = 3
    SecondsFrom = 10
    PerSecond = 10
    Ends <- MCEnds
    Holds <- MCHolds
    Part = "part of a word"
    Scripts <- MCScripts
    Garbled <- MCGarbled
    Broken <- MCBroken
    Service <- MCService
    Rate = 2
    Duration = 3
CHECK_DEADLOCK FALSE
INVARIANTS Orderly EndsDrained ParsedAsMeant
PROPERTIES AgentFinishes StopReturns
