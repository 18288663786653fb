SPECIFICATION Spec
CONSTANTS
    Garbage = 7
    Alignment = 32
    Lines <- MCLines
    LegacyLines <- MCLegacyLines
    Configs <- MCConfigs
    PatternBits = 2
    Within <- MCWithin
    Lower <- MCLower
    TooShort = {"up"}
    LevelOf <- MCLevelOf
    Hash <- MCHash
    Ranges <- MCRanges
    MaxLines = 3
    MaxRepairs = 1
CHECK_DEADLOCK FALSE
INVARIANTS SealedIsParsed DamageIsCaught ListIsTrue
    QueryIsSound QueryFinds MayExistKeepsWords
