\* Three runs of different commands, one reader, one torn line.
SPECIFICATION Spec
CONSTANTS
    Runs <- MCRuns
    KindOf <- MCKindOf
    Limit = 2
    MaxTears = 1
INVARIANTS
    TypeOK
    ListingComplete
    RecordedIsSeen
