SPECIFICATION Spec
CONSTANTS
    N = 3
    Slots = 2
    Scores = {1000, 1030, 1040, 1100}
    OnRecord = 1030
    Tolerance = 2
    Configs <- MCConfigs
INVARIANTS
    TypeOK
    AcceptedOnEvidence
    NoContenderMissed
    RankingIgnoresTiming
    MemoryRightIfAllPass
PROPERTIES
    OutcomeAllowed
    BeamEnds
