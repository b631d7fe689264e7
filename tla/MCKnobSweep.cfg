\* Grid and toggle searches of up to two trials and two rounds.
SPECIFICATION FairSpec
CONSTANTS
    Settings = {s0, s1, s2}
    Original = s0
    Scores <- MCScores
    Profilers = {ncu}
    MaxTrials = 3
    MaxIters = 2
    Tolerance = 2
    Configs <- MCConfigs
INVARIANTS
    TypeOK
    HandedOverAsReported
    RowsTellTheOutcome
    ArtifactsDescribeHandover
PROPERTIES
    SweepEnds
    SweepKeepsPromise
