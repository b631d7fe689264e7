\* Three iterations of the optimizer loop under five settings.
SPECIFICATION FairSpec
CONSTANTS
    MaxIters = 3
    Scores <- MCScores
    Tunings = {t0, t1}
    InitialTuning = t0
    MaxTrials = 2
    MaxTurns = 1
    MaxCallCost = 1
    MaxFailures = 2
    TinyGain = 3
    Tolerance = 2
    DriftPeriod = 2
    DriftLimit = 5
    Configs <- MCConfigs
INVARIANTS
    TypeOK
    BestDescribesWorkspace
    BinaryIsCurrent
    SweepSectionSurvives
    RecordsAgree
    EarlyStopHonoured
    StateJsonCurrent
    JudgedOnOriginalTests
    SpendBounded
    CompletedIsIntact
PROPERTIES
    IncumbentOnlyImproves
    RunEnds
    KeepsPromise
