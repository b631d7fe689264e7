\* Does the knob setting a sweep adopts honour the contract?
SPECIFICATION Spec
CONSTANTS
    MaxIters = 1
    Scores <- MCScores
    Tunings = {t0, t1}
    InitialTuning = t0
    MaxTrials = 2
    MaxTurns = 1
    MaxCallCost = 1
    MaxFailures = 2
    TinyGain = 3
    Tolerance = 2
    DriftPeriod = 2
    DriftLimit = 5
    Configs <- MCConfigs
INVARIANT SweepWinnersMeetContract
