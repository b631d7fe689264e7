\* Is the program the drift check re-measures as the baseline the baseline?
SPECIFICATION Spec
CONSTANTS
    MaxIters = 2
    Scores <- MCScores
    Tunings = {t0, t1}
    InitialTuning = t0
    MaxTrials = 1
    MaxTurns = 1
    MaxCallCost = 1
    MaxFailures = 2
    TinyGain = 3
    Tolerance = 2
    DriftPeriod = 2
    DriftLimit = 5
    Configs <- MCConfigs
INVARIANT BaselineReconstructed
