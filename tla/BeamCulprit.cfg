SPECIFICATION Spec
CONSTANTS
    N = 2
    Slots = 2
    Scores = {1000, 1030, 1040, 1100}
    OnRecord = 1030
    Tolerance = 2
    Configs <- MCConfigs
INVARIANT MemoryNamesCulprit
