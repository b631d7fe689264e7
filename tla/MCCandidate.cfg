\* Patches of one or two blocks, a provider with and one without tools.
SPECIFICATION Spec
CONSTANTS
    Files <- MCFiles
    Blocks <- MCBlocks
    MaxBlocks = 2
    MaxTurns = 1
    Usages = {1}
INVARIANTS
    TypeOK
    ChargedForAnswer
    EditsAsMeant
    LiveIsWhatWasJudged
