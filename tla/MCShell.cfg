SPECIFICATION Spec
CONSTANTS
    MaxText = 4
    MaxTokens = 3
    Inputs <- MCInputs
    MaxOpen = 7
    PipeCapacity = 1
    MaxOutput = 2
INVARIANTS
    TypeOK
    RunsWhatOperatorsAsk
    PipesConnectNeighbours
PROPERTIES
    ReadsTheText
    ParsesTheLine
    LineEnds
