SPECIFICATION LiveSpec
CONSTANTS
    Inputs <- Ascii
    MaxByte = 3
    MaxChunk = 2
    MaxCommands = 2
INVARIANTS
    Inv
    CommandsArrive
PROPERTY EveryCommandRuns
