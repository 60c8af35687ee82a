SPECIFICATION LiveSpec
CONSTANTS
    NProc = 4
    PidLimit = 3
    ExitCodes = {0, 1}
    Signals = {9}
    MaxRuns = 2
INVARIANTS
    TypeOK
    DoneMeansQuiet
    NoStaleTokens
    ResultReflectsRun
    OkMeansExeced
    FinishedMeansGone
    Inv
PROPERTIES
    ImplementsService
    RunReturns
    NothingLeftOver
