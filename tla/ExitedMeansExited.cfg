SPECIFICATION Spec
CONSTANTS
    NProc = 3
    PidLimit = 2
    ExitCodes = {0, 1}
    Signals = {9}
    MaxRuns = 1
INVARIANT ExitedMeansExited
