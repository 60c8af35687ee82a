SPECIFICATION Spec
CONSTANTS
    Plans <- MCPlans
    Sources <- MCSources
    Fs <- MCFs
    HostDirs <- MCHostDirs
    MaxStarts = 2
    MaxKept = 2
INVARIANTS
    Inv
    WritableExactly
    StreamsReachable
PROPERTY HostKept
CHECK_DEADLOCK FALSE
