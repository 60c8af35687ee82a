SPECIFICATION Spec
CONSTANTS
    Tree <- MCTree
    Base <- MCBase
    LinkerDir <- MCLinkerDir
    Subs <- MCSubs
    Outside <- MCOutside
    SourceDir <- MCSourceDir
    Source <- MCSource
    MaxOps = 3
    MaxCalls = 17
INVARIANTS
    Inv
PROPERTIES
    OkMeansDone
    OutsideKept
CHECK_DEADLOCK FALSE
