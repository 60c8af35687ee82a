SPECIFICATION LiveSpec
CONSTANTS
    Order <- MCOrder
    Kind <- MCKind
    Unprobed = {"go"}
    Classes = {1, 2, 3, 4}
    HasMain = {1, 2, 4}
    Plain = {1, 2, 3}
    MaxCompiles = 2
INVARIANTS
    Inv
    ProgramIsBuilt
PROPERTY CallsEnd
