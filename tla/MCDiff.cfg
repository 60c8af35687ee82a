SPECIFICATION LiveSpec
CONSTANT Inputs <- MCInputs
INVARIANTS
    Inv
    MatchMeansSame
    PositionsAreReal
PROPERTY ReturnsIfKnown
