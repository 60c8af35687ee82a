SPECIFICATION LiveSpec
CONSTANTS
    MaxScore = 9
    Plans <- MCPlans
    Scores <- MCScores
    MaxAttempts = 2
INVARIANTS
    Inv
    StreamIsPostOrder
    ResultsAreOwn
    ClosedMeansFinished
    SuccessMeansRootSent
PROPERTIES
    AcceptedMeansAll
    EvaluateEnds
