SPECIFICATION LoopSpec
CONSTANTS
    MaxScore = 9
    Scores <- MCScores
    MaxResults = 3
INVARIANTS
    VerdictMeaning
    ScoreMeaning
CHECK_DEADLOCK FALSE
