SPECIFICATION LiveSpec
CONSTANT Capacity = 2
\* A child may wait for ever for a FIFO: EndsInTime.cfg.
CHECK_DEADLOCK FALSE
INVARIANTS
    Inv
    EofMeansEnd
    VerdictFits
PROPERTY EndsIfOpenInTime
