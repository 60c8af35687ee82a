SPECIFICATION LiveSpec
CONSTANT Capacity = 1
CHECK_DEADLOCK FALSE
PROPERTY EndsInTime
