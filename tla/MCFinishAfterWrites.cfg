SPECIFICATION Spec
CONSTANTS
    HighWater = 1
    MaxChunks = 3
    MaxReads = 2
    MaxCalls = 1
    NodeHighWater = 1
INVARIANTS
    FinishAfterWrites
CHECK_DEADLOCK FALSE
