SPECIFICATION Spec
CONSTANTS
    HighWater = 1
    MaxChunks = 2
    MaxReads = 2
    MaxCalls = 2
    NodeHighWater = 1
INVARIANTS
    ReadsSettleInOrder
    BranchesComplete
PROPERTIES
    WritesSettle
    WebImplementsPipe
    NodeImplementsPipe
CHECK_DEADLOCK FALSE
