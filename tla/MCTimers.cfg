SPECIFICATION Spec
CONSTANTS
    h1 = h1
    h2 = h2
    MaxId = 3
    MaxNow = 2
    MaxDepth = 2
    DelayTenths <- MCDelays
    Number = {2}
    Foreign = {1}
    Handle <- TwoHandles
INVARIANTS
    ProtectExact
    SingleOwner
    OneShotOnce
    SameDelayOrder
    HandleOwnsLive
PROPERTIES
    ClearedStaysSilent
    NeverEarly
    ImplementsService
