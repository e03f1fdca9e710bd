SPECIFICATION FairSpec
CONSTANTS
    h1 = h1
    h2 = h2
    MaxId = 2
    MaxNow = 2
    MaxDepth = 2
    DelayTenths <- MCDelays
    Number = {2}
    Foreign = {}
    Handle <- TwoHandles
PROPERTIES
    TimeoutsFire
