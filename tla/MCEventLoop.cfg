SPECIFICATION FairSpec
CONSTANTS
    main = main
    w1 = w1
    w2 = w2
    j1 = j1
    j2 = j2
    x1 = x1
    s1 = s1
    Main = main
    Worker = {}
    Job = {j1, j2}
    Timer = {x1}
    Owner <- SoleOwner
    Source = {s1}
    Readline = {s1}
    MaxEvents = 1
    MaxPosts = 0
    MaxDepth = 2
INVARIANTS
    DeliveredOnce
    IdleIsFresh
    OpenEventsServed
PROPERTIES
    ImplementsProcess
    JobsDelivered
    ProcessEnds
