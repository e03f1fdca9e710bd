SPECIFICATION FairSpec
CONSTANTS
    main = main
    w1 = w1
    w2 = w2
    j1 = j1
    j2 = j2
    x1 = x1
    s1 = s1
    Main = main
    Worker = {w1}
    Job = {}
    Timer = {}
    Owner <- NoOwner
    Source = {s1}
    Readline = {s1}
    MaxEvents = 0
    MaxPosts = 2
    MaxDepth = 1
INVARIANTS
    ExitClean
    AtMostOneLate
PROPERTIES
    TerminatedStop
