SPECIFICATION Spec
CONSTANTS
    main = main
    w1 = w1
    w2 = w2
    j1 = j1
    j2 = j2
    x1 = x1
    s1 = s1
    Main = main
    Worker = {w1}
    Job = {j1, j2}
    Timer = {}
    Owner <- SharedOwner
    Source = {}
    Readline = {}
    MaxEvents = 0
    MaxPosts = 1
    MaxDepth = 1
INVARIANTS
    TasksRunAtHome
