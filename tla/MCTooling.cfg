SPECIFICATION Spec
CHECK_DEADLOCK FALSE
SYMMETRY Names
CONSTANTS
    Name = {A, B}
    MaxDepth = 2
    MaxBlocks = 2
    MaxTests = 2
    MaxHooks = 1
    MaxFiles = 2
    undefined = undefined
    Package = {p1, p2}
    Version = {v1}
    latest = latest
    Torn = Torn
    None = None
    MaxListed = 1
    MaxRuns = 2
    Segment = {"x", "y", "w"}
    Cwd <- MCCwd
    MaxSegs = 2
    Module = {m1, m2, m3}
    Entry = m1
    External = External
    Nobody = Nobody
    MaxImports = 2
    MaxDynamic = 1
    MaxBodies = 2
    Function = {f1, f2}
    Thrown = {f1, f2, x1}
    MaxExceptions = 3
    MaxNative = 4
    outer_dir = outer_dir
    inner_dir = inner_dir
    inner_file = inner_file
    Path = {f, outer_dir, inner_dir, inner_file}
    Top = Top
    ParentOf <- MCParentOf
    Absent = Absent
    Dir = Dir
    Unknown = Unknown
    Failed = Failed
    MaxOps = 2
    MaxFds = 1
    MaxCalls = 3
    Database = {d1, d2}
    Thread = {t1, t2}
    Property = {"a", "b"}
    Insert <- MCInsert
    MaxWrites = 2
    MaxTransactions = 2
    MaxFrames = 2
INVARIANTS
    HooksBracketTests
    InstalledClosed
    PathsAgree
    BundleRunsOnce
    OwnersExact
    TransactionsAtomic
PROPERTIES
    AwaitedDataRead
