SPECIFICATION Spec
CONSTANTS
    e = e
    a = a
    b = b
    Module = {e, a, b}
    Entry = e
    Programs <- AllPrograms
    MaxLoads = 5
INVARIANTS
    OneInstance
    LateImportersGetFinal
    SyncPartialsAreCycles
PROPERTIES
    ImportsSettle
