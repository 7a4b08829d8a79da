CONSTANTS
    Main = main
    Coroutines = {}
    Tables = {reg, t1, t2}
    Closures = {}
    UpVals = {}
    Strings = {}
    Registry = reg
    Closed = closed
    MaxStack <- TwoSlots
    MaxFields <- OneField
    RootTables = {}
    Finalizable = {t1, t2}
    FullGCs = {TRUE, FALSE}
SYMMETRY Symmetry
VIEW View
SPECIFICATION Spec
INVARIANTS TriColor NoDangling NothingBlackAfterSweep
PROPERTIES FinalizeOnlyGarbage FullGCIsPrecise
