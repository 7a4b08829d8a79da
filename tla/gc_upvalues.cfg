CONSTANTS
    Main = main
    Coroutines = {th}
    Tables = {reg}
    Closures = {c1}
    UpVals = {u1}
    Strings = {}
    Registry = reg
    Closed = closed
    MaxStack <- OneInCoroutine
    MaxFields <- NoGlobals
    RootTables = {}
    Finalizable = {}
    FullGCs = {}
VIEW View
SPECIFICATION Spec
INVARIANTS GCInv
