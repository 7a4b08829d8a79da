CONSTANTS
    Main = main
    Coroutines = {}
    Tables = {reg, t1}
    Closures = {}
    UpVals = {}
    Strings = {}
    Registry = reg
    Closed = closed
    MaxStack <- TwoSlots
    MaxFields <- OneField
    RootTables = {reg, t1}
    Finalizable = {t1}
    FullGCs = {FALSE}
SPECIFICATION FairSpec
PROPERTIES GarbageIsFreed
