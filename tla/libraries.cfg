SPECIFICATION LibSpec
CONSTANTS
    Holds <- JobHolds
    Arguments <- PackArguments
    \* table.sort
    Values = {1, 2, 3, 4, 5, 6}
    AnyOrder = AnyOrder
    Inputs <- SortInputs
    RanLimit = 4
    Imbalance = 2
    \* stack
    BasicSize = 4
    MinStack = 2
    Extra = 5
    MaxStack = 8
    ErrorSpace = 7
    MaxDelta = 2
    FrameSizes = {2}
    Requests = {8}
    MaxFrames = 3
    MaxPush = 1
    MaxMarks = 2
    \* hooks and lines
    MaxIwthAbs = 4
    LimLineDiff = 3
    Functions <- HookFunctions
    Masks <- HookMasks
    BaseCount = 2
    MaxCalls = 2
    \* patterns
    MaxCaptures = 3
    MaxDepth = 20
    \* pack
    NB = 2
    SizeInt = 2
    SizeShort = 1
    SizeFloat = 2
    NativeAlign = 4
    MaxIntSize = 4
    MaxSize = 100
    \* chunks
    VarintBits = 3
    SizeInstruction = 2
    SizeCInt = 2
    SizeNumeral = 3
    MaxCInt = 63
    MaxObject = 127
    MaxShortString = 2
    \* tables
    MAXINTEGER = 5
    IntMax = 5
    StackSpace = 3
    Concatenable <- Strings_
    nil = nil
INVARIANTS IndicesInside StackSound HooksExact LinesSound PatternsAgree PackAgreesWithUnpack ChunksSurvive TablesAgree WeakTablesExact
PROPERTIES Terminates
CHECK_DEADLOCK FALSE
