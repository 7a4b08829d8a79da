CONSTANTS
    \* calls and coroutines
    Main = main
    Cos = {co, co2}
    Vars = {v, w}
    MaxCCalls = 4
    ErrCCalls = 6
    MaxDepth <- Depth34
    MaxLevel = 6
    \* generations
    Collect <- Collected
    GenTypes <- TypesUsed
    AtStart = 1
    Finalizable = {2}
    Work = {100}
    Modes = {"minor"}
    MaxLive = 2
SYMMETRY Symmetry
VIEW PartsView
SPECIFICATION PartsSpec
INVARIANTS ClosedExactlyOnce YieldReachesResume NCcallsExact FramesSound CStackBounded GenerationsSound
PROPERTIES ErrorReachesInnermostPcall ImplementsLife FinalizersKept
