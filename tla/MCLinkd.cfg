CONSTANTS
    h1 = h1
    h2 = h2
    t1 = t1
    t2 = t2
    i1 = i1
    i2 = i2
    Callers <- MCHandlers
    Timers <- MCTimers
    Window = 3
    Ifaces <- TwoIfaces
    Handlers <- MCHandlers
    Legal <- MCLegal
    Kept <- MCKept
    Baseline <- MCBaseline
    Updates <- MCUpdates
    MaxUnits = 4
SPECIFICATION Spec
INVARIANT NoLostCall
INVARIANT InvalidOnlyIfCut
PROPERTY AtMostTwoPerWindow
PROPERTY KeepsContract
