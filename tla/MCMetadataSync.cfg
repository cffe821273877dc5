CONSTANTS
    i1 = i1
    i2 = i2
    h1 = h1
    h2 = h2
    t1 = t1
    t2 = t2
    main = main
    Ifaces <- TwoIfaces
    Handlers <- OneHandler
    Callers <- OneHandler
    Timers <- OneTimer
    Main = main
    Legal <- MCLegal
    Kept <- MCKept
    MaxUnits = 1
    Baseline <- MCBaseline
    Updates <- SetRate
    Writers <- BothServices
    Shows <- MCShows
    Base <- MCBase
    Signalled <- None
    Window = 0
    MaxCrashes = 0
SPECIFICATION Spec
INVARIANT PublishedAtRest
