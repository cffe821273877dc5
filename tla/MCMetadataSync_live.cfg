CONSTANTS
    i1 = i1
    i2 = i2
    h1 = h1
    h2 = h2
    t1 = t1
    t2 = t2
    main = main
    Ifaces <- OneIface
    Handlers <- OneHandler
    Callers <- OneHandler
    Timers <- OneTimer
    Main = main
    Legal <- MCLegal
    Kept <- MCKept
    MaxUnits = 1
    Baseline <- MCBaseline
    Updates <- DelayUpdates
    Writers <- ControlService
    Shows <- MCShows
    Base <- MCBase
    Signalled <- CS
    Window = 0
    MaxCrashes = 1
SPECIFICATION FairSpec
INVARIANT NoChangeForgotten
INVARIANT ServiceCurrent
PROPERTY EveryChangeSeen
