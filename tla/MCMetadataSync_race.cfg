CONSTANTS
    i1 = i1
    i2 = i2
    h1 = h1
    h2 = h2
    t1 = t1
    t2 = t2
    main = main
    Ifaces <- OneIface
    Handlers <- TwoHandlers
    Callers <- TwoHandlers
    Timers <- OneTimer
    Main = main
    Legal <- MCLegal
    Kept <- MCKept
    MaxUnits = 1
    Baseline <- NoBaseline
    Updates <- DelayUpdates
    Writers <- ControlService
    Shows <- MCShows
    Base <- MCBase
    Signalled <- CS
    Window = 0
    MaxCrashes = 0
SPECIFICATION Spec
INVARIANT PublishedAtRestDespiteRaces
