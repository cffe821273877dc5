CONSTANTS
    a1 = a1
    a2 = a2
    a3 = a3
    fast = fast
    slow = slow
    other = other
    g1 = g1
    g2 = g2
    Nil = Nil
    Ases <- MCAses
    Paths <- MCPaths
    Ends <- MCEnds
    Ticks <- MCTicks
    MaxSets = 2
SPECIFICATION FairSpec
INVARIANT ShownBelongsToSession
INVARIANT OneTickAtATime
PROPERTY KeepsView
PROPERTY SessionAnswered
