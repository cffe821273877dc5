CONSTANTS
    l = l
    Keys <- MCKeys
    Links <- MCLinks
    Reported <- MCReported
    Wires <- MCWires
    Declared <- MCDeclared
    Capacity = 2
    Unwritten = Unwritten
    Corrupt = Corrupt
    Careful = TRUE
SPECIFICATION DSpec
INVARIANT BaselineOutlives
INVARIANT ResetForgets
INVARIANT BandSettles
INVARIANT KpiMatchesMap
INVARIANT ShapedStaysShaped
PROPERTY BandIsSteady
PROPERTY KeepsTail
