CONSTANTS
    shaped = shaped
    nominal = nominal
    r1 = r1
    r2 = r2
    ASes <- MCASes
    Links <- MCLinks
    AsOf <- MCAsOf
    Shapings <- MCShapings
    Nominal = nominal
    Requests <- MCRequests
    Asked <- MCAsked
    MaxLate = 1
    Reports <- MCReports
    Dst = 1
    MaxMoves = 2
SPECIFICATION Spec
INVARIANT ControlTypeOK
INVARIANT ShownWasTrue
INVARIANT BadgeIsAgreed
INVARIANT PathIsRouted
PROPERTY HalfIsNamed
PROPERTY Answered
PROPERTY SettledIsShown
