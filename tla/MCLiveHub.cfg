CONSTANTS
    c = c
    d = d
    Conns <- MCConns
SPECIFICATION FairSpec
INVARIANT RegisteredIsGreeted
INVARIANT NoFrameMissed
INVARIANT PollsInOrder
PROPERTY PageComesBack
PROPERTY BrokenLeaves
PROPERTY PollsGoOn
