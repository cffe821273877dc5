CONSTANTS
    Slots <- MCSlots
    Requests = {r1, r2, r3}
    Careful = TRUE
    Clients = {c1, c2}
    MaxHits = 2
    Window = 2
SPECIFICATION CSpec
INVARIANT NoSlotTwice
INVARIANT AnsweredIsOnDisk
INVARIANT WindowIsKept
PROPERTY BurnedStaysBurned
