CONSTANTS
    Slots <- MCSlots
    Requests = {r1, r2}
    Careful = FALSE
SPECIFICATION Spec
INVARIANT NoSlotTwice
