CONSTANTS
    Size = 2
    CounterMod = 10
    MaxNodes = 9
    MaxRefs = 3
    Objects = 2
    Slots = 2
    Bounds <- MCBounds
SPECIFICATION ProcessSpec
INVARIANTS HandlesUnique SlotsOwned StaleAreaIsFar EndsAtBounds
PROPERTIES HandlesStable
CHECK_DEADLOCK FALSE
