SPECIFICATION LiveSpec
CONSTANTS
    c1 = c1
    c2 = c2
    c3 = c3
    p1 = p1
    p2 = p2
    p3 = p3
    gpu = gpu
    cpu = cpu
    Cmd = {c1, c2, c3}
    Product = {p1, p2, p3}
    Slot = {gpu, cpu}
    SlotOf <- Slots
    Asked <- Commands
    None = None
    MaxQuantity = 3
    MaxMoves = 2
INVARIANTS
    AdapterTypeOK
    ActionIsExclusive
PROPERTIES
    OkIsExact
    RefusalIsHarmless
    EveryActionEnds
CHECK_DEADLOCK FALSE
