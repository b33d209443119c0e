SPECIFICATION Spec
CONSTANTS
    KEY_CACHE_SIZE = 2
    ZeroKey = ZeroKey
    NoKey = NoKey
    Ids = {0, 1, 2, 3}
    HeapStamp <- UsedHeap
    TICK_MODULUS = 3
    ROLLOVER_MODULUS = 2
    MaxTicks = 4
INVARIANTS
    TypeOK
    LookupReturnsOwnKey
    EvictsOldestKey
PROPERTIES
    ImplementsKeyStore
CHECK_DEADLOCK FALSE
