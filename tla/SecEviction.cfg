SPECIFICATION Spec
CONSTANTS
    a = a
    b = b
    d = d
    a1 = a1
    a2 = a2
    a3 = a3
    b1 = b1
    d1 = d1
    NoAddress = NoAddress
    NoFragment = NoFragment
    ZeroKey = ZeroKey
    Sender = {a}
    Session = {a1, a2, a3}
    SessionKeyId <- FreeLookingIds
    Traffic <- ThreeSessions
    KEY_CACHE_SIZE = 1
    COLLECTION_SIZE = 2
    NUM_FRAGMENTS = 2
    MAX_BLE_CONSUMERS = 1
    MAX_PROCESSING_QUEUE_ELEMENTS = 2
    MAX_PROCESSED_PDUS_AT_ONCE = 2
    DEFERRED_QUEUE_SIZE = 2
    MAX_ELEMENTS_IN_QUEUE = 2
    MAX_KEY_PROCESSES_AT_ONCE = 3
    MAX_RETRIES = 2
INVARIANTS
    QueueCounts
    KeyedPduRequested
    KeysDoNotMix
    CollectionConsistent
CHECK_DEADLOCK FALSE
