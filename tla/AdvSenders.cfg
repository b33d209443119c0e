SPECIFICATION Spec
CONSTANTS
    a = a
    b = b
    d = d
    NoAddress = NoAddress
    Sender = {a, b, d}
    Air <- ThreeSenders
    MAX_BLE_CONSUMERS = 2
    CONSUMER_PRIVATE_QUEUE_SIZE = 3
    MAX_PDU_PROCESS_PER_CONSUMER = 2
    NO_PDU_IN_QUEUE_FOR_PROCESS = 2
INVARIANTS
    TypeOK
    SleepBound
    PassedOnOnce
    OwnQueue
    BatchesInvisible
CHECK_DEADLOCK FALSE
