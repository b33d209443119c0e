SPECIFICATION FairSpec
CONSTANTS
    a = a
    b = b
    d = d
    NoAddress = NoAddress
    Sender = {a}
    Air <- ThreePdus
    MAX_BLE_CONSUMERS = 2
    CONSUMER_PRIVATE_QUEUE_SIZE = 3
    MAX_PDU_PROCESS_PER_CONSUMER = 2
    NO_PDU_IN_QUEUE_FOR_PROCESS = 2
PROPERTIES
    RemainingProcessed
CHECK_DEADLOCK FALSE
