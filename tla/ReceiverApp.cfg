\* The two senders the receiver waits for, one of them restarted.
SPECIFICATION FairSpec
CONSTANTS
    NoData = NoData
    MAX_GAP_DATA_LEN = 31
    zero_mac = zero_mac
    a = a
    b = b
    d = d
    Sender = {a, b}
    MAX_TEST_CONSUMERS = 2
    MaxPackets = 2
    SENDERS_NUMBER = 2
    MaxRestarts = 1
INVARIANTS
    TypeOK
    EndsOnlyAfterAll
    MeasuredOnce
    OneRowPerSender
PROPERTIES
    TestEnds
