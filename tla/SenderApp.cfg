\* Both programs; a key fragment for each data PDU, a new key every nine PDUs,
\* and three sessions.
SPECIFICATION FairSpec
CONSTANTS
    NoData = NoData
    StartPdu = StartPdu
    EndPdu = EndPdu
    MAX_GAP_DATA_LEN = 31
    RandomIds = {0, 1, 9000}
    TEST_NO_PACKETS_TO_KEY_REPLACE = 9
    Apps = {"1st", "2nd"}
    NO_PACKET_TO_SEND = 19
    PDU_TO_KEY_FRAGMENT_RATIO = 1
    TEST_ADV_INTERVAL = 550
    TEST_PAYLOAD_BYTES_LEN = 10
INVARIANTS
    TypeOK
    ControllerFollowsStack
    IntervalFollowsKey
    SessionPduOnAir
PROPERTIES
    SessionGivesWholeKey
    EndOnAir
