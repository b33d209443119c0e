\* The first program.
SPECIFICATION FairSpec
CONSTANTS
    NoData = NoData
    StartPdu = StartPdu
    EndPdu = EndPdu
    MAX_GAP_DATA_LEN = 31
    RandomIds = {1, 9000}
    TEST_NO_PACKETS_TO_KEY_REPLACE = 9
    Apps = {"1st"}
    NO_PACKET_TO_SEND = 3
    PDU_TO_KEY_FRAGMENT_RATIO = 1
    TEST_ADV_INTERVAL = 550
    TEST_PAYLOAD_BYTES_LEN = 10
PROPERTIES TestPduOnAir
