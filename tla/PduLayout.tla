----------------------------- MODULE PduLayout -----------------------------
(***************************************************************************)
(* The numbers inside a PDU (beacon_pdu_data.c): a session identifier of   *)
(* fourteen bits and the number of a key fragment share one 16-bit word,   *)
(* and lengths are what is left of the advertisement.                      *)
(***************************************************************************)
EXTENDS Integers

KEY_ID_BITS == 16384      \* 2^14

SessionId == 0 .. KEY_ID_BITS - 1

\* produce_key_session_data: 0 for a fragment number out of range.
ProduceKeySessionData(key_id, key_fragment) ==
    IF key_fragment > 3 THEN 0
    ELSE key_fragment * KEY_ID_BITS + (key_id % KEY_ID_BITS)

\* get_key_id_from_key_session_data
GetKeyId(session_data) == session_data % KEY_ID_BITS

\* get_key_fragment_index_from_key_session_data
GetKeyFragmentIndex(session_data) == (session_data \div KEY_ID_BITS) % 4

\* marker (3), command (1), number (2), session (2) and seed (1)
HEADER_SIZE == 9

\* get_beacon_pdu_data_len
GetBeaconPduDataLen(payload_size) == HEADER_SIZE + payload_size

\* get_payload_size_from_pdu
GetPayloadSizeFromPdu(total_pdu_len) == total_pdu_len - HEADER_SIZE

\* get_beacon_key_pdu_data_len: marker, command, number, session, fragment
\* (4), seed and HMAC (4)
KEY_PDU_SIZE == 17
============================================================================
