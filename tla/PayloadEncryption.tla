------------------------- MODULE PayloadEncryption -------------------------
(***************************************************************************)
(* The key schedule of a sender (ble_security_payload_encryption.c): which *)
(* session a PDU belongs to, its number, and which fragment of the key it  *)
(* carries.                                                                *)
(*                                                                         *)
(* A key is the number of the session it was drawn for; the identifier is  *)
(* drawn apart from it and may repeat an earlier one.  Encryption, seeds   *)
(* and HMACs are left out.  encrypt_payload refuses a payload longer than  *)
(* MAX_PDU_PAYLOAD_SIZE; no configured size is, and the refusal is left    *)
(* out.  The module is a component without a client: SenderApp calls it    *)
(* from its timer call-back.                                               *)
(*                                                                         *)
(* given is a history variable, read by the properties alone.              *)
(***************************************************************************)
EXTENDS PduLayout

CONSTANTS
    RandomIds,                  \* what get_random_key_id may draw
    TEST_NO_PACKETS_TO_KEY_REPLACE  \* 200: key_replacement_packet_counter

ASSUME EncryptionAssumption ==
    /\ RandomIds \subseteq SessionId
    /\ TEST_NO_PACKETS_TO_KEY_REPLACE \in Nat \ {0}

VARIABLES
    key_id,                    \* identifier of the session
    pre_shared_key,            \* its key
    encrypted_packet_counter,  \* PDUs since the key was drawn
    key_fragment_no,           \* the fragment get_next_key_fragment gives next
    pdu,                       \* the PDU built last
    given                      \* history: fragments given out of the key

encryptionVars == <<key_id, pre_shared_key, encrypted_packet_counter,
                    key_fragment_no, pdu, given>>

FragmentNo == 0 .. 3

\* The PDUs of a sender; key is the one its payload is encrypted with, or
\* the one its fragment is of.
Pdu == [cmd : {"DATA_CMD", "KEY_FRAGMENT_CMD"}, key_session_data : Nat,
        pdu_no : Nat, key : Nat]

InitPayloadEncryption ==
    /\ key_id \in RandomIds
    /\ pre_shared_key = 0
    /\ encrypted_packet_counter = 0
    /\ key_fragment_no = 0
    /\ pdu = [cmd |-> "DATA_CMD", key_session_data |-> 0, pdu_no |-> 0,
              key |-> 0]
    /\ given = {}

\* The next PDU is the first of a new session.
KeyReplacement ==
    (encrypted_packet_counter + 1) % TEST_NO_PACKETS_TO_KEY_REPLACE = 0

\* Both functions count the PDU and replace the key when it is due.
CountPdu ==
    IF KeyReplacement
    THEN /\ pre_shared_key' = pre_shared_key + 1
         /\ key_id' \in RandomIds
         /\ encrypted_packet_counter' = 0
    ELSE /\ encrypted_packet_counter' = encrypted_packet_counter + 1
         /\ UNCHANGED <<key_id, pre_shared_key>>

EncryptPayload ==
    /\ CountPdu
    /\ pdu' = [cmd |-> "DATA_CMD",
               key_session_data |-> ProduceKeySessionData(key_id', 0),
               pdu_no |-> encrypted_packet_counter',
               key |-> pre_shared_key']
    /\ given' = IF KeyReplacement THEN {} ELSE given
    /\ UNCHANGED key_fragment_no

\* A fragment counter that wraps one too early, and one too late.
NextKeyFragment_WrapsEarly(n) == IF n + 1 >= 3 THEN 0 ELSE n + 1
NextKeyFragment_WrapsLate(n) == IF n > 3 THEN 0 ELSE n + 1

NextKeyFragment(n) == IF n + 1 > 3 THEN 0 ELSE n + 1

\* The fragments are given out in turn, across the change of the key.
GetKeyFragmentPdu ==
    /\ CountPdu
    /\ pdu' = [cmd |-> "KEY_FRAGMENT_CMD",
               key_session_data |->
                   ProduceKeySessionData(key_id', key_fragment_no),
               pdu_no |-> encrypted_packet_counter',
               key |-> pre_shared_key']
    /\ given' = (IF KeyReplacement THEN {} ELSE given) \cup {key_fragment_no}
    /\ key_fragment_no' = NextKeyFragment(key_fragment_no)
----------------------------------------------------------------------------
EncryptionTypeOK ==
    /\ key_id \in SessionId
    /\ pre_shared_key \in Nat
    /\ encrypted_packet_counter \in 0 .. TEST_NO_PACKETS_TO_KEY_REPLACE - 1
    /\ key_fragment_no \in FragmentNo
    /\ pdu \in Pdu
    /\ given \subseteq FragmentNo
============================================================================
