--------------------------- MODULE KeyManagement ---------------------------
(***************************************************************************)
(* The collection of keys under reconstruction (key_management.c): an      *)
(* array of entries, each with the fragments of one key of one sender      *)
(* decrypted so far.  One operator per function; each function holds the   *)
(* collection's mutex throughout.                                          *)
(*                                                                         *)
(* An entry is free exactly when its key_id is 0.  add_new_key writes the  *)
(* identifier and the address and leaves the fragments, their flags and    *)
(* their count as it finds them: they are zero because calloc and          *)
(* remove_key_from_collection leave whole entries zero, except in an entry *)
(* taken by a session whose identifier is 0 modulo 256, which looks free.  *)
(*                                                                         *)
(* The value of a fragment is abstract: the session whose key it is a part *)
(* of, so that a reconstructed key shows which sessions it is made of.     *)
(***************************************************************************)
EXTENDS ArrayScan

CONSTANTS COLLECTION_SIZE,   \* entries: MAX_BLE_CONSUMERS * 10 in the code
          NUM_FRAGMENTS,     \* fragments of a key: 4 in the code
          NoFragment,        \* the zero bytes of a fragment not yet stored
          NoAddress          \* the all-zero MAC address of a zeroed entry

ASSUME CollectionAssumption == /\ COLLECTION_SIZE \in Nat \ {0}
                               /\ NUM_FRAGMENTS \in Nat \ {0}

Entry == 0 .. COLLECTION_SIZE - 1

Fragment == 0 .. NUM_FRAGMENTS - 1

\* key_management, for addresses from Mac and fragments from Value.
EntryType(Mac, Value) ==
    [key_id : 0 .. 255,
     consumer_mac_address : Mac \cup {NoAddress},
     key_fragments : [Fragment -> Value \cup {NoFragment}],
     decrypted_key_fragments : [Fragment -> BOOLEAN],
     no_collected_key_fragments : Nat]

ZeroEntry == [key_id |-> 0,
              consumer_mac_address |-> NoAddress,
              key_fragments |-> [f \in Fragment |-> NoFragment],
              decrypted_key_fragments |-> [f \in Fragment |-> FALSE],
              no_collected_key_fragments |-> 0]

NewKeyCollection == [e \in Entry |-> ZeroEntry]

\* get_key_index_in_collection.
KeyIndex(km, mac, id) ==
    FirstOf({e \in Entry : /\ km[e].key_id = id
                           /\ km[e].consumer_mac_address = mac})

IsKeyInCollection(km, mac, id) == KeyIndex(km, mac, id) >= 0

\* add_new_key_to_collection: no effect when no entry looks free.
AddNewKey(km, mac, id) ==
    LET e == FirstOf({x \in Entry : km[x].key_id = 0})
    IN  IF e < 0
        THEN km
        ELSE [km EXCEPT ![e] = [@ EXCEPT !.key_id = id,
                                         !.consumer_mac_address = mac]]

IsKeyFragmentDecrypted(km, mac, id, fragment) ==
    /\ IsKeyInCollection(km, mac, id)
    /\ km[KeyIndex(km, mac, id)].decrypted_key_fragments[fragment]

\* A store that counts before it looks for the entry's flag.
AddFragment_NoFlag(km, mac, id, fragment, value) ==
    LET e == KeyIndex(km, mac, id)
    IN  IF e < 0
        THEN km
        ELSE [km EXCEPT ![e] = [km[e] EXCEPT
                  !.key_fragments[fragment] = value,
                  !.no_collected_key_fragments = @ + 1]]

\* add_fragment_to_key_management.
AddFragment(km, mac, id, fragment, value) ==
    LET e == KeyIndex(km, mac, id)
    IN  IF e < 0
        THEN km
        ELSE [km EXCEPT ![e] = [km[e] EXCEPT
                  !.key_fragments[fragment] = value,
                  !.decrypted_key_fragments[fragment] = TRUE,
                  !.no_collected_key_fragments = @ + 1]]

\* A test that is satisfied one fragment early.
IsKeyAvailable_OneEarly(km, mac, id) ==
    /\ IsKeyInCollection(km, mac, id)
    /\ km[KeyIndex(km, mac, id)].no_collected_key_fragments
           = NUM_FRAGMENTS - 1

IsKeyAvailable(km, mac, id) ==
    /\ IsKeyInCollection(km, mac, id)
    /\ km[KeyIndex(km, mac, id)].no_collected_key_fragments = NUM_FRAGMENTS

\* reconstruct_key_from_key_fragments.
ReconstructKey(km, mac, id) == km[KeyIndex(km, mac, id)].key_fragments

\* A removal that frees the entry and keeps what it collected.
RemoveKey_KeepFragments(km, mac, id) ==
    LET e == KeyIndex(km, mac, id)
    IN  IF e < 0 THEN km ELSE [km EXCEPT ![e].key_id = 0]

\* remove_key_from_collection.
RemoveKey(km, mac, id) ==
    LET e == KeyIndex(km, mac, id)
    IN  IF e < 0 THEN km ELSE [km EXCEPT ![e] = ZeroEntry]
============================================================================
