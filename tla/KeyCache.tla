----------------------------- MODULE KeyCache -----------------------------
(***************************************************************************)
(* The session-key cache of one BLE consumer (key_cache.c): a fixed array  *)
(* of slots and a shortcut to the slot that answered last.  One operator   *)
(* per function; each function holds xMutexCacheAccess from its first read *)
(* to its last write, so each operator is one atomic step of its caller.   *)
(*                                                                         *)
(* A slot is free exactly when its key_id is 0: the code has no other      *)
(* marker.  Key identifiers are uint8_t here, although the 14-bit session  *)
(* identifier of a PDU is what every caller passes; the callers' modules   *)
(* apply that conversion (Id8).                                            *)
(*                                                                         *)
(* The time stamps that choose the victim of an eviction are the business  *)
(* of KeyCacheLru, which extends this module.                              *)
(***************************************************************************)
EXTENDS ArrayScan

CONSTANTS KEY_CACHE_SIZE,   \* slots of a cache; 5 in ble_consumer.h
          ZeroKey           \* the sixteen zero bytes memset leaves in a slot

ASSUME CacheSizeAssumption == KEY_CACHE_SIZE \in Nat \ {0}

Slot == 0 .. KEY_CACHE_SIZE - 1

KeyId8 == 0 .. 255

FREE == 0

\* What a uint16_t session identifier becomes when it is passed as uint8_t.
Id8(key_id) == key_id % 256

ZeroSlot == [key_id |-> FREE, key |-> ZeroKey]

\* key_cache and key_cache_map, for keys taken from a set Key.
CacheType(Key) == [map : [Slot -> [key_id : KeyId8, key : Key]],
                   last_key_id_used : KeyId8 \cup {-1},
                   last_key_index_in_map : Slot \cup {-1}]

EmptyCache == [map |-> [i \in Slot |-> ZeroSlot],
               last_key_id_used |-> -1,
               last_key_index_in_map |-> -1]

FreeSlot(c) == FirstOf({i \in Slot : c.map[i].key_id = FREE})

\* The slot get_key_from_cache and is_key_in_cache find, or -1: the
\* shortcut first, a scan otherwise.
LookupIndex(c, id) ==
    IF id = c.last_key_id_used /\ c.last_key_index_in_map >= 0
    THEN c.last_key_index_in_map
    ELSE FirstOf({i \in Slot : c.map[i].key_id = id})

IsKeyInCache(c, id) == LookupIndex(c, id) # -1

GetKey(c, id) == c.map[LookupIndex(c, id)].key

\* The cache after get_key_from_cache: a hit moves the shortcut.
AfterGet(c, id) ==
    IF IsKeyInCache(c, id)
    THEN [c EXCEPT !.last_key_id_used = id,
                   !.last_key_index_in_map = LookupIndex(c, id)]
    ELSE c

AddStatus(c, id) == IF FreeSlot(c) < 0 THEN -1 ELSE 0

\* add_key_to_cache writes the first free slot.  Its loop skips that slot
\* when it looks for a slot that already holds the identifier.
TakesSlot(c, id) ==
    /\ FreeSlot(c) >= 0
    /\ \A j \in Slot \ {FreeSlot(c)} : c.map[j].key_id # id

\* The cache after add_key_to_cache.
AddKeyToCache(c, key, id) ==
    LET i == FreeSlot(c)
        shortcut == c.last_key_id_used = -1 /\ c.last_key_index_in_map = -1
    IN  IF ~ TakesSlot(c, id)
        THEN c
        ELSE [map |-> [c.map EXCEPT ![i] = [key_id |-> id, key |-> key]],
              last_key_id_used |-> IF shortcut THEN id ELSE c.last_key_id_used,
              last_key_index_in_map |->
                  IF shortcut THEN i ELSE c.last_key_index_in_map]

\* A removal that forgets the shortcut.
RemoveAt_KeepShortcut(c, i) == [c EXCEPT !.map[i] = ZeroSlot]

\* A removal that marks the slot with -1, the marker of the shortcut.
RemoveAt_WrongMarker(c, i) ==
    [c EXCEPT !.map[i] = [key_id |-> -1, key |-> ZeroKey]]

\* The cache after remove_key_from_cache_at_index.
RemoveAt(c, i) ==
    LET forget == c.map[i].key_id = c.last_key_id_used
    IN  [map |-> [c.map EXCEPT ![i] = ZeroSlot],
         last_key_id_used |-> IF forget THEN -1 ELSE c.last_key_id_used,
         last_key_index_in_map |->
             IF forget THEN -1 ELSE c.last_key_index_in_map]

\* clear_cache removes every index in turn; one of them is the shortcut's
\* unless the identifier the shortcut names is in no slot.
ClearCache(c) ==
    LET forget == \E i \in Slot : c.map[i].key_id = c.last_key_id_used
    IN  [map |-> [i \in Slot |-> ZeroSlot],
         last_key_id_used |-> IF forget THEN -1 ELSE c.last_key_id_used,
         last_key_index_in_map |->
             IF forget THEN -1 ELSE c.last_key_index_in_map]
===========================================================================
