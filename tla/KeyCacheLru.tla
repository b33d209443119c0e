---------------------------- MODULE KeyCacheLru ----------------------------
(***************************************************************************)
(* The cache of one consumer together with the time stamps that choose the *)
(* victim of an eviction (key_cache.c over tick_count_timestamp.c).        *)
(*                                                                         *)
(* A stamp is a tick count and a rollover counter, compared as             *)
(* rollover << 32 | ticks.  create_key_cache takes the map from malloc and *)
(* reset_timestamp assigns its own parameters only, so both fields of a    *)
(* stamp hold whatever the heap held until save_timestamp first writes     *)
(* them, and keep their old values when a slot is emptied.                 *)
(*                                                                         *)
(* Two tasks share the cache.  The processing task gets keys; the          *)
(* reconstruction task, of lower priority, adds one in up to four holds of *)
(* the mutex: add, find the least recently used slot, empty it, add again. *)
(* It may be preempted between any two of them, so gets fall in between.   *)
(*                                                                         *)
(* lastUse and reused are history variables, read by the properties alone: *)
(* the tick of each slot's last use, counted since boot without wrapping,  *)
(* and whether the chosen slot was used since it was chosen.               *)
(***************************************************************************)
EXTENDS KeyCache

CONSTANTS Ids,             \* session identifiers modulo 256 that are used
          HeapStamp,       \* the stamps malloc may hand out
          TICK_MODULUS,    \* 2^32 in the code: xTaskGetTickCount wraps
          ROLLOVER_MODULUS,\* 2^8 in the code
          NoKey,           \* NULL: get_key_from_cache has no key
          MaxTicks         \* bound on the ticks of one behaviour

Stamp == [ticks : Nat, rollover : Nat]

ASSUME LruAssumption == /\ Ids \subseteq KeyId8
                        /\ HeapStamp \subseteq Stamp
                        /\ TICK_MODULUS \in Nat \ {0}
                        /\ ROLLOVER_MODULUS \in Nat \ {0}
                        /\ MaxTicks \in Nat

VARIABLES cache,    \* the array and the shortcut
          stamp,    \* last_used_timestamp and rollover of each slot
          elapsed,  \* ticks since boot, never wrapped
          recPc,    \* the reconstruction task in key_reconstruction_complete
          key_id,   \* its local: the identifier of the key it adds
          lru_index,\* local of remove_lru_key_from_cache: the slot it chose
          answer,   \* history: the last get_key_from_cache, argument and result
          lastUse,  \* history: the ticks since boot of each slot's last use
          reused    \* history: lru_index was used since it was chosen

recVars == <<recPc, key_id, lru_index>>

vars == <<cache, stamp, elapsed, answer, lastUse, reused, recVars>>

tick == elapsed % TICK_MODULUS

SaveTimestamp(s) ==
    [ticks |-> tick,
     rollover |-> IF tick < s.ticks THEN (s.rollover + 1) % ROLLOVER_MODULUS
                                    ELSE s.rollover]

Before(s, t) == \/ s.rollover < t.rollover
                \/ s.rollover = t.rollover /\ s.ticks < t.ticks

Occupied(c) == {i \in Slot : c.map[i].key_id # FREE}

\* The first occupied slot with the smallest stamp, or -1.
LruIndex(c, st) ==
    FirstOf({i \in Occupied(c) : \A j \in Occupied(c) : ~ Before(st[j], st[i])})

Init == /\ cache = EmptyCache
        /\ stamp \in [Slot -> HeapStamp]
        /\ elapsed = 0
        /\ recPc = "wait" /\ key_id = FREE /\ lru_index = -1
        /\ answer = [id |-> FREE, key |-> NoKey]
        /\ lastUse = [i \in Slot |-> 0]
        /\ reused = FALSE

\* A slot is used now.
Stamped(i) == /\ stamp' = [stamp EXCEPT ![i] = SaveTimestamp(@)]
              /\ lastUse' = [lastUse EXCEPT ![i] = elapsed]
              /\ reused' = (reused \/ i = lru_index)

\* A get that does not stamp the slot it finds.
GetKeyFromCache_NoStamp(id) ==
    LET i == LookupIndex(cache, id)
    IN  /\ cache' = AfterGet(cache, id)
        /\ answer' = [id |-> id,
                      key |-> IF i < 0 THEN NoKey ELSE GetKey(cache, id)]
        /\ IF i < 0 THEN UNCHANGED <<lastUse, reused>>
           ELSE /\ lastUse' = [lastUse EXCEPT ![i] = elapsed]
                /\ reused' = (reused \/ i = lru_index)
        /\ UNCHANGED <<stamp, elapsed, recVars>>

\* get_key_from_cache: a hit moves the shortcut and stamps the slot.
GetKeyFromCache(id) ==
    LET i == LookupIndex(cache, id)
    IN  /\ cache' = AfterGet(cache, id)
        /\ answer' = [id |-> id,
                      key |-> IF i < 0 THEN NoKey ELSE GetKey(cache, id)]
        /\ IF i < 0 THEN UNCHANGED <<stamp, lastUse, reused>> ELSE Stamped(i)
        /\ UNCHANGED <<elapsed, recVars>>

\* key_reconstruction_complete goes on only if the key is not there yet.
KeyReconstructionComplete(id) ==
    /\ recPc = "wait"
    /\ ~ IsKeyInCache(cache, id)
    /\ recPc' = "add"
    /\ key_id' = id
    /\ UNCHANGED <<cache, stamp, elapsed, answer, lastUse, reused, lru_index>>

\* An eviction when the key was added, as update_key_in_cache tests it.
AddNewKey_WrongStatus ==
    /\ recPc \in {"add", "addAgain"}
    /\ cache' = AddKeyToCache(cache, key_id, key_id)
    /\ IF TakesSlot(cache, key_id) THEN Stamped(FreeSlot(cache))
                                   ELSE UNCHANGED <<stamp, lastUse, reused>>
    /\ recPc' = IF recPc = "add" /\ AddStatus(cache, key_id) # -1
                THEN "find" ELSE "wait"
    /\ key_id' = IF recPc' = "wait" THEN FREE ELSE key_id
    /\ UNCHANGED <<elapsed, answer, lru_index>>

\* add_key_to_cache, called once or, when it first finds no slot, twice.
AddNewKey ==
    /\ recPc \in {"add", "addAgain"}
    /\ cache' = AddKeyToCache(cache, key_id, key_id)
    /\ IF TakesSlot(cache, key_id) THEN Stamped(FreeSlot(cache))
                                   ELSE UNCHANGED <<stamp, lastUse, reused>>
    /\ recPc' = IF recPc = "add" /\ AddStatus(cache, key_id) = -1
                THEN "find" ELSE "wait"
    /\ key_id' = IF recPc' = "wait" THEN FREE ELSE key_id
    /\ UNCHANGED <<elapsed, answer, lru_index>>

\* remove_lru_key_from_cache takes the mutex to choose the slot ...
FindLruKey ==
    /\ recPc = "find"
    /\ lru_index' = LruIndex(cache, stamp)
    /\ reused' = FALSE
    /\ recPc' = "remove"
    /\ UNCHANGED <<cache, stamp, elapsed, answer, lastUse, key_id>>

\* ... and remove_key_from_cache_at_index takes it again to empty the slot.
RemoveLruKey ==
    /\ recPc = "remove"
    /\ cache' = IF lru_index >= 0 THEN RemoveAt(cache, lru_index) ELSE cache
    /\ lru_index' = -1
    /\ recPc' = "addAgain"
    /\ UNCHANGED <<stamp, elapsed, answer, lastUse, reused, key_id>>

Tick == /\ elapsed < MaxTicks
        /\ elapsed' = elapsed + 1
        /\ UNCHANGED <<cache, stamp, answer, lastUse, reused, recVars>>

Next == \/ \E id \in Ids : \/ GetKeyFromCache(id)
                           \/ KeyReconstructionComplete(id)
        \/ AddNewKey \/ FindLruKey \/ RemoveLruKey
        \/ Tick

Spec == Init /\ [][Next]_vars
----------------------------------------------------------------------------
TypeOK ==
    /\ cache \in [map : [Slot -> [key_id : Ids \cup {FREE},
                                  key : Ids \cup {ZeroKey}]],
                  last_key_id_used : Ids \cup {-1},
                  last_key_index_in_map : Slot \cup {-1}]
    /\ stamp \in [Slot -> Stamp]
    /\ elapsed \in 0 .. MaxTicks
    /\ recPc \in {"wait", "add", "find", "remove", "addAgain"}
    /\ key_id \in Ids \cup {FREE}
    /\ lru_index \in Slot \cup {-1}
    /\ lastUse \in [Slot -> 0 .. MaxTicks]
    /\ reused \in BOOLEAN
    /\ answer \in [id : Ids \cup {FREE}, key : Ids \cup {ZeroKey, NoKey}]

\* A lookup of a session identifier other than the free marker answers with
\* the key that was added under that identifier, whether the shortcut or
\* the scan finds it: the shortcut survives evictions and additions without
\* going stale (key_cache.c:216-222 against 315-319).
LookupReturnsOwnKey ==
    \A id \in Ids \ {FREE} :
        IsKeyInCache(cache, id) =>
            cache.map[LookupIndex(cache, id)] = [key_id |-> id, key |-> id]

\* The slot about to be emptied holds a key, and no key was used longer ago
\* (docs/baza_danych_aktywnych_nadawców.plantuml:12), unless it was itself
\* used after it was chosen, when remove_lru_key_from_cache had given the
\* mutex back (key_cache.c:353).  Slots last used in the same tick are
\* equally old.  Only stamps with the same roll-over byte tell the age: it
\* starts as what malloc left there; and no stamp does once the 32-bit tick
\* count has wrapped, since each slot counts wraps on its own.
EvictsOldestKey ==
    recPc = "remove" =>
        /\ lru_index \in Occupied(cache)
        /\ elapsed < TICK_MODULUS =>
               \A i \in Occupied(cache) :
                   stamp[i].rollover = stamp[lru_index].rollover =>
                       lastUse[lru_index] <= lastUse[i] \/ reused

\* The keys of the occupied slots of a cache, as a store.
StoredIds(c) == {c.map[i].key_id : i \in Occupied(c)}

StoredKeys(c) == [id \in StoredIds(c) |->
                     c.map[CHOOSE i \in Occupied(c) :
                               c.map[i].key_id = id].key]

Store == INSTANCE KeyStore WITH
             Id <- Ids, Reserved <- FREE, Key <- Ids \cup {ZeroKey},
             Size <- KEY_CACHE_SIZE, store <- StoredKeys(cache),
             wanted <- IF recPc = "wait" THEN {} ELSE {key_id}

\* The array, the shortcut, the stamps and the two tasks' holds of the mutex
\* amount to a store of KEY_CACHE_SIZE keys that answers right between any
\* two of them, and that gives up a key only when it is full and another is
\* to be put in, one for each (sec_pdu_processing.c:364-386).
ImplementsKeyStore == Store!StoreSpec
============================================================================
