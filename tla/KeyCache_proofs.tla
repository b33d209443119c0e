-------------------------- MODULE KeyCache_proofs --------------------------
(***************************************************************************)
(* What the operations of a session-key cache return and preserve, for a   *)
(* cache of any size that holds keys of any kind.                          *)
(***************************************************************************)
EXTENDS KeyCache, ArrayScan_proofs

\* A scan of the slots answers a slot or -1.
LEMMA SlotScan ==
    ASSUME NEW S \in SUBSET Slot
    PROVE  FirstOf(S) \in S \cup {-1} /\ (FirstOf(S) = -1 <=> S = {})
BY CacheSizeAssumption, FirstOfArray DEF Slot

LEMMA FreeSlotType ==
    ASSUME NEW c
    PROVE  /\ FreeSlot(c) \in Slot \cup {-1}
           /\ FreeSlot(c) >= 0 => c.map[FreeSlot(c)].key_id = FREE
<1>1. {i \in Slot : c.map[i].key_id = FREE} \in SUBSET Slot
  OBVIOUS
<1>2. FreeSlot(c) \in {i \in Slot : c.map[i].key_id = FREE} \cup {-1}
  BY <1>1, SlotScan DEF FreeSlot
<1> QED BY <1>2

\* A lookup answers a slot or -1; a slot that the scan found holds the
\* identifier.
LEMMA LookupType ==
    ASSUME NEW Key, NEW c \in CacheType(Key), NEW id
    PROVE  /\ LookupIndex(c, id) \in Slot \cup {-1}
           /\ IsKeyInCache(c, id) =>
                  \/ /\ id = c.last_key_id_used
                     /\ c.last_key_index_in_map >= 0
                     /\ LookupIndex(c, id) = c.last_key_index_in_map
                  \/ c.map[LookupIndex(c, id)].key_id = id
<1> DEFINE S == {i \in Slot : c.map[i].key_id = id}
<1>1. S \in SUBSET Slot
  OBVIOUS
<1>2. FirstOf(S) \in S \cup {-1}
  BY <1>1, SlotScan
<1>3. c.last_key_index_in_map \in Slot \cup {-1}
  BY DEF CacheType
<1>4. CASE id = c.last_key_id_used /\ c.last_key_index_in_map >= 0
  <2>1. LookupIndex(c, id) = c.last_key_index_in_map
    BY <1>4 DEF LookupIndex
  <2> QED BY <1>3, <1>4, <2>1
<1>5. CASE ~ (id = c.last_key_id_used /\ c.last_key_index_in_map >= 0)
  <2>1. LookupIndex(c, id) = FirstOf(S)
    BY <1>5 DEF LookupIndex
  <2> QED BY <1>2, <2>1 DEF IsKeyInCache
<1> QED BY <1>4, <1>5

\* A key that is found is one of the keys.
LEMMA GetKeyType ==
    ASSUME NEW Key, NEW c \in CacheType(Key), NEW id, IsKeyInCache(c, id)
    PROVE  GetKey(c, id) \in Key
<1>1. LookupIndex(c, id) \in Slot
  BY LookupType DEF IsKeyInCache
<1> QED BY <1>1 DEF GetKey, CacheType

\* Every operation keeps the type of the cache.
LEMMA EmptyCacheType ==
    ASSUME NEW Key, ZeroKey \in Key
    PROVE  EmptyCache \in CacheType(Key)
BY DEF EmptyCache, CacheType, ZeroSlot, KeyId8, FREE

LEMMA AfterGetType ==
    ASSUME NEW Key, NEW c \in CacheType(Key), NEW id \in KeyId8
    PROVE  AfterGet(c, id) \in CacheType(Key)
<1>1. LookupIndex(c, id) \in Slot \cup {-1}
  BY LookupType
<1> QED BY <1>1 DEF AfterGet, CacheType

LEMMA AddKeyToCacheType ==
    ASSUME NEW Key, NEW c \in CacheType(Key), NEW key \in Key,
           NEW id \in KeyId8
    PROVE  AddKeyToCache(c, key, id) \in CacheType(Key)
<1>1. FreeSlot(c) \in Slot \cup {-1}
  BY FreeSlotType
<1>2. -1 \notin Slot
  BY DEF Slot
<1> QED BY <1>1, <1>2 DEF AddKeyToCache, TakesSlot, CacheType, Slot

LEMMA RemoveAtType ==
    ASSUME NEW Key, ZeroKey \in Key, NEW c \in CacheType(Key), NEW i \in Slot
    PROVE  RemoveAt(c, i) \in CacheType(Key)
BY DEF RemoveAt, CacheType, ZeroSlot, KeyId8, FREE

LEMMA ClearCacheType ==
    ASSUME NEW Key, ZeroKey \in Key, NEW c \in CacheType(Key)
    PROVE  ClearCache(c) \in CacheType(Key)
BY DEF ClearCache, CacheType, ZeroSlot, KeyId8, FREE

----------------------------------------------------------------------------
\* The shortcut.

\* A shortcut that names an identifier points to a slot that holds it:
\* without this, a lookup could follow a shortcut left by an eviction.
OwnShortcut(c) ==
    c.last_key_index_in_map >= 0 /\ c.last_key_id_used # FREE =>
        c.map[c.last_key_index_in_map].key_id = c.last_key_id_used

\* The identifiers a cache holds a key for.
CachedIds(c) == {c.map[i].key_id : i \in Slot} \ {FREE}

\* With such a shortcut a lookup finds what is there, in its own slot.
LEMMA LookupFinds ==
    ASSUME NEW Key, NEW c \in CacheType(Key), OwnShortcut(c),
           NEW id, id # FREE
    PROVE  /\ IsKeyInCache(c, id) <=> id \in CachedIds(c)
           /\ IsKeyInCache(c, id) => /\ LookupIndex(c, id) \in Slot
                                     /\ c.map[LookupIndex(c, id)].key_id = id
<1> DEFINE S == {i \in Slot : c.map[i].key_id = id}
<1>1. FirstOf(S) \in S \cup {-1} /\ (FirstOf(S) = -1 <=> S = {})
  <2>1. S \in SUBSET Slot
    OBVIOUS
  <2> HIDE DEF S
  <2> QED BY <2>1, SlotScan
<1>2. id \in CachedIds(c) <=> S # {}
  BY DEF CachedIds
<1>3. c.last_key_index_in_map \in Slot \cup {-1} /\ -1 \notin Slot
  BY DEF CacheType, Slot
<1>4. CASE id = c.last_key_id_used /\ c.last_key_index_in_map >= 0
  <2>1. LookupIndex(c, id) = c.last_key_index_in_map
    BY <1>4 DEF LookupIndex
  <2>2. c.map[c.last_key_index_in_map].key_id = id
    BY <1>4 DEF OwnShortcut
  <2>3. c.last_key_index_in_map \in Slot
    BY <1>3, <1>4
  <2> QED BY <1>2, <1>3, <2>1, <2>2, <2>3 DEF IsKeyInCache
<1>5. CASE ~ (id = c.last_key_id_used /\ c.last_key_index_in_map >= 0)
  <2>1. LookupIndex(c, id) = FirstOf(S)
    BY <1>5 DEF LookupIndex
  <2> QED BY <1>1, <1>2, <1>3, <2>1 DEF IsKeyInCache
<1> QED BY <1>4, <1>5

\* A lookup moves the shortcut only to the slot it found, and keeps slots.
LEMMA AfterGetKeeps ==
    ASSUME NEW Key, NEW c \in CacheType(Key), OwnShortcut(c), NEW id
    PROVE  /\ AfterGet(c, id).map = c.map
           /\ OwnShortcut(AfterGet(c, id))
<1> DEFINE d == AfterGet(c, id)
<1>1. CASE IsKeyInCache(c, id)
  <2>1. /\ d.map = c.map /\ d.last_key_id_used = id
        /\ d.last_key_index_in_map = LookupIndex(c, id)
    BY <1>1 DEF AfterGet, CacheType
  <2>2. id # FREE => c.map[LookupIndex(c, id)].key_id = id
    BY <1>1, LookupFinds
  <2> QED BY <2>1, <2>2 DEF OwnShortcut
<1>2. CASE ~ IsKeyInCache(c, id)
  BY <1>2 DEF AfterGet
<1> QED BY <1>1, <1>2

\* A key is added to a free slot, which no shortcut points to.
LEMMA AddKeyKeeps ==
    ASSUME NEW Key, NEW c \in CacheType(Key), OwnShortcut(c), NEW key, NEW id
    PROVE  LET d == AddKeyToCache(c, key, id)
           IN  /\ OwnShortcut(d)
               /\ \/ d.map = c.map
                  \/ \E i \in Slot :
                         d.map = [c.map EXCEPT ![i] = [key_id |-> id,
                                                       key |-> key]]
               /\ FreeSlot(c) < 0 => d = c
<1> DEFINE d == AddKeyToCache(c, key, id)
           i == FreeSlot(c)
<1>1. CASE d = c
  BY <1>1
<1>2. CASE d # c
  <2>1. i \in Slot /\ c.map[i].key_id = FREE
    BY <1>2, FreeSlotType DEF AddKeyToCache, TakesSlot, Slot
  <2>2. d.map = [c.map EXCEPT ![i] = [key_id |-> id, key |-> key]]
    BY <1>2 DEF AddKeyToCache, TakesSlot
  <2>3. \/ d.last_key_id_used = id /\ d.last_key_index_in_map = i
        \/ /\ d.last_key_id_used = c.last_key_id_used
           /\ d.last_key_index_in_map = c.last_key_index_in_map
    BY <1>2 DEF AddKeyToCache, TakesSlot
  <2>4. i < 0 => d = c
    BY FreeSlotType DEF AddKeyToCache, TakesSlot, Slot
  <2> HIDE DEF d
  <2>5. OwnShortcut(d)
    BY <2>1, <2>2, <2>3 DEF OwnShortcut, CacheType
  <2> QED BY <2>1, <2>2, <2>4, <2>5 DEF d
<1> QED BY <1>1, <1>2

\* A removal forgets the shortcut if it points to the slot that is emptied.
LEMMA RemoveAtKeeps ==
    ASSUME NEW Key, NEW c \in CacheType(Key), OwnShortcut(c), NEW i \in Slot
    PROVE  /\ OwnShortcut(RemoveAt(c, i))
           /\ RemoveAt(c, i).map = [c.map EXCEPT ![i] = ZeroSlot]
BY DEF OwnShortcut, RemoveAt, CacheType, ZeroSlot

LEMMA ClearCacheKeeps ==
    ASSUME NEW Key, NEW c \in CacheType(Key), OwnShortcut(c)
    PROVE  /\ OwnShortcut(ClearCache(c))
           /\ \A i \in Slot : ClearCache(c).map[i] = ZeroSlot
BY DEF OwnShortcut, ClearCache, CacheType, ZeroSlot
=============================================================================
