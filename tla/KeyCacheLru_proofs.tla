------------------------ MODULE KeyCacheLru_proofs ------------------------
(***************************************************************************)
(* The cache of session keys never answers with a key of another session,  *)
(* is a store of keys between any two holds of its mutex, and evicts the   *)
(* oldest of the keys whose stamps can be compared, for every cache size,  *)
(* set of identifiers, history of the heap and wrap of the tick count.     *)
(***************************************************************************)
EXTENDS KeyCacheLru, KeyCache_proofs

Keys == Ids \cup {ZeroKey}

\* Every key is stored under its own identifier.
OwnSlots(c) == \A i \in Slot : c.map[i].key_id # FREE =>
                                   /\ c.map[i].key_id \in Ids
                                   /\ c.map[i].key = c.map[i].key_id

\* A lookup relies on this: the shortcut, too, points to its own slot.
Sound(c) == c \in CacheType(Keys) /\ OwnSlots(c) /\ OwnShortcut(c)

\* A lookup that hits answers a slot that holds the identifier.
LEMMA LookupHit ==
    ASSUME NEW c, Sound(c), NEW id \in Ids \ {FREE}, IsKeyInCache(c, id)
    PROVE  /\ LookupIndex(c, id) \in Slot
           /\ c.map[LookupIndex(c, id)] = [key_id |-> id, key |-> id]
<1>1. /\ LookupIndex(c, id) \in Slot
      /\ c.map[LookupIndex(c, id)].key_id = id
  BY LookupType DEF Sound, OwnShortcut, IsKeyInCache
<1> QED BY <1>1 DEF Sound, OwnSlots, CacheType

LEMMA SoundEmpty == Sound(EmptyCache)
BY EmptyCacheType DEF Sound, OwnSlots, OwnShortcut, EmptyCache, ZeroSlot,
                      Keys, FREE

\* A lookup moves the shortcut only to the slot it found.
LEMMA SoundAfterGet ==
    ASSUME NEW c, Sound(c), NEW id \in Ids
    PROVE  Sound(AfterGet(c, id))
<1>1. AfterGet(c, id) \in CacheType(Keys)
  BY AfterGetType, LruAssumption DEF Sound
<1>2. OwnSlots(AfterGet(c, id))
  BY DEF Sound, OwnSlots, AfterGet, CacheType
<1>3. OwnShortcut(AfterGet(c, id))
  BY AfterGetKeeps DEF Sound
<1> QED BY <1>1, <1>2, <1>3 DEF Sound

\* A key is added to a free slot, which no shortcut points to.
LEMMA SoundAdd ==
    ASSUME NEW c, Sound(c), NEW id \in Ids
    PROVE  Sound(AddKeyToCache(c, id, id))
<1> DEFINE d == AddKeyToCache(c, id, id)
           i == FreeSlot(c)
<1>1. d \in CacheType(Keys)
  BY AddKeyToCacheType, LruAssumption DEF Sound, Keys
<1>2. CASE d = c
  BY <1>2
<1>3. CASE d # c
  <2>1. i \in Slot /\ c.map[i].key_id = FREE
    BY <1>3, FreeSlotType DEF AddKeyToCache, TakesSlot, Slot
  <2>2. d.map = [c.map EXCEPT ![i] = [key_id |-> id, key |-> id]]
    BY <1>3 DEF AddKeyToCache, TakesSlot
  <2>3. OwnSlots(d)
    BY <2>1, <2>2 DEF Sound, OwnSlots, CacheType
  <2>4. OwnShortcut(d)
    BY AddKeyKeeps DEF Sound
  <2> QED BY <1>1, <2>3, <2>4 DEF Sound
<1> QED BY <1>2, <1>3

\* A removal forgets the shortcut if it points to the slot that is emptied.
LEMMA SoundRemove ==
    ASSUME NEW c, Sound(c), NEW i \in Slot
    PROVE  Sound(RemoveAt(c, i))
<1>1. RemoveAt(c, i) \in CacheType(Keys)
  BY RemoveAtType DEF Sound, Keys
<1>2. OwnSlots(RemoveAt(c, i))
  BY DEF Sound, OwnSlots, RemoveAt, CacheType, ZeroSlot
<1>3. OwnShortcut(RemoveAt(c, i))
  BY RemoveAtKeeps DEF Sound
<1> QED BY <1>1, <1>2, <1>3 DEF Sound

\* Among the stamps of the occupied slots one is not after any other, so
\* an eviction of a cache that holds a key finds a victim, and no key was
\* stamped before it.
LEMMA VictimExists ==
    ASSUME NEW c, NEW st \in [Slot -> Stamp], Occupied(c) # {}
    PROVE  /\ LruIndex(c, st) \in Occupied(c)
           /\ \A i \in Occupied(c) : ~ Before(st[i], st[LruIndex(c, st)])
<1> DEFINE O == Occupied(c)
           Rollovers == {st[i].rollover : i \in O}
           Last == {i \in O : st[i].rollover = Min(Rollovers)}
           Ticks == {st[i].ticks : i \in Last}
<1>1. O \subseteq Slot /\ IsFiniteSet(O)
  <2>1. IsFiniteSet(Slot)
    BY CacheSizeAssumption, FS_Interval, 0 \in Int, KEY_CACHE_SIZE - 1 \in Int
       DEF Slot
  <2> QED BY <2>1, FS_Subset DEF Occupied
<1>2. PICK j \in O : /\ st[j].rollover = Min(Rollovers)
                     /\ \A i \in O : st[j].rollover <= st[i].rollover
  <2>1. IsFiniteSet(Rollovers)
    <3>1. [i \in O |-> st[i].rollover] \in Surjection(O, Rollovers)
      BY DEF Surjection
    <3> QED BY <1>1, <3>1, FS_Surjection
  <2>2. Rollovers \subseteq Int /\ Rollovers # {}
    BY <1>1 DEF Stamp
  <2>3. Min(Rollovers) \in Rollovers /\ \A y \in Rollovers : Min(Rollovers) <= y
    BY <2>1, <2>2, LeastElement
  <2> QED BY <2>3
<1>3. PICK k \in Last : /\ st[k].ticks = Min(Ticks)
                        /\ \A i \in Last : st[k].ticks <= st[i].ticks
  <2>1. IsFiniteSet(Ticks)
    <3>1. [i \in Last |-> st[i].ticks] \in Surjection(Last, Ticks)
      BY DEF Surjection
    <3>2. IsFiniteSet(Last)
      BY <1>1, FS_Subset
    <3> QED BY <3>1, <3>2, FS_Surjection
  <2>2. Ticks \subseteq Int /\ Ticks # {}
    <3>1. j \in Last
      BY <1>2
    <3>2. \A i \in Last : st[i].ticks \in Int
      BY <1>1 DEF Stamp
    <3> QED BY <3>1, <3>2
  <2>3. Min(Ticks) \in Ticks /\ \A y \in Ticks : Min(Ticks) <= y
    BY <2>1, <2>2, LeastElement
  <2> QED BY <2>3
<1>4. ASSUME NEW i \in O PROVE ~ Before(st[i], st[k])
  <2>1. st[i] \in Stamp /\ st[k] \in Stamp
    BY <1>1
  <2>2. st[k].rollover <= st[i].rollover
    BY <1>2, <1>3
  <2>3. st[i].rollover = st[k].rollover => st[k].ticks <= st[i].ticks
    BY <1>3
  <2> QED BY <2>1, <2>2, <2>3 DEF Before, Stamp
<1>5. DEFINE S == {i \in O : \A m \in O : ~ Before(st[m], st[i])}
<1>6. k \in S /\ S \in SUBSET Slot
  BY <1>1, <1>3, <1>4
<1>7. FirstOf(S) \in S
  BY <1>6, SlotScan
<1>8. LruIndex(c, st) = FirstOf(S)
  BY DEF LruIndex
<1> QED BY <1>7, <1>8

\* The scan for a free slot fails only when every slot is occupied.
LEMMA AllOccupied ==
    ASSUME NEW c, FreeSlot(c) = -1
    PROVE  Occupied(c) = Slot /\ Slot # {}
<1>1. {i \in Slot : c.map[i].key_id = FREE} \in SUBSET Slot
  OBVIOUS
<1>2. 0 \in Slot
  BY CacheSizeAssumption DEF Slot
<1> QED BY <1>1, <1>2, SlotScan DEF FreeSlot, Occupied

\* A look-up misses exactly what no slot holds.
LEMMA LookupMiss ==
    ASSUME NEW c, Sound(c), NEW id, ~ IsKeyInCache(c, id)
    PROVE  \A j \in Slot : c.map[j].key_id # id
<1>1. {j \in Slot : c.map[j].key_id = id} \in SUBSET Slot
  OBVIOUS
<1>2. c.last_key_index_in_map >= 0 => c.last_key_index_in_map # -1
  BY DEF Sound, CacheType
<1> QED BY <1>1, <1>2, SlotScan DEF IsKeyInCache, LookupIndex

\* Where the reconstruction task is tells what it relies on: between the
\* scan for a free slot and the removal nothing becomes free, since no
\* other task adds or removes, and no one else adds its identifier.
InPlace == /\ recPc \in {"wait", "add", "find", "remove", "addAgain"}
           /\ key_id \in Ids \cup {FREE}
           /\ lru_index \in Slot \cup {-1}
           /\ recPc # "wait" =>
                  /\ key_id \in Ids
                  /\ key_id # FREE => \A j \in Slot : cache.map[j].key_id # key_id
           /\ recPc \in {"find", "remove"} => Occupied(cache) = Slot
           /\ recPc = "addAgain" => Occupied(cache) # Slot
           /\ recPc = "remove" <=> lru_index # -1

Inv == /\ Sound(cache)
       /\ stamp \in [Slot -> Stamp]
       /\ elapsed \in Nat
       /\ InPlace

LEMMA SaveTimestampType ==
    ASSUME NEW s \in Stamp, elapsed \in Nat
    PROVE  SaveTimestamp(s) \in Stamp
<1>1. tick \in Nat
  BY LruAssumption DEF tick
<1>2. (s.rollover + 1) % ROLLOVER_MODULUS \in Nat
  BY LruAssumption DEF Stamp
<1> QED BY <1>1, <1>2 DEF SaveTimestamp, Stamp

\* A slot that is free is found.
LEMMA FreeSlotFound ==
    ASSUME NEW c, Occupied(c) # Slot
    PROVE  FreeSlot(c) \in Slot
<1>1. {i \in Slot : c.map[i].key_id = FREE} \in SUBSET Slot
  OBVIOUS
<1>2. {i \in Slot : c.map[i].key_id = FREE} # {}
  BY DEF Occupied
<1> QED BY <1>1, <1>2, SlotScan DEF FreeSlot

\* The chosen slot is one whose stamp is before those of all others.
LEMMA VictimFound ==
    ASSUME Inv, recPc = "find"
    PROVE  /\ LruIndex(cache, stamp) \in Slot
           /\ \A i \in Slot : ~ Before(stamp[i], stamp[LruIndex(cache, stamp)])
<1>1. 0 \in Slot
  BY CacheSizeAssumption DEF Slot
<1>2. Occupied(cache) = Slot /\ Occupied(cache) # {}
  BY <1>1 DEF Inv, InPlace
<1> QED BY <1>2, VictimExists DEF Inv

\* A slot that is stamped has a stamp.
LEMMA StampedType ==
    ASSUME stamp \in [Slot -> Stamp], elapsed \in Nat, NEW i \in Slot, Stamped(i)
    PROVE  stamp' \in [Slot -> Stamp]
<1>1. SaveTimestamp(stamp[i]) \in Stamp
  BY SaveTimestampType
<1> QED BY <1>1 DEF Stamped

LEMMA InvInit == Init => Inv
BY SoundEmpty, LruAssumption DEF Init, Inv, InPlace

LEMMA InvGet ==
    ASSUME Inv, NEW id \in Ids, GetKeyFromCache(id)
    PROVE  Inv'
<1>1. LookupIndex(cache, id) \in Slot \cup {-1}
  BY LookupType DEF Inv, Sound
<1>2. stamp' \in [Slot -> Stamp]
  BY <1>1, StampedType DEF GetKeyFromCache, Inv, Slot
<1>3. cache'.map = cache.map
  BY DEF GetKeyFromCache, AfterGet
<1>4. InPlace'
  BY <1>3 DEF GetKeyFromCache, recVars, Inv, InPlace, Occupied
<1> QED BY <1>2, <1>4, SoundAfterGet DEF GetKeyFromCache, Inv

LEMMA InvAdd ==
    ASSUME Inv, AddNewKey
    PROVE  Inv'
<1>1. key_id \in Ids /\ lru_index = -1
  BY DEF Inv, InPlace, AddNewKey
<1>2. Sound(cache')
  BY <1>1, SoundAdd DEF AddNewKey, Inv
<1>3. stamp' \in [Slot -> Stamp]
  <2>1. TakesSlot(cache, key_id) => FreeSlot(cache) \in Slot
    BY FreeSlotType DEF TakesSlot, Slot
  <2> QED BY <2>1, StampedType DEF AddNewKey, Inv
<1>4. InPlace'
  <2>1. CASE recPc' = "wait"
    BY <1>1, <2>1 DEF AddNewKey, InPlace
  <2>2. CASE recPc' # "wait"
    <3>1. FreeSlot(cache) < 0 /\ recPc' = "find"
      BY <2>2 DEF AddNewKey, AddStatus
    <3>2. FreeSlot(cache) = -1
      BY <3>1, FreeSlotType DEF Slot
    <3>3. cache' = cache
      BY <3>1, <3>2 DEF AddNewKey, AddKeyToCache, TakesSlot
    <3>4. Occupied(cache) = Slot
      BY <3>2, AllOccupied
    <3> QED BY <1>1, <3>1, <3>3, <3>4 DEF AddNewKey, Inv, InPlace, Occupied
  <2> QED BY <2>1, <2>2
<1> QED BY <1>2, <1>3, <1>4 DEF AddNewKey, Inv

LEMMA InvRemove ==
    ASSUME Inv, RemoveLruKey
    PROVE  Inv'
<1>1. lru_index \in Slot /\ cache' = RemoveAt(cache, lru_index)
  BY DEF RemoveLruKey, Inv, InPlace, Slot
<1>2. \A j \in Slot : cache'.map[j] = IF j = lru_index THEN ZeroSlot
                                                        ELSE cache.map[j]
  BY <1>1 DEF RemoveAt, Inv, Sound, CacheType
<1>3. Occupied(cache') # Slot
  BY <1>1, <1>2 DEF Occupied, ZeroSlot
<1>4. \A j \in Slot : cache'.map[j].key_id \in {cache.map[j].key_id, FREE}
  BY <1>2 DEF ZeroSlot
<1>5. InPlace'
  BY <1>3, <1>4 DEF RemoveLruKey, Inv, InPlace, Occupied
<1> QED BY <1>1, <1>5, SoundRemove DEF RemoveLruKey, Inv

LEMMA InvNext == Inv /\ [Next]_vars => Inv'
<1> SUFFICES ASSUME Inv, [Next]_vars PROVE Inv'
  OBVIOUS
<1>1. CASE \E id \in Ids : GetKeyFromCache(id)
  BY <1>1, InvGet
<1>2. ASSUME NEW id \in Ids, KeyReconstructionComplete(id) PROVE Inv'
  <2>1. \A j \in Slot : cache.map[j].key_id # id
    BY <1>2, LookupMiss DEF KeyReconstructionComplete, Inv
  <2> QED BY <1>2, <2>1 DEF KeyReconstructionComplete, Inv, InPlace, Occupied
<1>3. CASE AddNewKey
  BY <1>3, InvAdd
<1>4. CASE FindLruKey
  <2>1. LruIndex(cache, stamp) \in Slot
    BY <1>4, VictimFound DEF FindLruKey
  <2> QED BY <1>4, <2>1 DEF FindLruKey, Inv, InPlace, Occupied, Slot
<1>5. CASE RemoveLruKey
  BY <1>5, InvRemove
<1>6. CASE Tick \/ UNCHANGED vars
  BY <1>6 DEF Tick, vars, recVars, Inv, InPlace, Occupied
<1> QED BY <1>1, <1>2, <1>3, <1>4, <1>5, <1>6 DEF Next

\* A lookup of a session identifier answers with the key that was added
\* under that identifier, for every number of slots and identifiers: the
\* shortcut of get_key_from_cache never goes stale.
THEOREM LookupSound == Spec => []LookupReturnsOwnKey
<1>1. Inv => LookupReturnsOwnKey
  BY LookupHit DEF Inv, LookupReturnsOwnKey
<1> QED BY <1>1, InvInit, InvNext, PTL DEF Spec

\* The shortcut names an identifier that was used, and the last answer was
\* one of its key, of an empty slot's or of none.
Answered == /\ cache.last_key_id_used \in Ids \cup {-1}
            /\ elapsed \in 0 .. MaxTicks
            /\ lastUse \in [Slot -> 0 .. MaxTicks]
            /\ reused \in BOOLEAN
            /\ answer \in [id : Ids \cup {FREE}, key : Keys \cup {NoKey}]

LEMMA AnsweredInit == Init => Answered
<1> SUFFICES ASSUME Init PROVE Answered
  OBVIOUS
<1>1. 0 \in 0 .. MaxTicks
  BY LruAssumption
<1>2. cache.last_key_id_used = -1
  BY DEF Init, EmptyCache
<1>3. lastUse \in [Slot -> 0 .. MaxTicks]
  BY <1>1 DEF Init
<1>4. answer \in [id : Ids \cup {FREE}, key : Keys \cup {NoKey}]
  BY DEF Init
<1>5. reused = FALSE /\ elapsed = 0
  BY DEF Init
<1> QED BY <1>1, <1>2, <1>3, <1>4, <1>5 DEF Answered

LEMMA AnsweredNext == Inv /\ Answered /\ [Next]_vars => Answered'
<1> SUFFICES ASSUME Inv, Answered, [Next]_vars PROVE Answered'
  OBVIOUS
<1> USE DEF Answered
<1>1. ASSUME NEW id \in Ids, GetKeyFromCache(id) PROVE Answered'
  <2>1. /\ cache' = AfterGet(cache, id)
        /\ answer' = [id |-> id,
                      key |-> IF LookupIndex(cache, id) < 0 THEN NoKey
                              ELSE GetKey(cache, id)]
        /\ UNCHANGED elapsed
    BY <1>1 DEF GetKeyFromCache
  <2>2. cache'.last_key_id_used \in Ids \cup {-1}
    BY <2>1 DEF AfterGet, Inv, Sound, CacheType
  <2>3. LookupIndex(cache, id) \in Slot \cup {-1}
    BY LookupType DEF Inv, Sound
  <2>4. ~ (LookupIndex(cache, id) < 0) => GetKey(cache, id) \in Keys
    BY <2>3, GetKeyType DEF Inv, Sound, IsKeyInCache, Slot
  <2>5. /\ lastUse' \in [Slot -> 0 .. MaxTicks]
        /\ reused' \in BOOLEAN
    BY <1>1 DEF GetKeyFromCache, Stamped
  <2> QED BY <2>1, <2>2, <2>4, <2>5
<1>2. CASE \E id \in Ids : KeyReconstructionComplete(id)
  BY <1>2 DEF KeyReconstructionComplete
<1>3. CASE AddNewKey
  <2>1. cache'.last_key_id_used \in Ids \cup {-1}
    BY <1>3 DEF AddNewKey, AddKeyToCache, Inv, InPlace
  <2>2. /\ lastUse' \in [Slot -> 0 .. MaxTicks]
        /\ reused' \in BOOLEAN
    BY <1>3 DEF AddNewKey, Stamped
  <2> QED BY <1>3, <2>1, <2>2 DEF AddNewKey
<1>4. CASE FindLruKey
  BY <1>4 DEF FindLruKey
<1>5. CASE RemoveLruKey
  BY <1>5 DEF RemoveLruKey, RemoveAt
<1>6. CASE Tick \/ UNCHANGED vars
  BY <1>6, LruAssumption DEF Tick, vars
<1> QED BY <1>1, <1>2, <1>3, <1>4, <1>5, <1>6 DEF Next

\* The variables of the cache keep their types: an eviction leaves a slot
\* that later scans take for free, and no lookup answers with anything but
\* a key that was added or the zeros of an empty slot.
THEOREM TypeCorrect == Spec => []TypeOK
<1>1. Init => Answered
  BY AnsweredInit
<1>2. Inv /\ Answered => TypeOK
  <2> SUFFICES ASSUME Inv, Answered PROVE TypeOK
    OBVIOUS
  <2>1. \A i \in Slot : cache.map[i].key_id \in Ids \cup {FREE}
    BY DEF Inv, Sound, OwnSlots
  <2>2. \A i \in Slot : cache.map[i] \in [key_id : KeyId8, key : Keys]
    BY DEF Inv, Sound, CacheType
  <2>3. \A i \in Slot : cache.map[i] \in [key_id : Ids \cup {FREE},
                                          key : Ids \cup {ZeroKey}]
    BY <2>1, <2>2 DEF Keys
  <2>4. cache.map \in [Slot -> [key_id : Ids \cup {FREE},
                                key : Ids \cup {ZeroKey}]]
    BY <2>3 DEF Inv, Sound, CacheType
  <2>5. cache \in [map : [Slot -> [key_id : Ids \cup {FREE},
                                   key : Ids \cup {ZeroKey}]],
                   last_key_id_used : Ids \cup {-1},
                   last_key_index_in_map : Slot \cup {-1}]
    BY <2>4 DEF Inv, Answered, Sound, CacheType
  <2> QED BY <2>5 DEF Inv, InPlace, Answered, TypeOK, Keys
<1> QED BY <1>1, <1>2, InvInit, InvNext, AnsweredNext, PTL DEF Spec

----------------------------------------------------------------------------
\* The oldest key.

\* Before the tick count wraps, the stamp of a slot that holds a key is the
\* tick of its last use: add_key_to_cache wrote it over what malloc left.
Aged == elapsed < TICK_MODULUS =>
            \A i \in Occupied(cache) : /\ stamp[i].ticks = lastUse[i]
                                       /\ lastUse[i] <= elapsed

\* The property, with what a slot used since its choice is excused by.
OldestInv == Aged /\ EvictsOldestKey

\* A slot that is stamped now is stamped with this tick; the stamps of the
\* others, and so their order, stay.
LEMMA StampedNow ==
    ASSUME Inv, Answered, Aged, NEW i \in Slot, Stamped(i), UNCHANGED elapsed,
           Occupied(cache') \subseteq Occupied(cache) \cup {i}
    PROVE  Aged'
<1> SUFFICES ASSUME elapsed < TICK_MODULUS, NEW j \in Occupied(cache')
             PROVE  stamp'[j].ticks = lastUse'[j] /\ lastUse'[j] <= elapsed
  BY DEF Aged
<1>1. tick = elapsed
  BY LruAssumption DEF Answered, tick
<1>2. SaveTimestamp(stamp[i]).ticks = elapsed
  BY <1>1 DEF SaveTimestamp
<1>3. CASE j = i
  BY <1>2, <1>3 DEF Stamped, Inv, Answered
<1>4. CASE j # i
  BY <1>4 DEF Stamped, Aged, Inv, Answered, Occupied
<1> QED BY <1>3, <1>4

\* Before the wrap a slot that holds a key keeps its roll-over byte.
LEMMA SameRollover ==
    ASSUME Inv, Answered, Aged, NEW i \in Occupied(cache), Stamped(i),
           elapsed < TICK_MODULUS
    PROVE  stamp'[i].rollover = stamp[i].rollover
<1>1. tick = elapsed
  BY LruAssumption DEF Answered, tick
<1>2. i \in Slot /\ stamp[i] \in Stamp
  BY DEF Occupied, Inv
<1>3. ~ (tick < stamp[i].ticks)
  BY <1>1, <1>2 DEF Aged, Stamp, Inv
<1>4. SaveTimestamp(stamp[i]).rollover = stamp[i].rollover
  BY <1>3 DEF SaveTimestamp
<1> QED BY <1>2, <1>4 DEF Stamped, Inv

\* A look-up of the chosen slot excuses its removal; one of another slot
\* makes that slot younger.
LEMMA OldestGet ==
    ASSUME Inv, Answered, OldestInv, NEW id \in Ids, GetKeyFromCache(id)
    PROVE  OldestInv'
<1> DEFINE i == LookupIndex(cache, id)
<1>1. i \in Slot \cup {-1}
  BY LookupType DEF Inv, Sound
<1>2. Occupied(cache') = Occupied(cache)
  BY DEF GetKeyFromCache, AfterGet, Occupied
<1>3. CASE i < 0
  <2>1. UNCHANGED <<stamp, lastUse, reused, elapsed, recPc, lru_index>>
    BY <1>3 DEF GetKeyFromCache, recVars
  <2> QED BY <1>2, <2>1 DEF OldestInv, Aged, EvictsOldestKey
<1>4. CASE ~ (i < 0)
  <2>1. i \in Slot /\ Stamped(i) /\ UNCHANGED <<elapsed, recPc, lru_index>>
    BY <1>1, <1>4 DEF GetKeyFromCache, recVars
  <2> HIDE DEF i
  <2>2. Aged'
    BY <1>2, <2>1, StampedNow DEF OldestInv
  <2>3. SUFFICES ASSUME recPc = "remove", elapsed < TICK_MODULUS, ~ reused',
                        NEW j \in Occupied(cache),
                        stamp'[j].rollover = stamp'[lru_index].rollover
                 PROVE  lastUse'[lru_index] <= lastUse'[j]
    BY <1>2, <2>1, <2>2 DEF OldestInv, EvictsOldestKey
  <2>4. /\ i # lru_index /\ ~ reused
        /\ lru_index \in Occupied(cache)
        /\ i \in Occupied(cache)
    BY <2>1, <2>3 DEF Stamped, Inv, InPlace, OldestInv, EvictsOldestKey
  <2>5. /\ stamp'[lru_index] = stamp[lru_index]
        /\ lastUse'[lru_index] = lastUse[lru_index]
        /\ lastUse[lru_index] <= elapsed
    BY <2>1, <2>3, <2>4 DEF Stamped, Occupied, Inv, Answered, OldestInv, Aged
  <2>6. CASE j = i
    BY <2>1, <2>5, <2>6 DEF Stamped, Answered
  <2>7. CASE j # i
    <3>1. stamp'[j] = stamp[j] /\ lastUse'[j] = lastUse[j]
      BY <2>1, <2>7 DEF Stamped, Occupied, Inv, Answered
    <3> QED BY <2>3, <2>4, <2>5, <3>1 DEF OldestInv, EvictsOldestKey
  <2> QED BY <2>6, <2>7
<1> QED BY <1>3, <1>4

LEMMA OldestAdd ==
    ASSUME Inv, Answered, OldestInv, AddNewKey
    PROVE  OldestInv'
<1> DEFINE i == FreeSlot(cache)
<1>1. EvictsOldestKey'
  BY DEF AddNewKey, EvictsOldestKey
<1>2. CASE ~ TakesSlot(cache, key_id)
  BY <1>1, <1>2 DEF AddNewKey, AddKeyToCache, OldestInv, Aged, Occupied
<1>3. CASE TakesSlot(cache, key_id)
  <2>1. i \in Slot /\ Stamped(i) /\ UNCHANGED elapsed
    BY <1>3, FreeSlotType DEF TakesSlot, AddNewKey, Slot
  <2>2. cache'.map = [cache.map EXCEPT ![i] = [key_id |-> key_id, key |-> key_id]]
    BY <1>3 DEF AddNewKey, AddKeyToCache
  <2> HIDE DEF i
  <2>3. Occupied(cache') \subseteq Occupied(cache) \cup {i}
    BY <2>1, <2>2 DEF Occupied, Inv, Sound, CacheType
  <2> QED BY <1>1, <2>1, <2>3, StampedNow DEF OldestInv
<1> QED BY <1>2, <1>3

\* The scan chooses by stamps, which tell the age.
LEMMA OldestFind ==
    ASSUME Inv, Answered, OldestInv, FindLruKey
    PROVE  OldestInv'
<1> DEFINE lru == LruIndex(cache, stamp)
<1>1. /\ lru_index' = lru
      /\ UNCHANGED <<cache, stamp, elapsed, lastUse>>
  BY DEF FindLruKey
<1>2. /\ Occupied(cache) = Slot
      /\ lru \in Slot
      /\ \A i \in Slot : ~ Before(stamp[i], stamp[lru])
  BY VictimFound DEF FindLruKey, Inv, InPlace
<1> HIDE DEF lru
<1>3. ASSUME elapsed < TICK_MODULUS, NEW i \in Slot,
             stamp[i].rollover = stamp[lru].rollover
      PROVE  lastUse[lru] <= lastUse[i]
  <2>1. ~ (stamp[i].ticks < stamp[lru].ticks)
    BY <1>2, <1>3 DEF Before
  <2>2. stamp[i].ticks = lastUse[i] /\ stamp[lru].ticks = lastUse[lru]
    BY <1>2, <1>3 DEF OldestInv, Aged
  <2>3. lastUse[i] \in Int /\ lastUse[lru] \in Int
    BY <1>2 DEF Answered
  <2> QED BY <2>1, <2>2, <2>3
<1> QED BY <1>1, <1>2, <1>3 DEF OldestInv, Aged, EvictsOldestKey, Occupied

LEMMA OldestNext ==
    Inv /\ Answered /\ OldestInv /\ [Next]_vars => OldestInv'
<1> SUFFICES ASSUME Inv, Answered, OldestInv, [Next]_vars PROVE OldestInv'
  OBVIOUS
<1>1. CASE \E id \in Ids : GetKeyFromCache(id)
  BY <1>1, OldestGet
<1>2. CASE \E id \in Ids : KeyReconstructionComplete(id)
  BY <1>2 DEF KeyReconstructionComplete, OldestInv, Aged, EvictsOldestKey, Occupied
<1>3. CASE AddNewKey
  BY <1>3, OldestAdd
<1>4. CASE FindLruKey
  BY <1>4, OldestFind
<1>5. CASE RemoveLruKey
  <2>1. Occupied(cache') \subseteq Occupied(cache)
    BY <1>5 DEF RemoveLruKey, RemoveAt, Occupied, ZeroSlot, Inv, Sound, CacheType
  <2> QED BY <1>5, <2>1 DEF RemoveLruKey, OldestInv, Aged, EvictsOldestKey
<1>6. CASE Tick
  BY <1>6, LruAssumption
     DEF Tick, recVars, OldestInv, Aged, EvictsOldestKey, Occupied, Answered
<1>7. CASE UNCHANGED vars
  BY <1>7 DEF vars, recVars, OldestInv, Aged, EvictsOldestKey, Occupied
<1> QED BY <1>1, <1>2, <1>3, <1>4, <1>5, <1>6, <1>7 DEF Next

\* The slot an eviction is about to empty holds a key, and among the keys
\* whose stamps can be compared none was used longer ago, unless the slot
\* was used since it was chosen; for every size of the cache, every heap
\* and every interleaving of the two tasks.
THEOREM OldestEvicted == Spec => []EvictsOldestKey
<1>1. Init => OldestInv
  BY DEF Init, OldestInv, Aged, EvictsOldestKey, Occupied, EmptyCache, ZeroSlot
<1>2. OldestInv => EvictsOldestKey
  BY DEF OldestInv
<1> QED BY <1>1, <1>2, InvInit, InvNext, AnsweredInit, AnsweredNext, OldestNext,
           PTL DEF Spec

----------------------------------------------------------------------------
\* The refinement of KeyStore.

LEMMA SameCardinality ==
    ASSUME NEW S
    PROVE  Store!Cardinality(S) = Cardinality(S)
BY Zenon DEF Store!Cardinality, Cardinality

\* No identifier is in two slots.
Distinct(c) == \A i, j \in Occupied(c) :
                   c.map[i].key_id = c.map[j].key_id => i = j

\* Each stored key is the one of its identifier.
LEMMA StoredKeysOwn ==
    ASSUME NEW c, Sound(c)
    PROVE  StoredKeys(c) = [id \in StoredIds(c) |-> id]
<1>1. ASSUME NEW id \in StoredIds(c)
      PROVE  c.map[CHOOSE i \in Occupied(c) : c.map[i].key_id = id].key = id
  <2>1. \E i \in Occupied(c) : c.map[i].key_id = id
    BY DEF StoredIds
  <2> QED BY <2>1 DEF Sound, OwnSlots, Occupied
<1> QED BY <1>1 DEF StoredKeys

\* A new identifier in a free slot is one more stored identifier.
LEMMA AddIds ==
    ASSUME NEW c, Sound(c), NEW id \in Ids \ {FREE}, FreeSlot(c) >= 0,
           \A j \in Slot : c.map[j].key_id # id
    PROVE  /\ StoredIds(AddKeyToCache(c, id, id)) = StoredIds(c) \cup {id}
           /\ Distinct(c) => Distinct(AddKeyToCache(c, id, id))
<1> DEFINE d == AddKeyToCache(c, id, id)
           i == FreeSlot(c)
<1>1. i \in Slot /\ c.map[i].key_id = FREE
  BY FreeSlotType DEF Slot
<1>2. d.map = [c.map EXCEPT ![i] = [key_id |-> id, key |-> id]]
  BY <1>1 DEF AddKeyToCache, TakesSlot, Slot
<1>3. \A j \in Slot : d.map[j] = IF j = i THEN [key_id |-> id, key |-> id]
                                          ELSE c.map[j]
  BY <1>1, <1>2 DEF Sound, CacheType
<1> HIDE DEF d, i
<1>4. Occupied(d) = Occupied(c) \cup {i}
  BY <1>1, <1>3 DEF Occupied
<1>5. StoredIds(d) = StoredIds(c) \cup {id}
  BY <1>1, <1>3, <1>4 DEF StoredIds, Occupied
<1>6. Distinct(c) => Distinct(d)
  BY <1>1, <1>3, <1>4 DEF Distinct, Occupied
<1> QED BY <1>5, <1>6 DEF d

\* The reserved identifier leaves the stored ones as they are.
LEMMA AddReservedIds ==
    ASSUME NEW c, Sound(c)
    PROVE  /\ StoredIds(AddKeyToCache(c, FREE, FREE)) = StoredIds(c)
           /\ Distinct(c) => Distinct(AddKeyToCache(c, FREE, FREE))
<1> DEFINE d == AddKeyToCache(c, FREE, FREE)
           i == FreeSlot(c)
<1>1. CASE d = c
  BY <1>1
<1>2. CASE d # c
  <2>1. i \in Slot /\ c.map[i].key_id = FREE
    BY <1>2, FreeSlotType DEF AddKeyToCache, TakesSlot, Slot
  <2>2. d.map = [c.map EXCEPT ![i] = [key_id |-> FREE, key |-> FREE]]
    BY <1>2 DEF AddKeyToCache, TakesSlot
  <2>3. \A j \in Slot : d.map[j] = IF j = i
                                   THEN [key_id |-> FREE, key |-> FREE]
                                   ELSE c.map[j]
    BY <2>1, <2>2 DEF Sound, CacheType
  <2> HIDE DEF d, i
  <2>4. Occupied(d) = Occupied(c)
    BY <2>1, <2>3 DEF Occupied
  <2>5. \A j \in Occupied(c) : d.map[j] = c.map[j]
    BY <2>1, <2>3 DEF Occupied
  <2>6. StoredIds(d) = StoredIds(c)
    BY <2>4, <2>5 DEF StoredIds
  <2>7. Distinct(c) => Distinct(d)
    BY <2>4, <2>5 DEF Distinct
  <2> QED BY <2>6, <2>7 DEF d
<1> QED BY <1>1, <1>2

\* Emptying a slot takes away its identifier and no other.
LEMMA RemoveIds ==
    ASSUME NEW c, Sound(c), Distinct(c), NEW i \in Occupied(c)
    PROVE  /\ StoredIds(RemoveAt(c, i)) = StoredIds(c) \ {c.map[i].key_id}
           /\ Distinct(RemoveAt(c, i))
<1> DEFINE d == RemoveAt(c, i)
<1>1. \A j \in Slot : d.map[j] = IF j = i THEN ZeroSlot ELSE c.map[j]
  BY DEF RemoveAt, Sound, CacheType
<1>2. Occupied(d) = Occupied(c) \ {i}
  BY <1>1 DEF Occupied, ZeroSlot
<1>3. \A j \in Occupied(d) : d.map[j] = c.map[j]
  BY <1>1, <1>2 DEF Occupied
<1> HIDE DEF d
<1>4. StoredIds(d) = StoredIds(c) \ {c.map[i].key_id}
  BY <1>2, <1>3 DEF StoredIds, Distinct
<1>5. Distinct(d)
  BY <1>2, <1>3 DEF Distinct
<1> QED BY <1>4, <1>5 DEF d

LEMMA SlotCount ==
    IsFiniteSet(Slot) /\ Cardinality(Slot) = KEY_CACHE_SIZE
BY CacheSizeAssumption, FS_Interval, 0 \in Int, KEY_CACHE_SIZE - 1 \in Int
   DEF Slot

\* A cache without a free slot is a full store ...
LEMMA NoFreeSlot ==
    ASSUME NEW c, Sound(c), Distinct(c), FreeSlot(c) = -1
    PROVE  Occupied(c) = Slot /\ Cardinality(StoredIds(c)) = KEY_CACHE_SIZE
<1>1. Occupied(c) = Slot
  BY AllOccupied
<1> DEFINE f == [i \in Slot |-> c.map[i].key_id]
<1>2. f \in Surjection(Slot, StoredIds(c))
  BY <1>1 DEF Surjection, StoredIds
<1>3. f \in Injection(Slot, StoredIds(c))
  <2>1. f \in [Slot -> StoredIds(c)]
    BY <1>1 DEF StoredIds
  <2>2. \A i, j \in Slot : f[i] = f[j] => i = j
    BY <1>1 DEF Distinct
  <2> QED BY <2>1, <2>2 DEF Injection, IsInjective
<1> HIDE DEF f
<1>4. Cardinality(StoredIds(c)) = Cardinality(Slot)
  BY <1>2, <1>3, SlotCount, FS_Surjection
<1> QED BY <1>1, <1>4, SlotCount

\* ... and one with a free slot is not.
LEMMA WithFreeSlot ==
    ASSUME NEW c, Sound(c), FreeSlot(c) >= 0
    PROVE  Cardinality(StoredIds(c)) # KEY_CACHE_SIZE
<1>1. FreeSlot(c) \in Slot \ Occupied(c)
  BY FreeSlotType DEF Occupied, Slot
<1>2. /\ IsFiniteSet(Occupied(c))
      /\ Cardinality(Occupied(c)) < KEY_CACHE_SIZE
  <2>1. Occupied(c) \in SUBSET Slot /\ Occupied(c) # Slot
    BY <1>1 DEF Occupied
  <2>2. /\ IsFiniteSet(Occupied(c))
        /\ Cardinality(Occupied(c)) <= Cardinality(Slot)
        /\ Cardinality(Occupied(c)) # Cardinality(Slot)
    BY <2>1, SlotCount, FS_Subset
  <2>3. Cardinality(Occupied(c)) \in Nat
    BY <2>2, FS_CardinalityType
  <2> QED BY <2>2, <2>3, SlotCount, CacheSizeAssumption
<1>3. [i \in Occupied(c) |-> c.map[i].key_id]
          \in Surjection(Occupied(c), StoredIds(c))
  BY DEF Surjection, StoredIds
<1>4. /\ IsFiniteSet(StoredIds(c))
      /\ Cardinality(StoredIds(c)) <= Cardinality(Occupied(c))
  BY <1>2, <1>3, FS_Surjection
<1>5. /\ Cardinality(StoredIds(c)) \in Nat
      /\ Cardinality(Occupied(c)) \in Nat
  BY <1>2, <1>4, FS_CardinalityType
<1> QED BY <1>2, <1>4, <1>5, CacheSizeAssumption

\* A slot that is found answers with the key stored under the identifier;
\* no slot, no key.
LEMMA LookupAnswer ==
    ASSUME NEW c, Sound(c), NEW id \in Ids \ {FREE}
    PROVE  IF IsKeyInCache(c, id)
           THEN id \in StoredIds(c) /\ GetKey(c, id) = id
           ELSE id \notin StoredIds(c)
<1>1. CASE IsKeyInCache(c, id)
  <2>1. /\ LookupIndex(c, id) \in Slot
        /\ c.map[LookupIndex(c, id)] = [key_id |-> id, key |-> id]
    BY <1>1, LookupHit
  <2>2. LookupIndex(c, id) \in Occupied(c)
    BY <2>1 DEF Occupied
  <2> QED BY <1>1, <2>1, <2>2 DEF StoredIds, GetKey
<1>2. CASE ~ IsKeyInCache(c, id)
  BY <1>2, LookupMiss DEF StoredIds, Occupied
<1> QED BY <1>1, <1>2

StoreInv == Inv /\ Distinct(cache)

\* A look-up gets.
LEMMA GetStep ==
    ASSUME StoreInv, NEW id \in Ids, GetKeyFromCache(id)
    PROVE  /\ Store!StoreNext
           /\ Distinct(cache)'
<1>1. Sound(cache) /\ Distinct(cache)
  BY DEF StoreInv, Inv
<1>2. cache'.map = cache.map
  BY DEF GetKeyFromCache, AfterGet
<1>3. StoredKeys(cache') = StoredKeys(cache) /\ UNCHANGED <<recPc, key_id>>
  BY <1>2 DEF StoredKeys, StoredIds, Occupied, GetKeyFromCache, recVars
<1>4. Distinct(cache)'
  BY <1>1, <1>2 DEF Distinct, Occupied
<1>5. LookupIndex(cache, id) \in Slot \cup {-1}
  BY <1>1, LookupType DEF Sound
<1>6. answer' = [id |-> id, key |-> IF IsKeyInCache(cache, id)
                                   THEN GetKey(cache, id) ELSE NoKey]
  BY <1>5 DEF GetKeyFromCache, IsKeyInCache, Slot
<1>7. CASE id # FREE
  <2>1. answer' = [id |-> id, key |-> IF id \in StoredIds(cache)
                                     THEN StoredKeys(cache)[id] ELSE NoKey]
    BY <1>1, <1>6, <1>7, LookupAnswer, StoredKeysOwn
  <2>2. DOMAIN StoredKeys(cache) = StoredIds(cache)
    BY DEF StoredKeys
  <2>3. Store!Get(id)
    BY <1>3, <2>1, <2>2 DEF Store!Get
  <2> QED BY <1>4, <1>7, <2>3 DEF Store!StoreNext
<1>8. CASE id = FREE
  <2>1. IsKeyInCache(cache, id) => GetKey(cache, id) \in Keys
    BY <1>1, GetKeyType DEF Sound
  <2>2. Store!GetReserved
    BY <1>3, <1>6, <1>8, <2>1 DEF Store!GetReserved, Keys
  <2> QED BY <1>4, <2>2 DEF Store!StoreNext
<1> QED BY <1>7, <1>8

\* A key that is not there is wanted.
LEMMA WantStep ==
    ASSUME StoreInv, NEW id \in Ids, KeyReconstructionComplete(id)
    PROVE  /\ Store!StoreNext
           /\ Distinct(cache)'
<1>1. \A j \in Slot : cache.map[j].key_id # id
  BY LookupMiss DEF KeyReconstructionComplete, StoreInv, Inv
<1>2. id \notin StoredIds(cache)
  BY <1>1 DEF StoredIds, Occupied
<1>3. DOMAIN StoredKeys(cache) = StoredIds(cache)
  BY DEF StoredKeys
<1>4. UNCHANGED <<cache, answer>> /\ recPc = "wait" /\ recPc' = "add"
      /\ key_id' = id
  BY DEF KeyReconstructionComplete
<1>5. StoredKeys(cache') = StoredKeys(cache) /\ Distinct(cache)'
  BY <1>4 DEF StoreInv, Distinct, Occupied
<1>6. Store!Want(id)
  BY <1>2, <1>3, <1>4, <1>5 DEF Store!Want
<1> QED BY <1>5, <1>6 DEF Store!StoreNext

\* A key that finds a free slot is put in; one that finds none waits for it.
LEMMA AddStep ==
    ASSUME StoreInv, AddNewKey
    PROVE  /\ [Store!StoreNext]_(Store!storeVars)
           /\ Distinct(cache)'
<1>1. /\ Sound(cache) /\ Distinct(cache)
      /\ recPc # "wait" /\ key_id \in Ids
      /\ key_id # FREE => \A j \in Slot : cache.map[j].key_id # key_id
      /\ cache' = AddKeyToCache(cache, key_id, key_id)
      /\ answer' = answer
  BY DEF StoreInv, Inv, InPlace, AddNewKey
<1>2. CASE FreeSlot(cache) >= 0
  <2>1. recPc' = "wait"
    BY <1>2, FreeSlotType DEF AddNewKey, AddStatus, Slot
  <2>2. Cardinality(StoredIds(cache)) # KEY_CACHE_SIZE
    BY <1>1, <1>2, WithFreeSlot
  <2>3. DOMAIN StoredKeys(cache) = StoredIds(cache)
    BY DEF StoredKeys
  <2>4. Sound(cache')
    BY <1>1, SoundAdd
  <2>5. /\ StoredKeys(cache) = [k \in StoredIds(cache) |-> k]
        /\ StoredKeys(cache') = [k \in StoredIds(cache') |-> k]
    BY <1>1, <2>4, StoredKeysOwn
  <2>6. CASE key_id # FREE
    <3>1. /\ StoredIds(cache') = StoredIds(cache) \cup {key_id}
          /\ Distinct(cache')
      BY <1>1, <1>2, <2>6, AddIds
    <3>2. key_id \notin StoredIds(cache)
      BY <1>1, <2>6 DEF StoredIds, Occupied
    <3>3. StoredKeys(cache') = Store!With(StoredKeys(cache), key_id, key_id)
      BY <2>3, <2>5, <3>1, <3>2 DEF Store!With
    <3>4. Store!Put(key_id, key_id)
      BY SameCardinality, <1>1, <2>1, <2>2, <2>3, <2>6, <3>3
         DEF Store!Put, Store!Full
    <3> QED BY <1>1, <3>1, <3>4 DEF Store!StoreNext
  <2>7. CASE key_id = FREE
    <3>1. /\ StoredIds(cache') = StoredIds(cache)
          /\ Distinct(cache')
      BY <1>1, <2>7, AddReservedIds
    <3>2. Store!Put(key_id, key_id)
      BY SameCardinality, <1>1, <2>1, <2>2, <2>3, <2>5, <2>7, <3>1
         DEF Store!Put, Store!Full
    <3> QED BY <1>1, <3>1, <3>2 DEF Store!StoreNext
  <2> QED BY <2>6, <2>7
<1>3. CASE ~ (FreeSlot(cache) >= 0)
  <2>1. FreeSlot(cache) = -1
    BY <1>3, FreeSlotType DEF Slot
  <2>2. recPc = "add"
    BY <2>1, AllOccupied DEF AddNewKey, StoreInv, Inv, InPlace
  <2>3. recPc' # "wait" /\ key_id' = key_id
    BY <2>1, <2>2 DEF AddNewKey, AddStatus
  <2>4. cache' = cache
    BY <1>1, <1>3 DEF AddKeyToCache, TakesSlot
  <2> QED BY <1>1, <2>3, <2>4 DEF Store!storeVars, Distinct, Occupied
<1> QED BY <1>2, <1>3

\* The key of the slot that is emptied is given up.
LEMMA RemoveStep ==
    ASSUME StoreInv, RemoveLruKey
    PROVE  /\ Store!StoreNext
           /\ Distinct(cache)'
<1> DEFINE victim == cache.map[lru_index].key_id
<1>1. /\ Sound(cache) /\ Distinct(cache)
      /\ Occupied(cache) = Slot
      /\ lru_index \in Occupied(cache)
      /\ cache' = RemoveAt(cache, lru_index)
      /\ UNCHANGED <<answer, key_id>>
      /\ recPc # "wait" /\ recPc' # "wait"
  BY DEF StoreInv, Inv, InPlace, RemoveLruKey, Slot
<1>2. Cardinality(StoredIds(cache)) = KEY_CACHE_SIZE
  <2>1. FreeSlot(cache) = -1
    BY <1>1, FreeSlotType DEF Occupied, Slot
  <2> QED BY <1>1, <2>1, NoFreeSlot
<1>3. /\ StoredIds(cache') = StoredIds(cache) \ {victim}
      /\ Distinct(cache')
      /\ Sound(cache')
  BY <1>1, RemoveIds, SoundRemove
<1>4. /\ StoredKeys(cache) = [k \in StoredIds(cache) |-> k]
      /\ StoredKeys(cache') = [k \in StoredIds(cache') |-> k]
  BY <1>1, <1>3, StoredKeysOwn
<1>5. DOMAIN StoredKeys(cache) = StoredIds(cache)
  BY <1>4
<1>6. victim \in StoredIds(cache)
  BY <1>1 DEF StoredIds
<1>7. Store!GiveUp(victim)
  BY SameCardinality, <1>1, <1>2, <1>3, <1>4, <1>5
     DEF Store!GiveUp, Store!Full, Store!Without
<1> QED BY <1>3, <1>5, <1>6, <1>7 DEF Store!StoreNext

\* Between any two holds of its mutex the array of slots, with its shortcut
\* and its stamps, is a store that answers right and gives up a key only
\* when it is full and another is to be put in, one for each; for every
\* number of slots, every set of identifiers and every heap.
THEOREM CacheIsStore == Spec => ImplementsKeyStore
<1>1. Init => Store!StoreInit /\ Distinct(cache)
  <2> SUFFICES ASSUME Init PROVE Store!StoreInit /\ Distinct(cache)
    OBVIOUS
  <2>1. Occupied(cache) = {}
    BY DEF Init, EmptyCache, ZeroSlot, Occupied
  <2>2. DOMAIN StoredKeys(cache) = {}
    BY <2>1 DEF StoredKeys, StoredIds
  <2>3. Distinct(cache)
    BY <2>1 DEF Distinct
  <2> QED BY <2>2, <2>3 DEF Store!StoreInit, Init
<1>2. StoreInv /\ [Next]_vars =>
          /\ [Store!StoreNext]_(Store!storeVars)
          /\ Distinct(cache)'
  <2> SUFFICES ASSUME StoreInv, [Next]_vars
               PROVE  /\ [Store!StoreNext]_(Store!storeVars)
                      /\ Distinct(cache)'
    OBVIOUS
  <2>1. CASE \E id \in Ids : GetKeyFromCache(id)
    BY <2>1, GetStep
  <2>2. CASE \E id \in Ids : KeyReconstructionComplete(id)
    BY <2>2, WantStep
  <2>3. CASE AddNewKey
    BY <2>3, AddStep
  <2>4. CASE RemoveLruKey
    BY <2>4, RemoveStep
  <2>5. CASE FindLruKey \/ Tick \/ UNCHANGED vars
    <3>1. /\ UNCHANGED <<cache, answer, key_id>>
          /\ recPc = "wait" <=> recPc' = "wait"
      BY <2>5 DEF FindLruKey, Tick, vars, recVars
    <3> QED BY <3>1 DEF Store!storeVars, StoreInv, Distinct, Occupied
  <2> QED BY <2>1, <2>2, <2>3, <2>4, <2>5 DEF Next
<1> QED BY <1>1, <1>2, InvInit, InvNext, PTL
        DEF Spec, StoreInv, ImplementsKeyStore, Store!StoreSpec
=============================================================================
