---------------------- MODULE SecPduProcessing_proofs ----------------------
(***************************************************************************)
(* Types and keys of the two tasks, for every number of senders and        *)
(* consumers, all queue and batch sizes and every traffic: type            *)
(* correctness, what each step changes of a consumer, what the collection  *)
(* of keys says of itself, and with which keys PDUs are decrypted.         *)
(***************************************************************************)
EXTENDS SecPduProcessing, KeyCache_proofs, SequenceTheorems

----------------------------------------------------------------------------
\* What the operations of the collection of keys preserve.

Collection(Mac, Value) == [Entry -> EntryType(Mac, Value)]

LEMMA EntryScan ==
    ASSUME NEW S \in SUBSET Entry
    PROVE  FirstOf(S) \in S \cup {-1} /\ (FirstOf(S) = -1 <=> S = {})
BY CollectionAssumption, FirstOfArray DEF Entry

LEMMA KeyIndexType ==
    ASSUME NEW km, NEW mac, NEW id
    PROVE  /\ KeyIndex(km, mac, id) \in Entry \cup {-1}
           /\ IsKeyInCollection(km, mac, id) <=> KeyIndex(km, mac, id) \in Entry
           /\ KeyIndex(km, mac, id) < 0 <=> KeyIndex(km, mac, id) = -1
<1> DEFINE S == {e \in Entry : /\ km[e].key_id = id
                               /\ km[e].consumer_mac_address = mac}
<1>1. S \in SUBSET Entry
  OBVIOUS
<1>2. FirstOf(S) \in S \cup {-1}
  BY <1>1, EntryScan
<1>3. KeyIndex(km, mac, id) = FirstOf(S)
  BY DEF KeyIndex
<1>4. KeyIndex(km, mac, id) \in Entry \cup {-1}
  BY <1>2, <1>3
<1> QED BY <1>4 DEF IsKeyInCollection, Entry

LEMMA NewKeyCollectionType ==
    ASSUME NEW Mac, NEW Value
    PROVE  NewKeyCollection \in Collection(Mac, Value)
BY DEF NewKeyCollection, Collection, ZeroEntry, EntryType

LEMMA AddNewKeyType ==
    ASSUME NEW Mac, NEW Value, NEW km \in Collection(Mac, Value),
           NEW mac \in Mac, NEW id \in 0 .. 255
    PROVE  AddNewKey(km, mac, id) \in Collection(Mac, Value)
<1>1. FirstOf({x \in Entry : km[x].key_id = 0}) \in Entry \cup {-1}
  <2>1. {x \in Entry : km[x].key_id = 0} \in SUBSET Entry
    OBVIOUS
  <2> QED BY <2>1, EntryScan
<1>2. ASSUME NEW e \in Entry
      PROVE  [km[e] EXCEPT !.key_id = id, !.consumer_mac_address = mac]
                 \in EntryType(Mac, Value)
  <2>1. km[e] \in EntryType(Mac, Value)
    BY DEF Collection
  <2> QED BY <2>1 DEF EntryType
<1> QED BY <1>1, <1>2 DEF AddNewKey, Collection

LEMMA AddFragmentType ==
    ASSUME NEW Mac, NEW Value, NEW km \in Collection(Mac, Value),
           NEW mac, NEW id, NEW f \in Fragment, NEW v \in Value
    PROVE  AddFragment(km, mac, id, f, v) \in Collection(Mac, Value)
<1>1. KeyIndex(km, mac, id) \in Entry \cup {-1}
  BY KeyIndexType
<1>2. ASSUME NEW e \in Entry
      PROVE  [km[e] EXCEPT !.key_fragments[f] = v,
                           !.decrypted_key_fragments[f] = TRUE,
                           !.no_collected_key_fragments = @ + 1]
                 \in EntryType(Mac, Value)
  <2>1. km[e] \in EntryType(Mac, Value)
    BY DEF Collection
  <2>2. [km[e].key_fragments EXCEPT ![f] = v]
            \in [Fragment -> Value \cup {NoFragment}]
    BY <2>1 DEF EntryType
  <2>3. [km[e].decrypted_key_fragments EXCEPT ![f] = TRUE]
            \in [Fragment -> BOOLEAN]
    BY <2>1 DEF EntryType
  <2>4. km[e].no_collected_key_fragments + 1 \in Nat
    BY <2>1 DEF EntryType
  <2> QED BY <2>1, <2>2, <2>3, <2>4 DEF EntryType
<1> QED BY <1>1, <1>2 DEF AddFragment, Collection

LEMMA RemoveKeyType ==
    ASSUME NEW Mac, NEW Value, NEW km \in Collection(Mac, Value),
           NEW mac, NEW id
    PROVE  RemoveKey(km, mac, id) \in Collection(Mac, Value)
<1>1. KeyIndex(km, mac, id) \in Entry \cup {-1}
  BY KeyIndexType
<1>2. ZeroEntry \in EntryType(Mac, Value)
  BY DEF ZeroEntry, EntryType
<1> QED BY <1>1, <1>2 DEF RemoveKey, Collection

LEMMA ReconstructKeyType ==
    ASSUME NEW Mac, NEW Value, NEW km \in Collection(Mac, Value),
           NEW mac, NEW id, IsKeyInCollection(km, mac, id)
    PROVE  ReconstructKey(km, mac, id) \in [Fragment -> Value \cup {NoFragment}]
<1>1. KeyIndex(km, mac, id) \in Entry
  BY KeyIndexType
<1> QED BY <1>1 DEF ReconstructKey, Collection, EntryType

----------------------------------------------------------------------------
\* PDUs.

LEMMA Id8Type ==
    ASSUME NEW id \in SessionId
    PROVE  Id8(id) \in KeyId8 /\ Id8(id) \in 0 .. 255
<1>1. id \in Nat
  BY DEF SessionId
<1> QED BY <1>1 DEF Id8, KeyId8

LEMMA PduType ==
    ASSUME NEW p \in Pdu
    PROVE  /\ p.mac \in Sender
           /\ Content(p) \in PduContent
           /\ KeyId(p) \in SessionId
           /\ Id8(KeyId(p)) \in KeyId8
<1>1. PICK s \in Sender : p \in [mac : {s}, no : 1 .. Len(Traffic[s])]
  BY DEF Pdu
<1>2. p.mac \in Sender /\ p.no \in 1 .. Len(Traffic[p.mac])
  BY <1>1
<1>3. Traffic[p.mac] \in Seq(PduContent)
  BY <1>2, TrafficAssumption
<1>4. Content(p) \in PduContent
  BY <1>2, <1>3, ElementOfSeq DEF Content
<1>5. KeyId(p) \in SessionId
  BY <1>4, TrafficAssumption DEF KeyId, PduContent
<1>6. Id8(KeyId(p)) \in KeyId8
  BY <1>5, Id8Type
<1> QED BY <1>2, <1>4, <1>5, <1>6

LEMMA NewPduType ==
    ASSUME NEW s \in Sender, NEW n \in Nat, n < Len(Traffic[s])
    PROVE  [mac |-> s, no |-> n + 1] \in Pdu
<1>1. Len(Traffic[s]) \in Nat
  BY TrafficAssumption, LenProperties
<1> QED BY <1>1 DEF Pdu

----------------------------------------------------------------------------
\* Consumers.

LEMMA MacIndex ==
    ASSUME NEW mac
    PROVE  /\ IndexForMac(mac) \in Consumer \cup {-1}
           /\ IndexForMac(mac) # -1 =>
                  /\ IndexForMac(mac) \in Consumer
                  /\ consumer[IndexForMac(mac)].mac_address = mac
           /\ IndexForMac(mac) = -1 <=>
                  \A i \in Consumer : consumer[i].mac_address # mac
<1> DEFINE S == {i \in Consumer : consumer[i].mac_address = mac}
<1>1. S \in SUBSET (0 .. MAX_BLE_CONSUMERS - 1)
  BY DEF Consumer
<1>2. FirstOf(S) \in S \cup {-1} /\ (FirstOf(S) = -1 <=> S = {})
  BY <1>1, FirstOfArray, QueueAssumption
<1>3. IndexForMac(mac) = FirstOf(S)
  BY DEF IndexForMac
<1> QED BY <1>2, <1>3

LEMMA ZeroConsumerType == ZeroConsumer \in ConsumerType
<1>0. NoAddress \in Address /\ 0 \in SessionId
  BY DEF Address, SessionId
<1>1. EmptyCache \in CacheType(KeyValue)
  BY EmptyCacheType DEF KeyValue
<1>2. << >> \in Seq(Pdu)
  BY EmptySeq
<1> QED BY <1>0, <1>1, <1>2 DEF ZeroConsumer, ConsumerType

LEMMA ResetConsumerType ==
    ASSUME NEW c \in ConsumerType, NEW mac \in Sender
    PROVE  /\ [ResetConsumer(c) EXCEPT !.mac_address = mac] \in ConsumerType
           /\ [ResetConsumer(c) EXCEPT !.mac_address = mac].mac_address = mac
<1>1. ClearCache(c.key_cache) \in CacheType(KeyValue)
  BY ClearCacheType DEF ConsumerType, KeyValue
<1>2. << >> \in Seq(Pdu)
  BY EmptySeq
<1>3. mac \in Address
  BY DEF Address
<1> QED BY <1>1, <1>2, <1>3 DEF ResetConsumer, ConsumerType

LEMMA AddToDeferredType ==
    ASSUME NEW c \in ConsumerType, NEW p \in Pdu
    PROVE  /\ AddToDeferred(c, p) \in ConsumerType
           /\ AddToDeferred(c, p).mac_address = c.mac_address
<1>1. Append(c.deferredQueue, p) \in Seq(Pdu)
  BY AppendProperties DEF ConsumerType
<1>2. c.deferred_queue_count + 1 \in Nat
  BY DEF ConsumerType
<1> QED BY <1>1, <1>2 DEF AddToDeferred, ConsumerType

LEMMA TakeDeferredType ==
    ASSUME NEW c \in ConsumerType, c.deferredQueue # << >>
    PROVE  /\ TakeDeferred(c) \in ConsumerType
           /\ TakeDeferred(c).mac_address = c.mac_address
           /\ Head(c.deferredQueue) \in Pdu
<1>1. Tail(c.deferredQueue) \in Seq(Pdu) /\ Head(c.deferredQueue) \in Pdu
  BY HeadTailProperties DEF ConsumerType
<1>2. (IF c.deferred_queue_count > 0 THEN c.deferred_queue_count - 1
                                     ELSE c.deferred_queue_count) \in Nat
  BY DEF ConsumerType
<1> QED BY <1>1, <1>2 DEF TakeDeferred, ConsumerType

LEMMA LookedUpType ==
    ASSUME NEW c \in ConsumerType, NEW p \in Pdu
    PROVE  /\ LookedUp(c, p) \in ConsumerType
           /\ LookedUp(c, p).mac_address = c.mac_address
           /\ HasKeyFor(c, p) => KeyFor(c, p) \in KeyValue
<1>1. Id8(KeyId(p)) \in KeyId8 /\ c.key_cache \in CacheType(KeyValue)
  BY PduType DEF ConsumerType
<1>2. AfterGet(c.key_cache, Id8(KeyId(p))) \in CacheType(KeyValue)
  BY <1>1, AfterGetType
<1>3. HasKeyFor(c, p) => KeyFor(c, p) \in KeyValue
  BY <1>1, GetKeyType DEF HasKeyFor, KeyFor
<1> QED BY <1>2, <1>3 DEF LookedUp, ConsumerType

\* The consumer a data PDU or a fragment leaves behind.
LEMMA SeenType ==
    ASSUME NEW c \in ConsumerType, NEW p \in Pdu
    PROVE  LET d == [LookedUp(c, p) EXCEPT !.last_pdu_key_id = KeyId(p)]
           IN  d \in ConsumerType /\ d.mac_address = c.mac_address
<1>1. LookedUp(c, p) \in ConsumerType /\ KeyId(p) \in SessionId
  BY LookedUpType, PduType
<1> QED BY <1>1, LookedUpType DEF ConsumerType

----------------------------------------------------------------------------
\* Type correctness.

LEMMA TypeInit == Init => TypeOK
<1> SUFFICES ASSUME Init PROVE TypeOK
  OBVIOUS
<1>1. << >> \in Seq(Pdu) /\ << >> \in Seq([no : Nat, key : KeyValue])
  BY EmptySeq
<1>2. SenderOK
  BY <1>1, TrafficAssumption, LenProperties DEF Init, SenderOK
<1>3. ConsumerOK
  BY <1>1, ZeroConsumerType DEF Init, ConsumerOK
<1>4. KeyOK
  BY <1>1, NewKeyCollectionType DEF Init, KeyOK, Collection
<1>5. SecOK
  BY <1>1, QueueAssumption DEF Init, SecOK, SecPc
<1>6. RecOK
  BY <1>1 DEF Init, RecOK, RecPc, RecInCallback, RecWithConsumer, KeyValue
<1> QED BY <1>2, <1>3, <1>4, <1>5, <1>6 DEF TypeOK

\* A step that keeps every consumer's address, and the variables of the
\* reconstruction task, leaves that task its consumer.
LEMMA ConsumerStep ==
    ASSUME TypeOK, NEW i \in Consumer, NEW d \in ConsumerType,
           d.mac_address = consumer[i].mac_address,
           consumer' = [consumer EXCEPT ![i] = d]
    PROVE  /\ consumer' \in [Consumer -> ConsumerType]
           /\ \A j \in Consumer :
                  consumer'[j].mac_address = consumer[j].mac_address
BY DEF TypeOK, ConsumerOK

LEMMA RecKept ==
    ASSUME TypeOK, UNCHANGED recVars,
           \A j \in Consumer :
               consumer'[j].mac_address = consumer[j].mac_address
    PROVE  RecOK'
BY DEF TypeOK, RecOK, recVars, RecMac

\* A PDU decrypted with a key is added to what the observers got.
LEMMA NotifyType ==
    ASSUME TypeOK, NEW p \in Pdu, NEW k \in KeyValue, DecryptAndNotify(k, p)
    PROVE  notified' \in [Sender -> Seq([no : Nat, key : KeyValue])]
<1>1. [no |-> p.no, key |-> k] \in [no : Nat, key : KeyValue]
  <2>1. PICK s \in Sender : p \in [mac : {s}, no : 1 .. Len(Traffic[s])]
    BY DEF Pdu
  <2> QED BY <2>1
<1>2. p.mac \in Sender
  BY PduType
<1>3. Append(notified[p.mac], [no |-> p.no, key |-> k])
          \in Seq([no : Nat, key : KeyValue])
  BY <1>1, <1>2, AppendProperties DEF TypeOK, ConsumerOK
<1> QED BY <1>2, <1>3 DEF DecryptAndNotify, TypeOK, ConsumerOK

LEMMA TypeEnvironment ==
    ASSUME TypeOK, NEW s \in Sender,
           EnqueuePduForProcessing(s) \/ LosePdu(s)
    PROVE  TypeOK'
<1>1. /\ sent[s] \in Nat /\ sent[s] < Len(Traffic[s])
      /\ sent' = [sent EXCEPT ![s] = @ + 1]
      /\ UNCHANGED <<outVars, keyVars, secVars, recVars>>
  BY DEF TypeOK, SenderOK, EnqueuePduForProcessing, LosePdu, sharedVars
<1>2. sent' \in [Sender -> Nat] /\ \A t \in Sender : sent'[t] <= Len(Traffic[t])
  <2>1. Len(Traffic[s]) \in Nat
    BY TrafficAssumption, LenProperties
  <2> QED BY <1>1, <2>1 DEF TypeOK, SenderOK
<1>3. processingQueue' \in Seq(Pdu) /\ eventGroup' \in SUBSET Event
  <2>1. CASE EnqueuePduForProcessing(s)
    <3>1. [mac |-> s, no |-> sent[s] + 1] \in Pdu
      BY <1>1, NewPduType
    <3> QED BY <2>1, <3>1, AppendProperties
            DEF EnqueuePduForProcessing, TypeOK, SenderOK, Event
  <2>2. CASE LosePdu(s)
    BY <2>2 DEF LosePdu, TypeOK, SenderOK, sharedVars, inVars
  <2> QED BY <2>1, <2>2
<1>4. RecOK'
  BY <1>1, RecKept DEF outVars
<1> QED BY <1>1, <1>2, <1>3, <1>4
        DEF TypeOK, SenderOK, ConsumerOK, KeyOK, SecOK, outVars, keyVars, secVars

\* The parts of TypeOK that a step leaves alone.
LEMMA Frames ==
    ASSUME TypeOK
    PROVE  /\ UNCHANGED <<airVars, inVars>> => SenderOK'
           /\ UNCHANGED outVars => ConsumerOK'
           /\ UNCHANGED keyVars => KeyOK'
           /\ UNCHANGED secVars => SecOK'
           /\ UNCHANGED <<outVars, recVars>> => RecOK'
<1>1. UNCHANGED <<airVars, inVars>> => SenderOK'
  BY DEF TypeOK, airVars, inVars, SenderOK
<1>2. UNCHANGED outVars => ConsumerOK'
  BY DEF TypeOK, outVars, ConsumerOK
<1>3. UNCHANGED keyVars => KeyOK'
  BY DEF TypeOK, keyVars, KeyOK
<1>4. UNCHANGED secVars => SecOK'
  BY DEF TypeOK, secVars, SecOK
<1>5. UNCHANGED <<outVars, recVars>> => RecOK'
  BY RecKept DEF outVars
<1> QED BY <1>1, <1>2, <1>3, <1>4, <1>5

\* A step that changes the processing task's own variables only.
LEMMA SecLocal ==
    ASSUME TypeOK, UNCHANGED <<airVars, sharedVars, recVars>>, SecOK'
    PROVE  TypeOK'
BY Frames DEF TypeOK, sharedVars

\* A step that changes the reconstruction task's own variables only.
LEMMA RecLocal ==
    ASSUME TypeOK, UNCHANGED <<airVars, sharedVars, secVars>>, RecOK'
    PROVE  TypeOK'
BY Frames DEF TypeOK, sharedVars

LEMMA BatchType ==
    ASSUME NEW S, NEW q \in Seq(S), q # << >>
    PROVE  Head(q) \in S /\ Tail(q) \in Seq(S)
BY HeadTailProperties

LEMMA TypeSecWait == TypeOK /\ SecWait => TypeOK'
<1> SUFFICES ASSUME TypeOK, SecWait PROVE TypeOK'
  OBVIOUS
<1>1. SenderOK'
  BY DEF SecWait, TypeOK, SenderOK, airVars
<1>2. SecOK'
  BY QueueAssumption DEF SecWait, TypeOK, SenderOK, SecOK, SecPc
<1> QED BY <1>1, <1>2, Frames DEF SecWait, TypeOK

LEMMA TypeSecNewPdu == TypeOK /\ SecNewPdu => TypeOK'
<1> SUFFICES ASSUME TypeOK, SecNewPdu PROVE TypeOK'
  OBVIOUS
<1> DEFINE p == Head(pduBatch)
           i == IndexForMac(p.mac)
<1>1. CASE SecCollect
  <2>1. Head(processingQueue) \in Pdu /\ Tail(processingQueue) \in Seq(Pdu)
    BY <1>1, BatchType DEF SecCollect, TypeOK, SenderOK
  <2>2. Append(pduBatch, Head(processingQueue)) \in Seq(Pdu)
    BY <2>1, AppendProperties DEF TypeOK, SecOK
  <2>3. SenderOK'
    BY <1>1, <2>1 DEF SecCollect, TypeOK, SenderOK, airVars
  <2>4. SecOK'
    BY <1>1, <2>2 DEF SecCollect, TypeOK, SecOK, SecPc
  <2> QED BY <1>1, <2>3, <2>4, Frames DEF SecCollect, TypeOK
<1>2. CASE SecCollected
  <2>1. SecOK'
    BY <1>2 DEF SecCollected, TypeOK, SecOK, SecPc
  <2> QED BY <1>2, <2>1, SecLocal DEF SecCollected
<1>3. CASE SecAddConsumer
  <2> DEFINE mac == Head(pduBatch).mac
             f == FreeConsumer
             d == [ResetConsumer(consumer[f]) EXCEPT !.mac_address = mac]
  <2>1. f \in Consumer /\ consumer[f].mac_address = NoAddress
    BY <1>3, MacIndex DEF SecAddConsumer, FreeConsumer
  <2>2. mac \in Sender
    BY <1>3, BatchType, PduType DEF SecAddConsumer, TypeOK, SecOK
  <2>3. d \in ConsumerType
    BY <2>1, <2>2, ResetConsumerType DEF TypeOK, ConsumerOK
  <2>4. consumer' = [consumer EXCEPT ![f] = d]
    BY <1>3 DEF SecAddConsumer
  <2>5. ConsumerOK'
    <3> HIDE DEF d
    <3> QED BY <1>3, <2>1, <2>3, <2>4 DEF SecAddConsumer, TypeOK, ConsumerOK
  <2>6. RecOK'
    <3>1. recPc \in RecWithConsumer =>
              \E j \in Consumer : consumer'[j].mac_address = RecMac
      <4>1. SUFFICES ASSUME recPc \in RecWithConsumer
                     PROVE  \E j \in Consumer :
                                consumer'[j].mac_address = RecMac
        OBVIOUS
      <4>2. PICK j \in Consumer : consumer[j].mac_address = RecMac
        BY <4>1 DEF TypeOK, RecOK
      <4>3. RecMac # NoAddress
        <5>1. Head(keyFragmentBatch) \in Pdu
          BY <4>1, BatchType DEF TypeOK, RecOK, RecWithConsumer
        <5> QED BY <5>1, PduType, TrafficAssumption DEF RecMac
      <4>4. j # f
        BY <2>1, <4>2, <4>3
      <4>5. consumer'[j] = consumer[j]
        BY <2>1, <2>4, <4>4 DEF TypeOK, ConsumerOK
      <4> QED BY <4>2, <4>5
    <3> QED BY <1>3, <3>1
            DEF SecAddConsumer, TypeOK, RecOK, recVars, RecMac
  <2> QED BY <1>3, <2>5, <2>6, Frames DEF SecAddConsumer, TypeOK
<1>4. CASE SecSkipPdu
  <2>1. SecOK'
    BY <1>4, BatchType DEF SecSkipPdu, TypeOK, SecOK, SecPc
  <2> QED BY <1>4, <2>1, SecLocal DEF SecSkipPdu
<1>5. CASE SecDataPdu
  <2> DEFINE c == [LookedUp(consumer[i], p) EXCEPT
                       !.last_pdu_key_id = KeyId(p)]
             d == IF ~ HasKeyFor(consumer[i], p) \/ IsPduInDeferredQueue(c)
                  THEN AddToDeferred(c, p) ELSE c
  <2>1. p \in Pdu /\ Tail(pduBatch) \in Seq(Pdu)
    BY <1>5, BatchType DEF SecDataPdu, TypeOK, SecOK
  <2>2. i \in Consumer
    BY <1>5, MacIndex DEF SecDataPdu
  <2>3. c \in ConsumerType /\ c.mac_address = consumer[i].mac_address
    BY <2>1, <2>2, SeenType DEF TypeOK, ConsumerOK
  <2>4. d \in ConsumerType /\ d.mac_address = consumer[i].mac_address
    <3> HIDE DEF c
    <3> QED BY <2>1, <2>3, AddToDeferredType
  <2>5. consumer' = [consumer EXCEPT ![i] = d]
    BY <1>5 DEF SecDataPdu
  <2>6. /\ consumer' \in [Consumer -> ConsumerType]
        /\ \A j \in Consumer :
               consumer'[j].mac_address = consumer[j].mac_address
    <3> HIDE DEF d
    <3> QED BY <2>2, <2>4, <2>5, ConsumerStep
  <2>7. notified' \in [Sender -> Seq([no : Nat, key : KeyValue])]
    <3>1. CASE UNCHANGED notified
      BY <3>1 DEF TypeOK, ConsumerOK
    <3>2. CASE /\ HasKeyFor(consumer[i], p)
               /\ DecryptAndNotify(KeyFor(consumer[i], p), p)
      <4>1. KeyFor(consumer[i], p) \in KeyValue
        BY <2>1, <2>2, <3>2, LookedUpType DEF TypeOK, ConsumerOK
      <4> QED BY <2>1, <3>2, <4>1, NotifyType
    <3> QED BY <1>5, <3>1, <3>2 DEF SecDataPdu
  <2>8. SecOK'
    BY <1>5, <2>1 DEF SecDataPdu, TypeOK, SecOK, SecPc
  <2>9. ConsumerOK' /\ RecOK'
    BY <1>5, <2>6, <2>7, RecKept DEF SecDataPdu, TypeOK, ConsumerOK
  <2> QED BY <1>5, <2>8, <2>9, Frames DEF SecDataPdu, TypeOK
<1>6. CASE SecKeyFragmentPdu
  <2> DEFINE c == [LookedUp(consumer[i], p) EXCEPT
                       !.last_pdu_key_id = KeyId(p)]
  <2>1. p \in Pdu /\ Tail(pduBatch) \in Seq(Pdu)
    BY <1>6, BatchType DEF SecKeyFragmentPdu, TypeOK, SecOK
  <2>2. i \in Consumer
    BY <1>6, MacIndex DEF SecKeyFragmentPdu
  <2>3. c \in ConsumerType /\ c.mac_address = consumer[i].mac_address
    BY <2>1, <2>2, SeenType DEF TypeOK, ConsumerOK
  <2>4. consumer' = [consumer EXCEPT ![i] = c]
    BY <1>6 DEF SecKeyFragmentPdu
  <2>5. /\ consumer' \in [Consumer -> ConsumerType]
        /\ \A j \in Consumer :
               consumer'[j].mac_address = consumer[j].mac_address
    <3> HIDE DEF c
    <3> QED BY <2>2, <2>3, <2>4, ConsumerStep
  <2>6. SecOK'
    BY <1>6, <2>1, QueueAssumption DEF SecKeyFragmentPdu, TypeOK, SecOK, SecPc
  <2>7. ConsumerOK' /\ RecOK'
    BY <1>6, <2>5, RecKept DEF SecKeyFragmentPdu, TypeOK, ConsumerOK
  <2> QED BY <1>6, <2>6, <2>7, Frames DEF SecKeyFragmentPdu, TypeOK
<1>7. CASE SecSendFragment
  <2>1. p \in Pdu /\ Tail(pduBatch) \in Seq(Pdu)
    BY <1>7, BatchType DEF SecSendFragment, TypeOK, SecOK
  <2>2. KeyOK'
    BY <1>7, <2>1, AppendProperties DEF SecSendFragment, TypeOK, KeyOK
  <2>3. SecOK'
    BY <1>7, <2>1 DEF SecSendFragment, TypeOK, SecOK, SecPc
  <2> QED BY <1>7, <2>2, <2>3, Frames DEF SecSendFragment, TypeOK
<1>8. CASE SecSendTimeout
  <2>1. Tail(pduBatch) \in Seq(Pdu)
    BY <1>8, BatchType DEF SecSendTimeout, TypeOK, SecOK
  <2>2. SecOK'
    BY <1>8, <2>1, QueueAssumption DEF SecSendTimeout, TypeOK, SecOK, SecPc
  <2> QED BY <1>8, <2>2, SecLocal DEF SecSendTimeout
<1>9. CASE SecBatchDone
  <2>1. SecOK'
    BY <1>9 DEF SecBatchDone, TypeOK, SecOK, SecPc
  <2> QED BY <1>9, <2>1, SecLocal DEF SecBatchDone
<1> QED BY <1>1, <1>2, <1>3, <1>4, <1>5, <1>6, <1>7, <1>8, <1>9 DEF SecNewPdu

LEMMA TypeSecDeferred == TypeOK /\ SecDeferred => TypeOK'
<1> SUFFICES ASSUME TypeOK, SecDeferred PROVE TypeOK'
  OBVIOUS
<1> DEFINE c == consumer[consumerIndex]
           p == Head(pduBatch)
<1>1. CASE SecNextConsumer
  <2>1. SecOK'
    BY <1>1, QueueAssumption
       DEF SecNextConsumer, TypeOK, SecOK, SecPc, Consumer
  <2> QED BY <1>1, <2>1, SecLocal DEF SecNextConsumer
<1>2. CASE SecDeferredDone
  <2>1. SecOK'
    BY <1>2 DEF SecDeferredDone, TypeOK, SecOK, SecPc
  <2> QED BY <1>2, <2>1, SecLocal DEF SecDeferredDone
<1>3. CASE SecTakeDeferred
  <2>1. consumerIndex \in Consumer /\ c \in ConsumerType
    BY <1>3 DEF SecTakeDeferred, TypeOK, SecOK, ConsumerOK
  <2>2. /\ TakeDeferred(c) \in ConsumerType
        /\ TakeDeferred(c).mac_address = c.mac_address
        /\ Head(c.deferredQueue) \in Pdu
    BY <1>3, <2>1, TakeDeferredType DEF SecTakeDeferred
  <2>3. /\ consumer' \in [Consumer -> ConsumerType]
        /\ \A j \in Consumer :
               consumer'[j].mac_address = consumer[j].mac_address
    BY <1>3, <2>1, <2>2, ConsumerStep DEF SecTakeDeferred
  <2>4. ConsumerOK' /\ RecOK'
    BY <1>3, <2>3, RecKept DEF SecTakeDeferred, TypeOK, ConsumerOK
  <2>5. SecOK'
    BY <1>3, <2>2, AppendProperties DEF SecTakeDeferred, TypeOK, SecOK, SecPc
  <2> QED BY <1>3, <2>4, <2>5, Frames DEF SecTakeDeferred, TypeOK
<1>4. CASE SecTakenDeferred
  <2>1. SecOK'
    BY <1>4 DEF SecTakenDeferred, TypeOK, SecOK, SecPc
  <2>2. ConsumerOK' /\ RecOK'
    BY <1>4, RecKept DEF SecTakenDeferred, TypeOK, ConsumerOK
  <2> QED BY <1>4, <2>1, <2>2, Frames DEF SecTakenDeferred, TypeOK
<1>5. CASE SecRedoPdu
  <2> DEFINE d == IF HasKeyFor(c, p) THEN LookedUp(c, p)
                  ELSE IF KeyId(p) = c.last_pdu_key_id
                       THEN AddToDeferred(c, p) ELSE c
  <2>1. p \in Pdu /\ Tail(pduBatch) \in Seq(Pdu)
    BY <1>5, BatchType DEF SecRedoPdu, TypeOK, SecOK
  <2>2. consumerIndex \in Consumer /\ c \in ConsumerType
    BY <1>5 DEF SecRedoPdu, TypeOK, SecOK, ConsumerOK
  <2>3. d \in ConsumerType /\ d.mac_address = c.mac_address
    BY <2>1, <2>2, AddToDeferredType, LookedUpType
  <2>4. consumer' = [consumer EXCEPT ![consumerIndex] = d]
    BY <1>5 DEF SecRedoPdu
  <2>5. /\ consumer' \in [Consumer -> ConsumerType]
        /\ \A j \in Consumer :
               consumer'[j].mac_address = consumer[j].mac_address
    <3> HIDE DEF d
    <3> QED BY <2>2, <2>3, <2>4, ConsumerStep
  <2>6. notified' \in [Sender -> Seq([no : Nat, key : KeyValue])]
    <3>1. CASE UNCHANGED notified
      BY <3>1 DEF TypeOK, ConsumerOK
    <3>2. CASE HasKeyFor(c, p) /\ DecryptAndNotify(KeyFor(c, p), p)
      <4>1. KeyFor(c, p) \in KeyValue
        BY <2>1, <2>2, <3>2, LookedUpType
      <4> QED BY <2>1, <3>2, <4>1, NotifyType
    <3> QED BY <1>5, <3>1, <3>2 DEF SecRedoPdu
  <2>7. SecOK'
    BY <1>5, <2>1 DEF SecRedoPdu, TypeOK, SecOK, SecPc
  <2>8. ConsumerOK' /\ RecOK'
    BY <1>5, <2>5, <2>6, RecKept DEF SecRedoPdu, TypeOK, ConsumerOK
  <2> QED BY <1>5, <2>7, <2>8, Frames DEF SecRedoPdu, TypeOK
<1>6. CASE SecRedoDone
  <2>1. consumerIndex \in Consumer /\ c \in ConsumerType
    BY <1>6 DEF SecRedoDone, TypeOK, SecOK, ConsumerOK
  <2>2. /\ [c EXCEPT !.request_pending = FALSE] \in ConsumerType
        /\ [c EXCEPT !.request_pending = FALSE].mac_address = c.mac_address
    BY <2>1 DEF ConsumerType
  <2>3. /\ consumer' \in [Consumer -> ConsumerType]
        /\ \A j \in Consumer :
               consumer'[j].mac_address = consumer[j].mac_address
    <3>1. CASE UNCHANGED consumer
      BY <3>1 DEF TypeOK, ConsumerOK
    <3>2. CASE consumer' = [consumer EXCEPT ![consumerIndex] =
                                [c EXCEPT !.request_pending = FALSE]]
      BY <2>1, <2>2, <3>2, ConsumerStep
    <3> QED BY <1>6, <3>1, <3>2 DEF SecRedoDone
  <2>4. ConsumerOK' /\ RecOK'
    BY <1>6, <2>3, RecKept DEF SecRedoDone, TypeOK, ConsumerOK
  <2>5. SecOK'
    BY <1>6, <2>1, QueueAssumption
       DEF SecRedoDone, TypeOK, SecOK, SecPc, Consumer
  <2>6. SenderOK'
    BY <1>6 DEF SecRedoDone, TypeOK, SenderOK, airVars, Event
  <2> QED BY <1>6, <2>4, <2>5, <2>6, Frames DEF SecRedoDone, TypeOK
<1> QED BY <1>1, <1>2, <1>3, <1>4, <1>5, <1>6 DEF SecDeferred

\* In the call-back there is a fragment, of a sender that has an address.
LEMMA RecHead ==
    ASSUME TypeOK, keyFragmentBatch # << >>
    PROVE  /\ Head(keyFragmentBatch) \in Pdu
           /\ Tail(keyFragmentBatch) \in Seq(Pdu)
           /\ RecMac \in Sender
           /\ RecId \in KeyId8 /\ RecId \in 0 .. 255
<1>1. Head(keyFragmentBatch) \in Pdu /\ Tail(keyFragmentBatch) \in Seq(Pdu)
  BY BatchType DEF TypeOK, RecOK
<1>2. KeyId(Head(keyFragmentBatch)) \in SessionId
  BY <1>1, PduType
<1> QED BY <1>1, <1>2, PduType, Id8Type DEF RecMac, RecId

LEMMA RecConsumerType ==
    ASSUME TypeOK, recPc \in RecWithConsumer
    PROVE  /\ RecConsumer \in Consumer
           /\ consumer[RecConsumer] \in ConsumerType
           /\ consumer[RecConsumer].mac_address = RecMac
           /\ RecCache \in CacheType(KeyValue)
           /\ keyFragmentBatch # << >>
<1>1. RecConsumer \in Consumer /\ consumer[RecConsumer].mac_address = RecMac
  BY MacIndex DEF TypeOK, RecOK, RecConsumer
<1> QED BY <1>1 DEF TypeOK, ConsumerOK, RecOK, ConsumerType, RecCache,
                    RecWithConsumer

\* A step of the call-back that changes the sender's consumer.
LEMMA RecConsumerStep ==
    ASSUME TypeOK, recPc \in RecWithConsumer, UNCHANGED <<notified, overflowed>>,
           NEW d \in ConsumerType, d.mac_address = RecMac,
           consumer' = [consumer EXCEPT ![RecConsumer] = d]
    PROVE  /\ ConsumerOK'
           /\ UNCHANGED keyFragmentBatch =>
                  \E j \in Consumer : consumer'[j].mac_address = RecMac'
<1>1. /\ RecConsumer \in Consumer
      /\ d.mac_address = consumer[RecConsumer].mac_address
  BY RecConsumerType
<1>2. /\ consumer' \in [Consumer -> ConsumerType]
      /\ \A j \in Consumer : consumer'[j].mac_address = consumer[j].mac_address
  BY <1>1, ConsumerStep
<1>3. consumer'[RecConsumer].mac_address = RecMac
  BY <1>1, <1>2
<1> QED BY <1>1, <1>2, <1>3 DEF TypeOK, ConsumerOK, RecMac

LEMMA TypeRecBatch ==
    ASSUME TypeOK,
           RecWait \/ RecCollect \/ RecCollected \/ RecFragment \/ RecBatchDone
    PROVE  TypeOK'
<1>1. CASE RecWait
  <2>1. KeyOK'
    BY <1>1 DEF RecWait, TypeOK, KeyOK
  <2>2. RecOK'
    BY <1>1 DEF RecWait, TypeOK, RecOK, RecPc, RecInCallback, RecWithConsumer
  <2> QED BY <1>1, <2>1, <2>2, Frames DEF RecWait, TypeOK
<1>2. CASE RecCollect
  <2>1. Head(fragmentQueue) \in Pdu /\ Tail(fragmentQueue) \in Seq(Pdu)
    BY <1>2, BatchType DEF RecCollect, TypeOK, KeyOK
  <2>2. KeyOK'
    BY <1>2, <2>1 DEF RecCollect, TypeOK, KeyOK
  <2>3. RecOK'
    <3>1. Append(keyFragmentBatch, Head(fragmentQueue)) \in Seq(Pdu)
      BY <2>1, AppendProperties DEF TypeOK, RecOK
    <3> QED BY <1>2, <3>1
            DEF RecCollect, TypeOK, RecOK, RecPc, RecInCallback, RecWithConsumer
  <2> QED BY <1>2, <2>2, <2>3, Frames DEF RecCollect, TypeOK
<1>3. CASE RecCollected
  <2>1. RecOK'
    BY <1>3 DEF RecCollected, TypeOK, RecOK, RecPc, RecInCallback,
                RecWithConsumer
  <2> QED BY <1>3, <2>1, RecLocal DEF RecCollected
<1>4. CASE RecFragment
  <2> DEFINE p == Content(Head(keyFragmentBatch))
             km == IF IsKeyInCollection(keyCollection, RecMac, RecId)
                   THEN keyCollection
                   ELSE AddNewKey(keyCollection, RecMac, RecId)
             store == /\ p.authentic
                      /\ ~ IsKeyFragmentDecrypted(km, RecMac, RecId, p.fragment)
             stored == IF store
                       THEN AddFragment(km, RecMac, RecId, p.fragment,
                                        p.session)
                       ELSE km
             complete == IsKeyAvailable(stored, RecMac, RecId)
  <2>1. /\ Tail(keyFragmentBatch) \in Seq(Pdu)
        /\ RecMac \in Sender /\ RecId \in 0 .. 255
        /\ p.fragment \in Fragment /\ p.session \in Session
    BY <1>4, RecHead, PduType DEF RecFragment, PduContent
  <2>2. km \in Collection(Sender, Session)
    BY <2>1, AddNewKeyType DEF TypeOK, KeyOK, Collection
  <2>3. stored \in Collection(Sender, Session)
    <3> HIDE DEF km
    <3> QED BY <2>1, <2>2, AddFragmentType
  <2>4. complete => ReconstructKey(stored, RecMac, RecId) \in KeyValue
    <3> HIDE DEF stored
    <3>1. complete => IsKeyInCollection(stored, RecMac, RecId)
      BY DEF IsKeyAvailable
    <3> QED BY <2>3, <3>1, ReconstructKeyType DEF KeyValue
  <2>5. /\ keyCollection' = stored
        /\ reconstructedKey' = IF complete
                               THEN ReconstructKey(stored, RecMac, RecId)
                               ELSE reconstructedKey
        /\ recPc' = IF complete THEN "callback" ELSE "fragment"
        /\ keyFragmentBatch' = IF complete THEN keyFragmentBatch
                                           ELSE Tail(keyFragmentBatch)
        /\ keyFragmentBatch # << >>
    BY <1>4 DEF RecFragment
  <2> HIDE DEF stored, complete
  <2>6. KeyOK'
    BY <1>4, <2>3, <2>5 DEF RecFragment, TypeOK, KeyOK, Collection
  <2>7. RecOK'
    BY <1>4, <2>1, <2>4, <2>5
       DEF RecFragment, TypeOK, RecOK, RecPc, RecInCallback, RecWithConsumer
  <2> QED BY <1>4, <2>6, <2>7, Frames DEF RecFragment, TypeOK
<1>5. CASE RecBatchDone
  <2>1. RecOK'
    BY <1>5 DEF RecBatchDone, TypeOK, RecOK, RecPc, RecInCallback,
                RecWithConsumer
  <2> QED BY <1>5, <2>1, RecLocal DEF RecBatchDone
<1> QED BY <1>1, <1>2, <1>3, <1>4, <1>5

LEMMA TypeRecKeyComplete == TypeOK /\ RecKeyComplete => TypeOK'
<1> SUFFICES ASSUME TypeOK, RecKeyComplete PROVE TypeOK'
  OBVIOUS
<1> DEFINE c == consumer[RecConsumer]
<1>1. CASE RecCallback
  <2>1. \/ recPc' = "remove"
        \/ recPc' = "add" /\ RecConsumer # -1
    BY <1>1 DEF RecCallback
  <2>2. recPc' = "add" =>
            \E j \in Consumer : consumer[j].mac_address = RecMac
    BY <2>1, MacIndex DEF RecConsumer
  <2>3. RecOK'
    BY <1>1, <2>1, <2>2
       DEF RecCallback, TypeOK, RecOK, RecPc, RecInCallback, RecWithConsumer,
           RecMac, sharedVars, outVars
  <2> QED BY <1>1, <2>3, RecLocal DEF RecCallback
<1>2. CASE RecAddKey
  <2> DEFINE k == AddKeyToCache(c.key_cache, reconstructedKey, RecId)
  <2>1. recPc \in RecWithConsumer
    BY <1>2 DEF RecAddKey, RecWithConsumer, RecInCallback
  <2>2. c \in ConsumerType /\ c.mac_address = RecMac
    BY <2>1, RecConsumerType
  <2>3. k \in CacheType(KeyValue)
    <3>1. RecId \in KeyId8 /\ reconstructedKey \in KeyValue
      BY <2>1, RecConsumerType, RecHead DEF TypeOK, RecOK
    <3> QED BY <2>1, <3>1, RecConsumerType, AddKeyToCacheType DEF RecCache
  <2>4. /\ [c EXCEPT !.key_cache = k] \in ConsumerType
        /\ [c EXCEPT !.key_cache = k].mac_address = RecMac
    <3> HIDE DEF k
    <3> QED BY <2>2, <2>3 DEF ConsumerType
  <2>5. consumer' = [consumer EXCEPT ![RecConsumer] =
                         [c EXCEPT !.key_cache = k]]
    BY <1>2 DEF RecAddKey
  <2>6. ConsumerOK' /\ \E j \in Consumer : consumer'[j].mac_address = RecMac'
    <3> HIDE DEF k
    <3> QED BY <1>2, <2>1, <2>4, <2>5, RecConsumerStep DEF RecAddKey
  <2>7. RecOK'
    BY <1>2, <2>1, <2>6 DEF RecAddKey, TypeOK, RecOK, RecPc, RecInCallback,
                            RecWithConsumer
  <2> QED BY <1>2, <2>6, <2>7, Frames DEF RecAddKey, TypeOK
<1>3. CASE RecFindLru
  <2>1. RecOK'
    BY <1>3 DEF RecFindLru, TypeOK, RecOK, RecPc, RecInCallback,
                RecWithConsumer, RecMac, sharedVars, outVars
  <2> QED BY <1>3, <2>1, RecLocal DEF RecFindLru
<1>4. CASE RecRemoveLru
  <2> DEFINE k == RemoveAt(c.key_cache, lruIndex)
  <2>1. recPc \in RecWithConsumer /\ lruIndex \in Slot
    BY <1>4 DEF RecRemoveLru, RecWithConsumer, RecInCallback, TypeOK, RecOK
  <2>2. c \in ConsumerType /\ c.mac_address = RecMac
    BY <2>1, RecConsumerType
  <2>3. k \in CacheType(KeyValue)
    BY <2>1, RecConsumerType, RemoveAtType DEF RecCache, KeyValue
  <2>4. /\ [c EXCEPT !.key_cache = k] \in ConsumerType
        /\ [c EXCEPT !.key_cache = k].mac_address = RecMac
    <3> HIDE DEF k
    <3> QED BY <2>2, <2>3 DEF ConsumerType
  <2>5. consumer' = [consumer EXCEPT ![RecConsumer] =
                         [c EXCEPT !.key_cache = k]]
    BY <1>4 DEF RecRemoveLru
  <2>6. ConsumerOK' /\ \E j \in Consumer : consumer'[j].mac_address = RecMac'
    <3> HIDE DEF k
    <3> QED BY <1>4, <2>1, <2>4, <2>5, RecConsumerStep DEF RecRemoveLru
  <2>7. RecOK'
    BY <1>4, <2>1, <2>6 DEF RecRemoveLru, TypeOK, RecOK, RecPc,
                            RecInCallback, RecWithConsumer
  <2> QED BY <1>4, <2>6, <2>7, Frames DEF RecRemoveLru, TypeOK
<1>5. CASE RecRequestDeferred
  <2>1. recPc \in RecWithConsumer
    BY <1>5 DEF RecRequestDeferred, RecWithConsumer, RecInCallback
  <2>2. c \in ConsumerType /\ c.mac_address = RecMac
    BY <2>1, RecConsumerType
  <2>3. /\ [c EXCEPT !.request_pending = TRUE] \in ConsumerType
        /\ [c EXCEPT !.request_pending = TRUE].mac_address = RecMac
    BY <2>2 DEF ConsumerType
  <2>4. consumer' = [consumer EXCEPT ![RecConsumer] =
                         [c EXCEPT !.request_pending = TRUE]]
    BY <1>5 DEF RecRequestDeferred
  <2>5. ConsumerOK' /\ \E j \in Consumer : consumer'[j].mac_address = RecMac'
    BY <1>5, <2>1, <2>3, <2>4, RecConsumerStep DEF RecRequestDeferred
  <2>6. RecOK'
    BY <1>5, <2>1, <2>5 DEF RecRequestDeferred, TypeOK, RecOK, RecPc,
                            RecInCallback, RecWithConsumer
  <2> QED BY <1>5, <2>5, <2>6, Frames DEF RecRequestDeferred, TypeOK
<1>6. CASE RecSignal
  <2>1. SenderOK'
    BY <1>6 DEF RecSignal, TypeOK, SenderOK, airVars, Event
  <2>2. RecOK'
    BY <1>6 DEF RecSignal, TypeOK, RecOK, RecPc, RecInCallback,
                RecWithConsumer, RecMac, outVars
  <2> QED BY <1>6, <2>1, <2>2, Frames DEF RecSignal, TypeOK
<1>7. CASE RecRemoveKey
  <2>1. keyFragmentBatch # << >>
    BY <1>7 DEF RecRemoveKey, TypeOK, RecOK, RecInCallback
  <2>2. KeyOK'
    BY <1>7, RemoveKeyType DEF RecRemoveKey, TypeOK, KeyOK, Collection
  <2>3. RecOK'
    BY <1>7, <2>1, RecHead
       DEF RecRemoveKey, TypeOK, RecOK, RecPc, RecInCallback,
           RecWithConsumer, KeyValue
  <2> QED BY <1>7, <2>2, <2>3, Frames DEF RecRemoveKey, TypeOK
<1> QED BY <1>1, <1>2, <1>3, <1>4, <1>5, <1>6, <1>7 DEF RecKeyComplete

LEMMA TypeNext == TypeOK /\ [Next]_vars => TypeOK'
<1> SUFFICES ASSUME TypeOK, [Next]_vars PROVE TypeOK'
  OBVIOUS
<1>1. CASE Environment
  BY <1>1, TypeEnvironment DEF Environment
<1>2. CASE SecProcessingMain
  BY <1>2, TypeSecWait, TypeSecNewPdu, TypeSecDeferred DEF SecProcessingMain
<1>3. CASE ReconstructorMain
  BY <1>3, TypeRecBatch, TypeRecKeyComplete DEF ReconstructorMain
<1>4. CASE UNCHANGED vars
  BY <1>4, Frames DEF vars, sharedVars, TypeOK
<1> QED BY <1>1, <1>2, <1>3, <1>4 DEF Next

\* Every variable keeps its type, and no task ever sends, calls back for,
\* empties or indexes what is not there.
THEOREM TypeCorrect == Spec => []TypeOK
BY TypeInit, TypeNext, PTL DEF Spec

----------------------------------------------------------------------------
\* What each step does to a consumer.

\* Only consumer i changes.
OnlyConsumer(i) ==
    /\ i \in Consumer
    /\ \A j \in Consumer \ {i} : consumer'[j] = consumer[j]

\* Consumer c becomes d, with another cache, and still belongs to the same
\* sender and stands under the same request.
SameSender(c, d) == /\ d.mac_address = c.mac_address
                    /\ d.request_pending = c.request_pending

SameQueue(c, d) == /\ d.deferredQueue = c.deferredQueue
                   /\ d.deferred_queue_count = c.deferred_queue_count

LEMMA OnlyConsumerStep ==
    ASSUME TypeOK, NEW i \in Consumer, NEW d,
           consumer' = [consumer EXCEPT ![i] = d]
    PROVE  OnlyConsumer(i) /\ consumer'[i] = d
BY DEF TypeOK, ConsumerOK, OnlyConsumer

\* A sender takes a consumer that belongs to none.
LEMMA AddConsumerStep ==
    ASSUME TypeOK, SecAddConsumer
    PROVE  LET f == FreeConsumer
               mac == Head(pduBatch).mac
           IN  /\ OnlyConsumer(f)
               /\ mac \in Sender /\ consumer[f].mac_address = NoAddress
               /\ \A j \in Consumer : consumer[j].mac_address # mac
               /\ consumer'[f].mac_address = mac
               /\ consumer'[f].deferredQueue = << >>
               /\ ~ consumer'[f].request_pending
               /\ consumer'[f].key_cache = ClearCache(consumer[f].key_cache)
<1> DEFINE f == FreeConsumer
           mac == Head(pduBatch).mac
           d == [ResetConsumer(consumer[f]) EXCEPT !.mac_address = mac]
<1>1. f \in Consumer /\ consumer[f].mac_address = NoAddress
  BY MacIndex DEF SecAddConsumer, FreeConsumer
<1>2. mac \in Sender
  BY BatchType, PduType DEF SecAddConsumer, TypeOK, SecOK
<1>3. \A j \in Consumer : consumer[j].mac_address # mac
  BY MacIndex DEF SecAddConsumer
<1>4. consumer' = [consumer EXCEPT ![f] = d]
  BY DEF SecAddConsumer
<1>5. /\ d.mac_address = mac /\ d.deferredQueue = << >>
      /\ ~ d.request_pending
      /\ d.key_cache = ClearCache(consumer[f].key_cache)
  BY <1>1 DEF TypeOK, ConsumerOK, ResetConsumer, ConsumerType
<1> HIDE DEF d
<1>6. OnlyConsumer(f) /\ consumer'[f] = d
  BY <1>1, <1>4, OnlyConsumerStep
<1> QED BY <1>1, <1>2, <1>3, <1>5, <1>6

LEMMA AddToDeferredStep ==
    ASSUME NEW c \in ConsumerType, NEW p
    PROVE  LET d == AddToDeferred(c, p)
           IN  /\ SameSender(c, d)
               /\ d.key_cache = c.key_cache
               /\ d.last_pdu_key_id = c.last_pdu_key_id
               /\ d.deferredQueue \in {c.deferredQueue,
                                       Append(c.deferredQueue, p)}
BY DEF AddToDeferred, ConsumerType, SameSender

\* A PDU of the batch changes its sender's consumer c to d.
PduStep(c, d, p) ==
    /\ p \in Pdu /\ p = Head(pduBatch)
    /\ c.mac_address = p.mac
    /\ SameSender(c, d)
    /\ d.last_pdu_key_id = KeyId(p)
    /\ d.key_cache = AfterGet(c.key_cache, Id8(KeyId(p)))

LEMMA SeenStep ==
    ASSUME TypeOK, secPc = "pdu", pduBatch # << >>,
           IndexForMac(Head(pduBatch).mac) # -1
    PROVE  LET p == Head(pduBatch)
               i == IndexForMac(p.mac)
               c == consumer[i]
               d == [LookedUp(c, p) EXCEPT !.last_pdu_key_id = KeyId(p)]
           IN  /\ i \in Consumer /\ PduStep(c, d, p) /\ SameQueue(c, d)
               /\ d \in ConsumerType
               /\ Tail(pduBatch) \in Seq(Pdu)
<1> DEFINE p == Head(pduBatch)
           i == IndexForMac(p.mac)
           c == consumer[i]
           d == [LookedUp(c, p) EXCEPT !.last_pdu_key_id = KeyId(p)]
<1>1. p \in Pdu /\ Tail(pduBatch) \in Seq(Pdu)
  BY BatchType DEF TypeOK, SecOK
<1>2. i \in Consumer /\ c.mac_address = p.mac
  BY MacIndex
<1>3. c \in ConsumerType
  BY <1>2 DEF TypeOK, ConsumerOK
<1>4. d \in ConsumerType
  BY <1>1, <1>3, SeenType
<1>5. /\ SameSender(c, d) /\ SameQueue(c, d)
      /\ d.last_pdu_key_id = KeyId(p)
      /\ d.key_cache = AfterGet(c.key_cache, Id8(KeyId(p)))
  BY <1>3 DEF ConsumerType, LookedUp, SameSender, SameQueue
<1> QED BY <1>1, <1>2, <1>4, <1>5 DEF PduStep

\* A data PDU is deferred, refused by a full queue, or decrypted.
LEMMA DataPduStep ==
    ASSUME TypeOK, SecDataPdu
    PROVE  LET p == Head(pduBatch)
               i == IndexForMac(p.mac)
               c == consumer[i]
               d == consumer'[i]
           IN  /\ OnlyConsumer(i) /\ PduStep(c, d, p)
               /\ Content(p).cmd = "DATA_CMD"
               /\ pduBatch # << >>
               /\ pduBatch' = Tail(pduBatch)
               /\ \/ /\ HasKeyFor(c, p) /\ c.deferred_queue_count = 0
                     /\ d.deferredQueue = c.deferredQueue
                     /\ DecryptAndNotify(KeyFor(c, p), p)
                  \/ /\ ~ HasKeyFor(c, p) \/ c.deferred_queue_count # 0
                     /\ d.deferredQueue \in {c.deferredQueue,
                                             Append(c.deferredQueue, p)}
                     /\ UNCHANGED notified
<1> DEFINE p == Head(pduBatch)
           i == IndexForMac(p.mac)
           c == consumer[i]
           b == [LookedUp(c, p) EXCEPT !.last_pdu_key_id = KeyId(p)]
           defer == ~ HasKeyFor(c, p) \/ IsPduInDeferredQueue(b)
           d == IF defer THEN AddToDeferred(b, p) ELSE b
<1>1. /\ secPc = "pdu" /\ pduBatch # << >> /\ i # -1
      /\ consumer' = [consumer EXCEPT ![i] = d]
      /\ \/ defer /\ UNCHANGED notified
         \/ ~ defer /\ DecryptAndNotify(KeyFor(c, p), p)
  <2>1. secPc = "pdu" /\ pduBatch # << >> /\ i # -1
    BY DEF SecDataPdu
  <2> HIDE DEF defer
  <2>2. \/ /\ defer /\ UNCHANGED notified
           /\ consumer' = [consumer EXCEPT ![i] = AddToDeferred(b, p)]
        \/ /\ ~ defer /\ DecryptAndNotify(KeyFor(c, p), p)
           /\ consumer' = [consumer EXCEPT ![i] = b]
    BY DEF SecDataPdu, defer
  <2> QED BY <2>1, <2>2
<1>2. /\ i \in Consumer /\ PduStep(c, b, p) /\ SameQueue(c, b)
      /\ b \in ConsumerType
  BY <1>1, SeenStep
<1> HIDE DEF b
<1>3. /\ SameSender(b, d) /\ d.key_cache = b.key_cache
      /\ d.last_pdu_key_id = b.last_pdu_key_id
      /\ d.deferredQueue \in {b.deferredQueue, Append(b.deferredQueue, p)}
      /\ ~ defer => d.deferredQueue = b.deferredQueue
  BY <1>2, AddToDeferredStep DEF SameSender
<1>4. defer <=> ~ HasKeyFor(c, p) \/ c.deferred_queue_count # 0
  BY <1>2 DEF SameQueue, IsPduInDeferredQueue
<1> HIDE DEF d
<1>5. OnlyConsumer(i) /\ consumer'[i] = d
  BY <1>1, <1>2, OnlyConsumerStep
<1>6. PduStep(c, d, p)
  BY <1>2, <1>3 DEF PduStep, SameSender
<1>7. d.deferredQueue \in {c.deferredQueue, Append(c.deferredQueue, p)}
  BY <1>2, <1>3 DEF SameQueue
<1>8. ~ defer => d.deferredQueue = c.deferredQueue
  BY <1>2, <1>3 DEF SameQueue
<1> HIDE DEF defer
<1>9. Content(p).cmd = "DATA_CMD" /\ pduBatch' = Tail(pduBatch)
  BY DEF SecDataPdu
<1> QED BY <1>1, <1>4, <1>5, <1>6, <1>7, <1>8, <1>9

LEMMA KeyFragmentStep ==
    ASSUME TypeOK, SecKeyFragmentPdu
    PROVE  LET p == Head(pduBatch)
               i == IndexForMac(p.mac)
               c == consumer[i]
               d == consumer'[i]
           IN  /\ OnlyConsumer(i) /\ PduStep(c, d, p) /\ SameQueue(c, d)
               /\ Content(p).cmd = "KEY_FRAGMENT_CMD"
               /\ pduBatch # << >>
               /\ \/ pduBatch' = Tail(pduBatch) /\ secPc' = "pdu"
                  \/ pduBatch' = pduBatch /\ secPc' = "send"
<1> DEFINE p == Head(pduBatch)
           i == IndexForMac(p.mac)
           c == consumer[i]
           d == [LookedUp(c, p) EXCEPT !.last_pdu_key_id = KeyId(p)]
<1>1. /\ secPc = "pdu" /\ pduBatch # << >> /\ i # -1
      /\ consumer' = [consumer EXCEPT ![i] = d]
      /\ Content(p).cmd = "KEY_FRAGMENT_CMD"
      /\ \/ pduBatch' = Tail(pduBatch) /\ secPc' = "pdu"
         \/ pduBatch' = pduBatch /\ secPc' = "send"
  BY DEF SecKeyFragmentPdu
<1>2. i \in Consumer /\ PduStep(c, d, p) /\ SameQueue(c, d)
  BY <1>1, SeenStep
<1> HIDE DEF d
<1>3. OnlyConsumer(i) /\ consumer'[i] = d
  BY <1>1, <1>2, OnlyConsumerStep
<1> QED BY <1>1, <1>2, <1>3

\* The head of a deferred queue moves to the end of the batch.
LEMMA TakeStep ==
    ASSUME TypeOK, SecTakeDeferred
    PROVE  LET c == consumer[consumerIndex]
               d == consumer'[consumerIndex]
           IN  /\ OnlyConsumer(consumerIndex) /\ SameSender(c, d)
               /\ d.key_cache = c.key_cache
               /\ d.last_pdu_key_id = c.last_pdu_key_id
               /\ c.deferredQueue \in Seq(Pdu) /\ c.deferredQueue # << >>
               /\ d.deferredQueue = Tail(c.deferredQueue)
               /\ pduBatch' = Append(pduBatch, Head(c.deferredQueue))
               /\ Head(c.deferredQueue) \in Pdu
<1> DEFINE c == consumer[consumerIndex]
           d == TakeDeferred(c)
<1>1. consumerIndex \in Consumer /\ c \in ConsumerType
  BY DEF SecTakeDeferred, TypeOK, SecOK, ConsumerOK
<1>2. /\ c.deferredQueue # << >>
      /\ consumer' = [consumer EXCEPT ![consumerIndex] = d]
      /\ pduBatch' = Append(pduBatch, Head(c.deferredQueue))
  BY DEF SecTakeDeferred
<1>3. /\ SameSender(c, d) /\ d.key_cache = c.key_cache
      /\ d.last_pdu_key_id = c.last_pdu_key_id
      /\ d.deferredQueue = Tail(c.deferredQueue)
  BY <1>1 DEF TakeDeferred, ConsumerType, SameSender
<1>4. c.deferredQueue \in Seq(Pdu) /\ Head(c.deferredQueue) \in Pdu
  BY <1>1, <1>2, TakeDeferredType DEF ConsumerType
<1> HIDE DEF d
<1>5. OnlyConsumer(consumerIndex) /\ consumer'[consumerIndex] = d
  BY <1>1, <1>2, OnlyConsumerStep
<1> QED BY <1>2, <1>3, <1>4, <1>5

\* A PDU taken from the deferred queue is decrypted, waits on or is dropped.
LEMMA RedoStep ==
    ASSUME TypeOK, SecRedoPdu
    PROVE  LET p == Head(pduBatch)
               c == consumer[consumerIndex]
               d == consumer'[consumerIndex]
           IN  /\ OnlyConsumer(consumerIndex) /\ SameSender(c, d)
               /\ p \in Pdu /\ pduBatch # << >>
               /\ d.last_pdu_key_id = c.last_pdu_key_id
               /\ pduBatch' = Tail(pduBatch)
               /\ \/ /\ HasKeyFor(c, p)
                     /\ d.deferredQueue = c.deferredQueue
                     /\ d.key_cache = AfterGet(c.key_cache, Id8(KeyId(p)))
                     /\ DecryptAndNotify(KeyFor(c, p), p)
                  \/ /\ ~ HasKeyFor(c, p)
                     /\ d.key_cache = c.key_cache
                     /\ d.deferredQueue = c.deferredQueue
                     /\ UNCHANGED notified
                  \/ /\ ~ HasKeyFor(c, p)
                     /\ d.key_cache = c.key_cache
                     /\ c.last_pdu_key_id = KeyId(p)
                     /\ d.deferredQueue = Append(c.deferredQueue, p)
                     /\ UNCHANGED notified
<1> DEFINE p == Head(pduBatch)
           c == consumer[consumerIndex]
           d == IF HasKeyFor(c, p) THEN LookedUp(c, p)
                ELSE IF KeyId(p) = c.last_pdu_key_id
                     THEN AddToDeferred(c, p) ELSE c
<1>1. consumerIndex \in Consumer /\ c \in ConsumerType
  BY DEF SecRedoPdu, TypeOK, SecOK, ConsumerOK
<1>2. /\ pduBatch # << >> /\ pduBatch' = Tail(pduBatch)
      /\ consumer' = [consumer EXCEPT ![consumerIndex] = d]
      /\ \/ HasKeyFor(c, p) /\ DecryptAndNotify(KeyFor(c, p), p)
         \/ ~ HasKeyFor(c, p) /\ UNCHANGED notified
  BY DEF SecRedoPdu
<1>3. p \in Pdu
  BY <1>2, BatchType DEF TypeOK, SecOK
<1>4. CASE HasKeyFor(c, p)
  <2>1. /\ SameSender(c, d) /\ d.last_pdu_key_id = c.last_pdu_key_id
        /\ d.deferredQueue = c.deferredQueue
        /\ d.key_cache = AfterGet(c.key_cache, Id8(KeyId(p)))
    BY <1>1, <1>4 DEF LookedUp, ConsumerType, SameSender
  <2> HIDE DEF d
  <2>2. OnlyConsumer(consumerIndex) /\ consumer'[consumerIndex] = d
    BY <1>1, <1>2, OnlyConsumerStep
  <2> QED BY <1>2, <1>3, <1>4, <2>1, <2>2
<1>5. CASE ~ HasKeyFor(c, p)
  <2>1. /\ SameSender(c, d) /\ d.last_pdu_key_id = c.last_pdu_key_id
        /\ d.key_cache = c.key_cache
        /\ \/ d.deferredQueue = c.deferredQueue
           \/ /\ c.last_pdu_key_id = KeyId(p)
              /\ d.deferredQueue = Append(c.deferredQueue, p)
    BY <1>1, <1>5, AddToDeferredStep DEF SameSender
  <2> HIDE DEF d
  <2>2. OnlyConsumer(consumerIndex) /\ consumer'[consumerIndex] = d
    BY <1>1, <1>2, OnlyConsumerStep
  <2> QED BY <1>2, <1>3, <1>5, <2>1, <2>2
<1> QED BY <1>4, <1>5

\* The request is withdrawn where nothing waits.
LEMMA RedoDoneStep ==
    ASSUME TypeOK, SecRedoDone
    PROVE  LET c == consumer[consumerIndex]
               d == consumer'[consumerIndex]
           IN  /\ OnlyConsumer(consumerIndex) /\ SameQueue(c, d)
               /\ d.mac_address = c.mac_address
               /\ d.key_cache = c.key_cache
               /\ d.last_pdu_key_id = c.last_pdu_key_id
               /\ \/ SameSender(c, d)
                  \/ c.deferred_queue_count = 0
<1> DEFINE c == consumer[consumerIndex]
           d == [c EXCEPT !.request_pending = FALSE]
<1>1. consumerIndex \in Consumer /\ c \in ConsumerType
  BY DEF SecRedoDone, TypeOK, SecOK, ConsumerOK
<1>2. CASE IsPduInDeferredQueue(c)
  BY <1>1, <1>2 DEF SecRedoDone, SameSender, SameQueue, OnlyConsumer
<1>3. CASE ~ IsPduInDeferredQueue(c)
  <2>1. consumer' = [consumer EXCEPT ![consumerIndex] = d]
    BY <1>3 DEF SecRedoDone
  <2>2. /\ d.mac_address = c.mac_address /\ SameQueue(c, d)
        /\ d.key_cache = c.key_cache
        /\ d.last_pdu_key_id = c.last_pdu_key_id
    BY <1>1 DEF ConsumerType, SameQueue
  <2> HIDE DEF d
  <2>3. OnlyConsumer(consumerIndex) /\ consumer'[consumerIndex] = d
    BY <1>1, <2>1, OnlyConsumerStep
  <2> QED BY <1>3, <2>2, <2>3 DEF IsPduInDeferredQueue
<1> QED BY <1>2, <1>3

\* The call-back changes the sender's cache or its request only.
RecStep(c, d) ==
    /\ OnlyConsumer(RecConsumer)
    /\ c = consumer[RecConsumer] /\ d = consumer'[RecConsumer]
    /\ c.mac_address = RecMac /\ d.mac_address = RecMac
    /\ SameQueue(c, d)
    /\ d.last_pdu_key_id = c.last_pdu_key_id

LEMMA RecCacheStep ==
    ASSUME TypeOK, recPc \in RecWithConsumer, NEW k,
           consumer' = [consumer EXCEPT ![RecConsumer].key_cache = k]
    PROVE  LET c == consumer[RecConsumer]
               d == consumer'[RecConsumer]
           IN  RecStep(c, d) /\ SameSender(c, d) /\ d.key_cache = k
<1> DEFINE c == consumer[RecConsumer]
           d == [c EXCEPT !.key_cache = k]
<1>1. RecConsumer \in Consumer /\ c \in ConsumerType /\ c.mac_address = RecMac
  BY RecConsumerType
<1>2. /\ SameSender(c, d) /\ SameQueue(c, d) /\ d.key_cache = k
      /\ d.last_pdu_key_id = c.last_pdu_key_id
  BY <1>1 DEF SameSender, SameQueue, ConsumerType
<1>3. consumer' = [consumer EXCEPT ![RecConsumer] = d]
  OBVIOUS
<1> HIDE DEF d
<1>4. OnlyConsumer(RecConsumer) /\ consumer'[RecConsumer] = d
  BY <1>1, <1>3, OnlyConsumerStep
<1> QED BY <1>1, <1>2, <1>4 DEF RecStep, SameSender

LEMMA AddKeyStep ==
    ASSUME TypeOK, RecAddKey
    PROVE  LET c == consumer[RecConsumer]
               d == consumer'[RecConsumer]
           IN  /\ RecStep(c, d) /\ SameSender(c, d)
               /\ recPc \in {"add", "readd"}
               /\ d.key_cache = AddKeyToCache(c.key_cache, reconstructedKey,
                                              RecId)
               /\ recPc' = "pending" \/ FreeSlot(c.key_cache) < 0
<1>1. recPc \in RecWithConsumer /\ recPc \in {"add", "readd"}
  BY DEF RecAddKey, RecWithConsumer, RecInCallback
<1>2. consumer' = [consumer EXCEPT ![RecConsumer].key_cache =
                       AddKeyToCache(consumer[RecConsumer].key_cache,
                                     reconstructedKey, RecId)]
  BY DEF RecAddKey
<1>3. recPc' = "pending" \/ FreeSlot(consumer[RecConsumer].key_cache) < 0
  BY DEF RecAddKey, AddStatus, RecCache
<1> QED BY <1>1, <1>2, <1>3, RecCacheStep

LEMMA RemoveLruStep ==
    ASSUME TypeOK, RecRemoveLru
    PROVE  LET c == consumer[RecConsumer]
               d == consumer'[RecConsumer]
           IN  /\ RecStep(c, d) /\ SameSender(c, d)
               /\ lruIndex \in Slot
               /\ d.key_cache = RemoveAt(c.key_cache, lruIndex)
               /\ recPc' = "readd"
<1>1. recPc \in RecWithConsumer /\ lruIndex \in Slot
  BY DEF RecRemoveLru, RecWithConsumer, RecInCallback, TypeOK, RecOK
<1>2. consumer' = [consumer EXCEPT ![RecConsumer].key_cache =
                       RemoveAt(consumer[RecConsumer].key_cache, lruIndex)]
  BY DEF RecRemoveLru
<1> QED BY <1>1, <1>2, RecCacheStep DEF RecRemoveLru

LEMMA RequestStep ==
    ASSUME TypeOK, RecRequestDeferred
    PROVE  LET c == consumer[RecConsumer]
               d == consumer'[RecConsumer]
           IN  /\ RecStep(c, d) /\ d.key_cache = c.key_cache
               /\ d.request_pending
<1> DEFINE c == consumer[RecConsumer]
           d == [c EXCEPT !.request_pending = TRUE]
<1>1. RecConsumer \in Consumer /\ c \in ConsumerType /\ c.mac_address = RecMac
  <2>1. recPc \in RecWithConsumer
    BY DEF RecRequestDeferred, RecWithConsumer, RecInCallback
  <2> QED BY <2>1, RecConsumerType
<1>2. /\ SameQueue(c, d) /\ d.key_cache = c.key_cache /\ d.request_pending
      /\ d.mac_address = c.mac_address
      /\ d.last_pdu_key_id = c.last_pdu_key_id
  BY <1>1 DEF SameQueue, ConsumerType
<1>3. consumer' = [consumer EXCEPT ![RecConsumer] = d]
  BY DEF RecRequestDeferred
<1> HIDE DEF d
<1>4. OnlyConsumer(RecConsumer) /\ consumer'[RecConsumer] = d
  BY <1>1, <1>3, OnlyConsumerStep
<1> QED BY <1>1, <1>2, <1>4 DEF RecStep

\* The steps that change no consumer.
ConsumerChanges ==
    \/ SecAddConsumer \/ SecDataPdu \/ SecKeyFragmentPdu \/ SecTakeDeferred
    \/ SecRedoPdu \/ SecRedoDone
    \/ SecBlocked /\ RecAddKey
    \/ SecBlocked /\ RecRemoveLru
    \/ SecBlocked /\ RecRequestDeferred

LEMMA ConsumerFrame ==
    ASSUME [Next]_vars, ~ ConsumerChanges
    PROVE  UNCHANGED <<consumer, notified>>
BY DEF ConsumerChanges, Next, Environment, EnqueuePduForProcessing, LosePdu,
       SecProcessingMain, SecWait, SecNewPdu, SecDeferred, SecCollect,
       SecCollected, SecSkipPdu, SecSendFragment, SecSendTimeout,
       SecBatchDone, SecNextConsumer, SecDeferredDone, SecTakenDeferred,
       ReconstructorMain, RecWait, RecCollect, RecCollected, RecFragment,
       RecBatchDone, RecKeyComplete, RecCallback, RecFindLru, RecSignal,
       RecRemoveKey, vars, sharedVars, outVars

LEMMA NotifiedFrame ==
    ASSUME [Next]_vars, ~ SecDataPdu, ~ SecRedoPdu
    PROVE  UNCHANGED notified
BY DEF Next, Environment, EnqueuePduForProcessing, LosePdu,
       SecProcessingMain, SecWait, SecNewPdu, SecDeferred, SecCollect,
       SecCollected, SecAddConsumer, SecSkipPdu, SecKeyFragmentPdu,
       SecSendFragment, SecSendTimeout, SecBatchDone, SecNextConsumer,
       SecDeferredDone, SecTakeDeferred, SecTakenDeferred, SecRedoDone,
       ReconstructorMain, RecWait, RecCollect, RecCollected, RecFragment,
       RecBatchDone, RecKeyComplete, RecCallback, RecAddKey, RecFindLru,
       RecRemoveLru, RecRequestDeferred, RecSignal, RecRemoveKey, vars,
       sharedVars, outVars

\* A PDU that is decrypted is the last thing its sender's observers got.
LEMMA NotifiedStep ==
    ASSUME TypeOK, NEW p \in Pdu, NEW k, DecryptAndNotify(k, p)
    PROVE  /\ \A s \in Sender \ {p.mac} : notified'[s] = notified[s]
           /\ notified'[p.mac] = Append(notified[p.mac],
                                        [no |-> p.no, key |-> k])
           /\ notified[p.mac] \in Seq([no : Nat, key : KeyValue])
BY PduType DEF DecryptAndNotify, TypeOK, ConsumerOK

----------------------------------------------------------------------------
\* What the collection of keys says of itself.

\* The fragments an entry flags.
Decrypted(x) == {f \in Fragment : x.decrypted_key_fragments[f]}

\* An entry counts the fragments it has, has those it flags, each taken from
\* a session that may be there, and is zero until a sender uses it.
EntrySound(x) ==
    /\ x.no_collected_key_fragments = Cardinality(Decrypted(x))
    /\ \A f \in Fragment :
           IF x.decrypted_key_fragments[f]
           THEN MayHold(x.consumer_mac_address, x.key_id, x.key_fragments[f])
           ELSE x.key_fragments[f] = NoFragment
    /\ x.consumer_mac_address = NoAddress => x = ZeroEntry

\* No two entries are for the same key of the same sender.
OneEntryPerKey(km) ==
    \A d, e \in Entry :
        /\ km[d].key_id = km[e].key_id
        /\ km[d].consumer_mac_address = km[e].consumer_mac_address
        /\ d # e
        => km[e].consumer_mac_address = NoAddress

\* What each function of key_management.c keeps.
CollectionSound(km) == /\ km \in Collection(Sender, Session)
                       /\ \A e \in Entry : EntrySound(km[e])
                       /\ OneEntryPerKey(km)

LEMMA FragmentsFinite ==
    /\ IsFiniteSet(Fragment) /\ Cardinality(Fragment) = NUM_FRAGMENTS
    /\ \A S \in SUBSET Fragment : IsFiniteSet(S) /\ Cardinality(S) \in Nat
<1>1. NUM_FRAGMENTS \in Nat /\ NUM_FRAGMENTS > 0
  BY CollectionAssumption
<1>2. /\ IsFiniteSet(0 .. NUM_FRAGMENTS - 1)
      /\ Cardinality(0 .. NUM_FRAGMENTS - 1) = NUM_FRAGMENTS
  <2>1. 0 \in Int /\ NUM_FRAGMENTS - 1 \in Int
    BY <1>1
  <2> QED BY <1>1, <2>1, FS_Interval
<1>3. ASSUME NEW S \in SUBSET Fragment
      PROVE  IsFiniteSet(S) /\ Cardinality(S) \in Nat
  <2>1. IsFiniteSet(S)
    BY <1>2, FS_Subset DEF Fragment
  <2> QED BY <2>1, FS_CardinalityType
<1> QED BY <1>2, <1>3 DEF Fragment

\* What looks free may be taken by any key, with what it still holds.
LEMMA FreeLooking ==
    ASSUME NEW mac, NEW k, MayHold(mac, FREE, k)
    PROVE  \A m, id : MayHold(m, id, k)
BY DEF MayHold

LEMMA ZeroEntrySound == EntrySound(ZeroEntry)
<1>1. Decrypted(ZeroEntry) = {}
  BY DEF Decrypted, ZeroEntry
<1>2. Cardinality(Decrypted(ZeroEntry)) = 0
  BY <1>1, FS_EmptySet
<1> QED BY <1>1, <1>2 DEF EntrySound, ZeroEntry

\* A search of the collection finds an entry that is the key's, or there is
\* none.
LEMMA KeyIndexHit ==
    ASSUME NEW km, NEW mac, NEW id
    PROVE  /\ IsKeyInCollection(km, mac, id) =>
                  /\ KeyIndex(km, mac, id) \in Entry
                  /\ km[KeyIndex(km, mac, id)].key_id = id
                  /\ km[KeyIndex(km, mac, id)].consumer_mac_address = mac
           /\ ~ IsKeyInCollection(km, mac, id) =>
                  \A e \in Entry : ~ (/\ km[e].key_id = id
                                      /\ km[e].consumer_mac_address = mac)
<1> DEFINE S == {e \in Entry : /\ km[e].key_id = id
                               /\ km[e].consumer_mac_address = mac}
<1>1. FirstOf(S) \in S \cup {-1} /\ (FirstOf(S) = -1 <=> S = {})
  <2>1. S \in SUBSET Entry
    OBVIOUS
  <2> HIDE DEF S
  <2> QED BY <2>1, EntryScan
<1>2. KeyIndex(km, mac, id) = FirstOf(S)
  BY DEF KeyIndex
<1>3. IsKeyInCollection(km, mac, id) <=> FirstOf(S) # -1
  <2>1. \A x \in S : x >= 0
    BY DEF Entry
  <2> QED BY <1>1, <1>2, <2>1 DEF IsKeyInCollection
<1> QED BY <1>1, <1>2, <1>3

LEMMA AddNewKeySound ==
    ASSUME NEW km, CollectionSound(km), NEW mac \in Sender,
           NEW id \in 0 .. 255, ~ IsKeyInCollection(km, mac, id)
    PROVE  CollectionSound(AddNewKey(km, mac, id))
<1> DEFINE S == {x \in Entry : km[x].key_id = 0}
           e == FirstOf(S)
           y == [km[e] EXCEPT !.key_id = id, !.consumer_mac_address = mac]
           k == AddNewKey(km, mac, id)
<1>1. k \in Collection(Sender, Session)
  <2>1. km \in Collection(Sender, Session)
    BY DEF CollectionSound
  <2> QED BY <2>1, AddNewKeyType
<1>2. e \in S \cup {-1}
  <2>1. S \in SUBSET Entry
    OBVIOUS
  <2> HIDE DEF S
  <2> QED BY <2>1, EntryScan
<1>3. CASE e < 0
  BY <1>3 DEF AddNewKey
<1>4. CASE ~ (e < 0)
  <2>1. /\ e \in Entry /\ km[e].key_id = FREE /\ EntrySound(km[e])
        /\ km[e] \in EntryType(Sender, Session)
    BY <1>2, <1>4 DEF CollectionSound, Collection, FREE
  <2>2. k = [km EXCEPT ![e] = y]
    BY <1>4 DEF AddNewKey
  <2>3. /\ y.key_id = id /\ y.consumer_mac_address = mac
        /\ y.decrypted_key_fragments = km[e].decrypted_key_fragments
        /\ y.key_fragments = km[e].key_fragments
        /\ y.no_collected_key_fragments = km[e].no_collected_key_fragments
    BY <2>1 DEF EntryType
  <2> HIDE DEF y, k, e
  <2>4. EntrySound(y)
    <3>1. Decrypted(y) = Decrypted(km[e])
      BY <2>3 DEF Decrypted
    <3>2. mac # NoAddress
      BY TrafficAssumption
    <3>3. \A f \in Fragment :
              IF y.decrypted_key_fragments[f]
              THEN MayHold(mac, id, y.key_fragments[f])
              ELSE y.key_fragments[f] = NoFragment
      BY <2>1, <2>3, FreeLooking DEF EntrySound
    <3> QED BY <2>1, <2>3, <3>1, <3>2, <3>3 DEF EntrySound
  <2>5. \A x \in Entry : k[x] = IF x = e THEN y ELSE km[x]
    BY <2>1, <2>2 DEF CollectionSound, Collection
  <2>6. \A x \in Entry : EntrySound(k[x])
    BY <2>4, <2>5 DEF CollectionSound
  <2>7. \A x \in Entry : ~ (/\ km[x].key_id = id
                            /\ km[x].consumer_mac_address = mac)
    BY KeyIndexHit
  <2>8. OneEntryPerKey(k)
    BY <2>3, <2>5, <2>7 DEF CollectionSound, OneEntryPerKey
  <2> QED BY <1>1, <2>6, <2>8 DEF CollectionSound, k
<1> QED BY <1>3, <1>4

LEMMA AddFragmentSound ==
    ASSUME NEW km, CollectionSound(km), NEW mac \in Sender,
           NEW id \in 0 .. 255, NEW f \in Fragment, NEW v \in Session,
           MayHold(mac, id, v), ~ IsKeyFragmentDecrypted(km, mac, id, f)
    PROVE  CollectionSound(AddFragment(km, mac, id, f, v))
<1> DEFINE e == KeyIndex(km, mac, id)
           x == km[e]
           y == [x EXCEPT !.key_fragments[f] = v,
                          !.decrypted_key_fragments[f] = TRUE,
                          !.no_collected_key_fragments = @ + 1]
           k == AddFragment(km, mac, id, f, v)
<1>1. k \in Collection(Sender, Session)
  BY AddFragmentType DEF CollectionSound
<1>2. CASE e < 0
  BY <1>2 DEF AddFragment
<1>3. CASE ~ (e < 0)
  <2>1. /\ e \in Entry /\ x.key_id = id /\ x.consumer_mac_address = mac
        /\ IsKeyInCollection(km, mac, id)
    <3>1. e \in Entry
      BY <1>3, KeyIndexType
    <3>2. IsKeyInCollection(km, mac, id)
      BY <3>1, KeyIndexType
    <3> QED BY <3>1, <3>2, KeyIndexHit
  <2>2. x \in EntryType(Sender, Session) /\ EntrySound(x)
    BY <2>1 DEF CollectionSound, Collection
  <2>3. ~ x.decrypted_key_fragments[f]
    BY <2>1 DEF IsKeyFragmentDecrypted
  <2>4. k = [km EXCEPT ![e] = y]
    BY <1>3 DEF AddFragment
  <2>5. /\ y.key_id = id /\ y.consumer_mac_address = mac
        /\ \A g \in Fragment :
               /\ y.decrypted_key_fragments[g] =
                      IF g = f THEN TRUE ELSE x.decrypted_key_fragments[g]
               /\ y.key_fragments[g] = IF g = f THEN v ELSE x.key_fragments[g]
        /\ y.no_collected_key_fragments = x.no_collected_key_fragments + 1
    BY <2>1, <2>2 DEF EntryType
  <2> HIDE DEF y, k, e, x
  <2>6. EntrySound(y)
    <3>1. Decrypted(y) = Decrypted(x) \cup {f} /\ f \notin Decrypted(x)
      BY <2>3, <2>5 DEF Decrypted
    <3>2. IsFiniteSet(Decrypted(x)) /\ Cardinality(Decrypted(x)) \in Nat
      BY FragmentsFinite DEF Decrypted
    <3>3. y.no_collected_key_fragments = Cardinality(Decrypted(y))
      <4>1. Cardinality(Decrypted(x) \cup {f}) = Cardinality(Decrypted(x)) + 1
        BY <3>1, <3>2, FS_AddElement
      <4> QED BY <2>2, <2>5, <3>1, <4>1 DEF EntrySound
    <3>4. mac # NoAddress
      BY TrafficAssumption
    <3>5. \A g \in Fragment :
              IF y.decrypted_key_fragments[g]
              THEN MayHold(mac, id, y.key_fragments[g])
              ELSE y.key_fragments[g] = NoFragment
      BY <2>1, <2>2, <2>5 DEF EntrySound
    <3> QED BY <2>5, <3>3, <3>4, <3>5 DEF EntrySound
  <2>7. \A z \in Entry : k[z] = IF z = e THEN y ELSE km[z]
    BY <2>1, <2>4 DEF CollectionSound, Collection
  <2>8. \A z \in Entry : EntrySound(k[z])
    BY <2>6, <2>7 DEF CollectionSound
  <2>9. OneEntryPerKey(k)
    <3>1. \A z \in Entry : /\ k[z].key_id = km[z].key_id
                           /\ k[z].consumer_mac_address =
                                  km[z].consumer_mac_address
      BY <2>1, <2>5, <2>7 DEF x
    <3> QED BY <3>1 DEF CollectionSound, OneEntryPerKey
  <2> QED BY <1>1, <2>8, <2>9 DEF CollectionSound, k
<1> QED BY <1>2, <1>3

LEMMA RemoveKeySound ==
    ASSUME NEW km, CollectionSound(km), NEW mac, NEW id
    PROVE  CollectionSound(RemoveKey(km, mac, id))
<1> DEFINE e == KeyIndex(km, mac, id)
           k == RemoveKey(km, mac, id)
<1>1. k \in Collection(Sender, Session)
  BY RemoveKeyType DEF CollectionSound
<1>2. e \in Entry \cup {-1}
  BY KeyIndexType
<1>3. k = IF e < 0 THEN km ELSE [km EXCEPT ![e] = ZeroEntry]
  BY DEF RemoveKey
<1> HIDE DEF e
<1>4. \A z \in Entry : k[z] = IF z = e THEN ZeroEntry ELSE km[z]
  BY <1>2, <1>3 DEF CollectionSound, Collection, Entry
<1>5. \A z \in Entry : EntrySound(k[z])
  BY <1>4, ZeroEntrySound DEF CollectionSound
<1>6. OneEntryPerKey(k)
  BY <1>4 DEF CollectionSound, OneEntryPerKey, ZeroEntry
<1> QED BY <1>1, <1>5, <1>6 DEF CollectionSound

\* A key of fragments that may all be with this sender and identifier.
IsKeyOf(mac, id, key) == /\ key \in [Fragment -> Session]
                         /\ \A f \in Fragment : MayHold(mac, id, key[f])

LEMMA ReconstructKeySound ==
    ASSUME NEW km, CollectionSound(km), NEW mac, NEW id,
           IsKeyAvailable(km, mac, id)
    PROVE  IsKeyOf(mac, id, ReconstructKey(km, mac, id))
<1> DEFINE x == km[KeyIndex(km, mac, id)]
<1>1. /\ x \in EntryType(Sender, Session) /\ EntrySound(x)
      /\ x.key_id = id /\ x.consumer_mac_address = mac
      /\ x.no_collected_key_fragments = NUM_FRAGMENTS
  BY KeyIndexHit DEF IsKeyAvailable, CollectionSound, Collection
<1>2. ReconstructKey(km, mac, id) = x.key_fragments
  BY DEF ReconstructKey
<1> HIDE DEF x
<1>3. Decrypted(x) = Fragment
  <2>1. Cardinality(Decrypted(x)) = Cardinality(Fragment)
    BY <1>1, FragmentsFinite DEF EntrySound
  <2>2. Decrypted(x) \in SUBSET Fragment
    BY DEF Decrypted
  <2> QED BY <2>1, <2>2, FragmentsFinite, FS_Subset
<1>4. \A f \in Fragment : x.decrypted_key_fragments[f]
  BY <1>3 DEF Decrypted
<1>5. \A f \in Fragment : MayHold(mac, id, x.key_fragments[f])
  BY <1>1, <1>4 DEF EntrySound
<1>6. x.key_fragments \in [Fragment -> Session]
  BY <1>1, <1>5 DEF EntryType, MayHold
<1> QED BY <1>2, <1>5, <1>6 DEF IsKeyOf

----------------------------------------------------------------------------
\* The reconstruction task and the collection.

LEMMA CollectionFrame ==
    ASSUME [Next]_vars, ~ (SecBlocked /\ RecFragment),
           ~ (SecBlocked /\ RecRemoveKey)
    PROVE  UNCHANGED keyCollection
BY DEF Next, Environment, EnqueuePduForProcessing, LosePdu,
       SecProcessingMain, SecWait, SecNewPdu, SecDeferred, SecCollect,
       SecCollected, SecAddConsumer, SecSkipPdu, SecDataPdu,
       SecKeyFragmentPdu, SecSendFragment, SecSendTimeout, SecBatchDone,
       SecNextConsumer, SecDeferredDone, SecTakeDeferred, SecTakenDeferred,
       SecRedoPdu, SecRedoDone, ReconstructorMain, RecWait, RecCollect,
       RecCollected, RecBatchDone, RecKeyComplete, RecCallback, RecAddKey,
       RecFindLru, RecRemoveLru, RecRequestDeferred, RecSignal, vars,
       sharedVars, keyVars

\* What a turn of the loop over the fragments does with the entry found or
\* taken for the fragment.
RecPdu == Head(keyFragmentBatch)
Taken == IF IsKeyInCollection(keyCollection, RecMac, RecId)
         THEN keyCollection ELSE AddNewKey(keyCollection, RecMac, RecId)
Stores == /\ Content(RecPdu).authentic
          /\ ~ IsKeyFragmentDecrypted(Taken, RecMac, RecId,
                                      Content(RecPdu).fragment)

LEMMA PduSession ==
    ASSUME NEW p \in Pdu
    PROVE  Content(p).session \in SessionsOf(p.mac)
<1>1. p.mac \in Sender /\ p.no \in 1 .. Len(Traffic[p.mac])
  BY DEF Pdu
<1>2. Traffic[p.mac] \in Seq(PduContent)
  BY <1>1, TrafficAssumption
<1> QED BY <1>1, <1>2 DEF SessionsOf, Content

LEMMA FragmentStep ==
    ASSUME TypeOK, RecFragment
    PROVE  /\ RecPdu \in Pdu /\ keyFragmentBatch # << >>
           /\ RecMac \in Sender /\ RecId \in 0 .. 255
           /\ Content(RecPdu).fragment \in Fragment
           /\ Content(RecPdu).session \in Session
           /\ MayHold(RecMac, RecId, Content(RecPdu).session)
           /\ keyCollection' =
                  IF Stores
                  THEN AddFragment(Taken, RecMac, RecId,
                                   Content(RecPdu).fragment,
                                   Content(RecPdu).session)
                  ELSE Taken
           /\ \/ /\ IsKeyAvailable(keyCollection', RecMac, RecId)
                 /\ reconstructedKey' =
                        ReconstructKey(keyCollection', RecMac, RecId)
                 /\ recPc' = "callback"
                 /\ UNCHANGED keyFragmentBatch
              \/ /\ ~ IsKeyAvailable(keyCollection', RecMac, RecId)
                 /\ recPc' = "fragment"
           /\ UNCHANGED <<consumer, notified, sent, processingQueue,
                          pduBatch, secPc, consumerIndex, fragmentQueue,
                          overflowed>>
<1>1. keyFragmentBatch # << >>
  BY DEF RecFragment
<1>2. /\ RecPdu \in Pdu /\ RecMac \in Sender /\ RecId \in 0 .. 255
  BY <1>1, RecHead DEF RecPdu
<1>3. Content(RecPdu) \in PduContent
  BY <1>2, PduType
<1>4. MayHold(RecMac, RecId, Content(RecPdu).session)
  <2>1. /\ RecPdu.mac = RecMac /\ Id8(KeyId(RecPdu)) = RecId
        /\ Content(RecPdu).session \in Session
    BY <1>3 DEF RecMac, RecId, RecPdu, PduContent
  <2> QED BY <1>2, <2>1, PduSession DEF MayHold, KeyId
<1>5. keyCollection' =
          IF Stores
          THEN AddFragment(Taken, RecMac, RecId, Content(RecPdu).fragment,
                           Content(RecPdu).session)
          ELSE Taken
  BY DEF RecFragment, Stores, Taken, RecPdu
<1>6. \/ /\ IsKeyAvailable(keyCollection', RecMac, RecId)
         /\ reconstructedKey' = ReconstructKey(keyCollection', RecMac, RecId)
         /\ recPc' = "callback"
         /\ UNCHANGED keyFragmentBatch
      \/ /\ ~ IsKeyAvailable(keyCollection', RecMac, RecId)
         /\ recPc' = "fragment"
  BY DEF RecFragment
<1> QED BY <1>1, <1>2, <1>3, <1>4, <1>5, <1>6
        DEF PduContent, RecFragment, outVars, inVars, airVars, secVars

LEMMA CollectionInit == Init => CollectionSound(keyCollection)
<1> SUFFICES ASSUME Init PROVE CollectionSound(keyCollection)
  OBVIOUS
<1>1. keyCollection = NewKeyCollection
  BY DEF Init
<1>2. \A e \in Entry : keyCollection[e] = ZeroEntry
  BY <1>1 DEF NewKeyCollection
<1>3. OneEntryPerKey(keyCollection)
  BY <1>2 DEF OneEntryPerKey, ZeroEntry
<1> QED BY <1>1, <1>2, <1>3, NewKeyCollectionType, ZeroEntrySound
        DEF CollectionSound

LEMMA CollectionNext ==
    ASSUME TypeOK, CollectionSound(keyCollection), [Next]_vars
    PROVE  CollectionSound(keyCollection)'
<1>1. CASE RecFragment
  <2>2. CollectionSound(Taken)
    BY <1>1, FragmentStep, AddNewKeySound DEF Taken
  <2>3. Stores => CollectionSound(AddFragment(Taken, RecMac, RecId,
                                      Content(RecPdu).fragment,
                                      Content(RecPdu).session))
    BY <1>1, <2>2, FragmentStep, AddFragmentSound DEF Stores
  <2>4. CollectionSound(keyCollection')
    BY <1>1, <2>2, <2>3, FragmentStep
  <2> QED BY <2>4 DEF CollectionSound, EntrySound, OneEntryPerKey,
                      Collection, Decrypted, MayHold, SessionsOf
<1>2. CASE RecRemoveKey
  <2>1. CollectionSound(keyCollection')
    BY <1>2, RemoveKeySound DEF RecRemoveKey
  <2> QED BY <2>1 DEF CollectionSound, EntrySound, OneEntryPerKey,
                      Collection, Decrypted, MayHold, SessionsOf
<1>3. CASE ~ RecFragment /\ ~ RecRemoveKey
  <2>1. UNCHANGED keyCollection
    BY <1>3, CollectionFrame
  <2> QED BY <2>1
<1> QED BY <1>1, <1>2, <1>3

\* What an entry of the collection says of itself is true, and no key has two
\* entries (key_management.c:39-54, 99-147), whatever the identifiers, the
\* one that makes an entry look free included.
THEOREM CollectionRight == Spec => []CollectionConsistent
<1>1. CollectionSound(keyCollection) => CollectionConsistent
  BY DEF CollectionSound, EntrySound, OneEntryPerKey, CollectionConsistent,
         Decrypted
<1>2. TypeOK /\ CollectionSound(keyCollection) /\ [Next]_vars
          => CollectionSound(keyCollection)'
  BY CollectionNext
<1> QED BY <1>1, <1>2, CollectionInit, TypeInit, TypeNext, PTL DEF Spec

\* Only the entry the call-back is for is complete.
Incomplete(x) == x.no_collected_key_fragments < NUM_FRAGMENTS

OneComplete ==
    \A e \in Entry :
        \/ Incomplete(keyCollection[e])
        \/ /\ recPc \in RecInCallback
           /\ e = KeyIndex(keyCollection, RecMac, RecId)

LEMMA AddFragmentIndex ==
    ASSUME NEW km \in Collection(Sender, Session), NEW mac, NEW id,
           NEW f \in Fragment, NEW v
    PROVE  LET k == AddFragment(km, mac, id, f, v)
               e == KeyIndex(km, mac, id)
           IN  /\ KeyIndex(k, mac, id) = e
               /\ \A z \in Entry \ {e} : k[z] = km[z]
               /\ e \in Entry => k[e].no_collected_key_fragments =
                                     km[e].no_collected_key_fragments + 1
<1> DEFINE k == AddFragment(km, mac, id, f, v)
           e == KeyIndex(km, mac, id)
           y == [km[e] EXCEPT !.key_fragments[f] = v,
                              !.decrypted_key_fragments[f] = TRUE,
                              !.no_collected_key_fragments = @ + 1]
<1>1. e \in Entry \cup {-1}
  BY KeyIndexType
<1>2. k = IF e < 0 THEN km ELSE [km EXCEPT ![e] = y]
  BY DEF AddFragment
<1>3. e \in Entry => /\ y.key_id = km[e].key_id
                     /\ y.consumer_mac_address = km[e].consumer_mac_address
                     /\ y.no_collected_key_fragments =
                            km[e].no_collected_key_fragments + 1
  BY DEF Collection, EntryType
<1> HIDE DEF y
<1>4. \A z \in Entry : k[z] = IF z = e THEN y ELSE km[z]
  <2> HIDE DEF e, k
  <2> QED BY <1>1, <1>2 DEF Collection, Entry
<1>5. \A z \in Entry : /\ k[z].key_id = km[z].key_id
                       /\ k[z].consumer_mac_address =
                              km[z].consumer_mac_address
  BY <1>3, <1>4
<1>6. KeyIndex(k, mac, id) = e
  <2> HIDE DEF k
  <2>1. {x \in Entry : /\ k[x].key_id = id /\ k[x].consumer_mac_address = mac}
      = {x \in Entry : /\ km[x].key_id = id
                       /\ km[x].consumer_mac_address = mac}
    BY <1>5
  <2> QED BY <2>1 DEF KeyIndex
<1> QED BY <1>3, <1>4, <1>6

LEMMA AddNewKeyCounts ==
    ASSUME NEW km \in Collection(Sender, Session), NEW mac, NEW id
    PROVE  \A e \in Entry :
               AddNewKey(km, mac, id)[e].no_collected_key_fragments =
                   km[e].no_collected_key_fragments
<1> DEFINE a == FirstOf({x \in Entry : km[x].key_id = 0})
           y == [km[a] EXCEPT !.key_id = id, !.consumer_mac_address = mac]
           k == AddNewKey(km, mac, id)
<1>1. a \in Entry \cup {-1}
  <2>1. {x \in Entry : km[x].key_id = 0} \in SUBSET Entry
    OBVIOUS
  <2> QED BY <2>1, EntryScan
<1>2. a \in Entry => y.no_collected_key_fragments =
                         km[a].no_collected_key_fragments
  BY DEF Collection, EntryType
<1>3. k = IF a < 0 THEN km ELSE [km EXCEPT ![a] = y]
  BY DEF AddNewKey
<1> HIDE DEF y, a, k
<1> QED BY <1>1, <1>2, <1>3 DEF Collection, k

LEMMA OneCompleteInit == Init => OneComplete
BY CollectionAssumption
   DEF Init, OneComplete, NewKeyCollection, ZeroEntry, Incomplete

\* No entry is complete before a fragment is stored.
LEMMA TakenIncomplete ==
    ASSUME TypeOK, OneComplete, RecFragment
    PROVE  /\ Taken \in Collection(Sender, Session)
           /\ \A e \in Entry : Incomplete(Taken[e])
<1>1. Taken \in Collection(Sender, Session)
  BY FragmentStep, AddNewKeyType DEF Taken, TypeOK, KeyOK, Collection
<1>2. \A e \in Entry : Incomplete(keyCollection[e])
  BY DEF RecFragment, OneComplete, RecInCallback
<1>3. keyCollection \in Collection(Sender, Session)
  BY DEF TypeOK, KeyOK, Collection
<1> QED BY <1>1, <1>2, <1>3, AddNewKeyCounts DEF Incomplete, Taken

\* While a fragment is looked at, no entry is complete.
LEMMA OneCompleteFragment ==
    ASSUME TypeOK, OneComplete, RecFragment PROVE OneComplete'
<1> DEFINE k == keyCollection'
           i == KeyIndex(Taken, RecMac, RecId)
<1>1. NUM_FRAGMENTS \in Nat
  BY CollectionAssumption
<1>2. Taken \in Collection(Sender, Session)
  BY TakenIncomplete
<1>3. \A e \in Entry : Incomplete(Taken[e])
  BY TakenIncomplete
<1>4. \A e \in Entry : Taken[e].no_collected_key_fragments \in Nat
  BY <1>2 DEF Collection, EntryType
<1>5. CASE ~ Stores
  <2>1. k = Taken
    BY <1>5, FragmentStep
  <2> QED BY <1>3, <2>1 DEF OneComplete, Incomplete
<1>6. CASE Stores
  <2>1. k = AddFragment(Taken, RecMac, RecId, Content(RecPdu).fragment,
                        Content(RecPdu).session)
    BY <1>6, FragmentStep
  <2>2. /\ KeyIndex(k, RecMac, RecId) = i
        /\ \A z \in Entry \ {i} : k[z] = Taken[z]
        /\ i \in Entry => k[i].no_collected_key_fragments =
                              Taken[i].no_collected_key_fragments + 1
    BY <1>2, <2>1, FragmentStep, AddFragmentIndex
  <2>3. \A z \in Entry \ {i} : Incomplete(k[z])
    BY <1>3, <2>2
  <2>4. CASE IsKeyAvailable(k, RecMac, RecId)
    <3>1. recPc' = "callback" /\ UNCHANGED keyFragmentBatch
      BY <2>4, FragmentStep
    <3>2. RecMac' = RecMac /\ RecId' = RecId
      BY <3>1 DEF RecMac, RecId, KeyId, Content
    <3> QED BY <2>2, <2>3, <3>1, <3>2
            DEF OneComplete, RecInCallback, Incomplete
  <2>5. CASE ~ IsKeyAvailable(k, RecMac, RecId)
    <3>1. ASSUME i \in Entry PROVE Incomplete(k[i])
      <4>1. IsKeyInCollection(k, RecMac, RecId)
        BY <2>2, <3>1, KeyIndexType
      <4>2. k[i].no_collected_key_fragments # NUM_FRAGMENTS
        BY <2>2, <2>5, <4>1 DEF IsKeyAvailable
      <4>3. /\ Taken[i].no_collected_key_fragments < NUM_FRAGMENTS
            /\ Taken[i].no_collected_key_fragments \in Nat
        BY <1>3, <1>4, <3>1 DEF Incomplete
      <4> QED BY <1>1, <2>2, <3>1, <4>2, <4>3 DEF Incomplete
    <3> QED BY <2>3, <3>1 DEF OneComplete, Incomplete
  <2> QED BY <2>4, <2>5
<1> QED BY <1>5, <1>6

LEMMA OneCompleteNext == TypeOK /\ OneComplete /\ [Next]_vars => OneComplete'
<1> SUFFICES ASSUME TypeOK, OneComplete, [Next]_vars PROVE OneComplete'
  OBVIOUS
<1>1. CASE RecFragment
  BY <1>1, OneCompleteFragment
<1>2. CASE RecRemoveKey
  <2> DEFINE e == KeyIndex(keyCollection, RecMac, RecId)
  <2>1. e \in Entry \cup {-1}
    BY KeyIndexType
  <2>2. keyCollection' = IF e < 0 THEN keyCollection
                                  ELSE [keyCollection EXCEPT ![e] = ZeroEntry]
    BY <1>2 DEF RecRemoveKey, RemoveKey
  <2>3. \A z \in Entry : z # e => Incomplete(keyCollection[z])
    BY DEF OneComplete
  <2>4. Incomplete(ZeroEntry)
    BY CollectionAssumption DEF ZeroEntry, Incomplete
  <2> HIDE DEF e
  <2>5. \A z \in Entry : Incomplete(keyCollection'[z])
    BY <2>1, <2>2, <2>3, <2>4 DEF TypeOK, KeyOK, Entry
  <2> QED BY <2>5 DEF OneComplete, Incomplete
<1>3. CASE ~ RecFragment /\ ~ RecRemoveKey
  <2>1. UNCHANGED keyCollection
    BY <1>3, CollectionFrame
  <2>2. recPc \in RecInCallback =>
            recPc' \in RecInCallback /\ UNCHANGED keyFragmentBatch
    BY <1>3
       DEF Next, Environment, EnqueuePduForProcessing, LosePdu,
           SecProcessingMain, SecWait, SecNewPdu, SecDeferred, SecCollect,
           SecCollected, SecAddConsumer, SecSkipPdu, SecDataPdu,
           SecKeyFragmentPdu, SecSendFragment, SecSendTimeout, SecBatchDone,
           SecNextConsumer, SecDeferredDone, SecTakeDeferred,
           SecTakenDeferred, SecRedoPdu, SecRedoDone, ReconstructorMain,
           RecWait, RecCollect, RecCollected, RecBatchDone, RecKeyComplete,
           RecCallback, RecAddKey, RecFindLru, RecRemoveLru,
           RecRequestDeferred, RecSignal, vars, recVars, RecInCallback
  <2> QED BY <2>1, <2>2 DEF OneComplete, Incomplete, RecMac, RecId, KeyId,
                            Content
<1> QED BY <1>1, <1>2, <1>3

\* No key is left complete in the collection between two batches, so none is
\* ever refused its fragments for good (key_reconstructor.c:205): every path
\* of the key-complete call-back ends in the removal of the entry.
THEOREM NoneLeftComplete == Spec => []NoCompleteEntryLeft
<1>1. OneComplete => NoCompleteEntryLeft
  BY DEF OneComplete, NoCompleteEntryLeft, Incomplete, RecInCallback
<1> QED BY <1>1, OneCompleteInit, OneCompleteNext, TypeInit, TypeNext, PTL
        DEF Spec

----------------------------------------------------------------------------
\* What each step does to a cache.

\* A slot is emptied, keeps what it has, or gets the key at hand.
SlotStep(c, d, k) ==
    \/ d.key_cache.map[k] = ZeroSlot
    \/ /\ d.key_cache.map[k] = c.key_cache.map[k]
       /\ d.mac_address = c.mac_address
    \/ /\ d.key_cache.map[k] = [key_id |-> RecId, key |-> reconstructedKey]
       /\ d = consumer'[RecConsumer] /\ d.mac_address = RecMac
       /\ recPc \in RecInCallback /\ recPc' = "pending"
       /\ UNCHANGED keyFragmentBatch

\* The cache of consumer c becomes that of d.
CacheStep(c, d) == /\ OwnShortcut(d.key_cache)
                   /\ \A k \in Slot : SlotStep(c, d, k)

LEMMA CacheTypes ==
    ASSUME TypeOK, NEW i \in Consumer
    PROVE  /\ consumer[i] \in ConsumerType
           /\ consumer[i].key_cache \in CacheType(KeyValue)
BY DEF TypeOK, ConsumerOK, ConsumerType

\* A lookup, whatever it answers, moves the shortcut only.
LEMMA CacheLookup ==
    ASSUME NEW c \in ConsumerType, NEW d, OwnShortcut(c.key_cache), NEW id,
           d.mac_address = c.mac_address,
           \/ d.key_cache = c.key_cache
           \/ d.key_cache = AfterGet(c.key_cache, id)
    PROVE  CacheStep(c, d)
<1>1. c.key_cache \in CacheType(KeyValue)
  BY DEF ConsumerType
<1>2. /\ AfterGet(c.key_cache, id).map = c.key_cache.map
      /\ OwnShortcut(AfterGet(c.key_cache, id))
  BY <1>1, AfterGetKeeps
<1> QED BY <1>2 DEF CacheStep, SlotStep

\* A removal, and the clearing of the cache of a new consumer.
LEMMA CacheRemoval ==
    ASSUME NEW c \in ConsumerType, NEW d, OwnShortcut(c.key_cache),
           \/ d.key_cache = ClearCache(c.key_cache)
           \/ /\ d.mac_address = c.mac_address
              /\ \E i \in Slot : d.key_cache = RemoveAt(c.key_cache, i)
    PROVE  CacheStep(c, d)
<1>1. c.key_cache \in CacheType(KeyValue)
  BY DEF ConsumerType
<1>2. CASE d.key_cache = ClearCache(c.key_cache)
  BY <1>1, <1>2, ClearCacheKeeps DEF CacheStep, SlotStep
<1>3. ASSUME d.mac_address = c.mac_address, NEW i \in Slot,
             d.key_cache = RemoveAt(c.key_cache, i)
      PROVE  CacheStep(c, d)
  <2>1. /\ OwnShortcut(d.key_cache)
        /\ d.key_cache.map = [c.key_cache.map EXCEPT ![i] = ZeroSlot]
    BY <1>1, <1>3, RemoveAtKeeps
  <2>2. c.key_cache.map \in [Slot -> [key_id : KeyId8, key : KeyValue]]
    BY <1>1 DEF CacheType
  <2>3. \A k \in Slot : d.key_cache.map[k] = ZeroSlot
                        \/ d.key_cache.map[k] = c.key_cache.map[k]
    BY <2>1, <2>2
  <2> QED BY <1>3, <2>1, <2>3 DEF CacheStep, SlotStep
<1> QED BY <1>2, <1>3

\* The key at hand goes to one slot, or nowhere.
LEMMA CacheAddition ==
    ASSUME TypeOK, RecAddKey, NEW j \in Consumer, j = RecConsumer,
           OwnShortcut(consumer[j].key_cache)
    PROVE  CacheStep(consumer[j], consumer'[j])
<1> DEFINE c == consumer[RecConsumer]
           d == consumer'[RecConsumer]
           x == [key_id |-> RecId, key |-> reconstructedKey]
<1>1. /\ RecStep(c, d) /\ recPc \in RecInCallback
      /\ d.key_cache = AddKeyToCache(c.key_cache, reconstructedKey, RecId)
      /\ recPc' = "pending" \/ FreeSlot(c.key_cache) < 0
      /\ UNCHANGED keyFragmentBatch
  BY AddKeyStep DEF RecInCallback, RecAddKey
<1>2. c.key_cache \in CacheType(KeyValue) /\ OwnShortcut(c.key_cache)
  BY CacheTypes
<1>3. /\ OwnShortcut(d.key_cache)
      /\ \/ d.key_cache.map = c.key_cache.map
         \/ \E i \in Slot : d.key_cache.map = [c.key_cache.map EXCEPT ![i] = x]
      /\ FreeSlot(c.key_cache) < 0 => d.key_cache = c.key_cache
  <2> DEFINE e == AddKeyToCache(c.key_cache, reconstructedKey, RecId)
  <2>1. /\ OwnShortcut(e)
        /\ \/ e.map = c.key_cache.map
           \/ \E i \in Slot : e.map = [c.key_cache.map EXCEPT ![i] = x]
        /\ FreeSlot(c.key_cache) < 0 => e = c.key_cache
    BY <1>2, AddKeyKeeps
  <2> HIDE DEF e
  <2>2. d.key_cache = e
    BY <1>1 DEF e
  <2> HIDE DEF c, d, x
  <2> QED BY <2>1, <2>2
<1>4. c.key_cache.map \in [Slot -> [key_id : KeyId8, key : KeyValue]]
  BY <1>2 DEF CacheType
<1>5. j = RecConsumer /\ c.mac_address = RecMac /\ d.mac_address = RecMac
  BY <1>1 DEF RecStep
<1> HIDE DEF x
<1>6. CASE d.key_cache.map = c.key_cache.map
  BY <1>3, <1>5, <1>6 DEF CacheStep, SlotStep
<1>7. ASSUME NEW i \in Slot,
             d.key_cache.map = [c.key_cache.map EXCEPT ![i] = x],
             d.key_cache.map # c.key_cache.map
      PROVE  CacheStep(consumer[j], consumer'[j])
  <2>1. \A k \in Slot : d.key_cache.map[k] = x
                        \/ d.key_cache.map[k] = c.key_cache.map[k]
    BY <1>4, <1>7
  <2>2. recPc' = "pending"
    BY <1>1, <1>3, <1>7
  <2> QED BY <1>1, <1>3, <1>5, <2>1, <2>2 DEF CacheStep, SlotStep, x
<1> QED BY <1>3, <1>6, <1>7

LEMMA CacheNext ==
    ASSUME TypeOK, [Next]_vars, NEW j \in Consumer,
           OwnShortcut(consumer[j].key_cache)
    PROVE  CacheStep(consumer[j], consumer'[j])
<1>0. /\ \A i : OnlyConsumer(i) /\ j # i => consumer'[j] = consumer[j]
      /\ consumer'[j] = consumer[j] => CacheStep(consumer[j], consumer'[j])
      /\ consumer[j] \in ConsumerType
  BY CacheTypes DEF OnlyConsumer, CacheStep, SlotStep
<1>1. CASE SecAddConsumer
  BY <1>0, <1>1, AddConsumerStep, CacheRemoval
<1>2. CASE SecDataPdu \/ SecKeyFragmentPdu
  <2> DEFINE i == IndexForMac(Head(pduBatch).mac)
  <2>1. /\ OnlyConsumer(i)
        /\ PduStep(consumer[i], consumer'[i], Head(pduBatch))
    BY <1>2, DataPduStep, KeyFragmentStep
  <2> QED BY <1>0, <2>1, CacheLookup DEF PduStep, SameSender
<1>3. CASE SecTakeDeferred \/ SecRedoDone
  <2>1. /\ OnlyConsumer(consumerIndex)
        /\ consumer'[consumerIndex].mac_address =
               consumer[consumerIndex].mac_address
        /\ consumer'[consumerIndex].key_cache =
               consumer[consumerIndex].key_cache
    BY <1>3, TakeStep, RedoDoneStep DEF SameSender
  <2> QED BY <1>0, <2>1, CacheLookup
<1>4. CASE SecRedoPdu
  <2> DEFINE c == consumer[consumerIndex]
             d == consumer'[consumerIndex]
  <2>1. /\ OnlyConsumer(consumerIndex)
        /\ d.mac_address = c.mac_address
        /\ \/ d.key_cache = c.key_cache
           \/ d.key_cache = AfterGet(c.key_cache, Id8(KeyId(Head(pduBatch))))
    BY <1>4, RedoStep DEF SameSender
  <2> QED BY <1>0, <2>1, CacheLookup
<1>5. CASE RecAddKey
  <2>1. OnlyConsumer(RecConsumer)
    BY <1>5, AddKeyStep DEF RecStep
  <2> QED BY <1>0, <1>5, <2>1, CacheAddition
<1>6. CASE RecRemoveLru
  <2> DEFINE c == consumer[RecConsumer]
             d == consumer'[RecConsumer]
  <2>1. /\ RecStep(c, d) /\ SameSender(c, d) /\ lruIndex \in Slot
        /\ d.key_cache = RemoveAt(c.key_cache, lruIndex)
    BY <1>6, RemoveLruStep
  <2>2. CASE j = RecConsumer
    BY <1>0, <2>1, <2>2, CacheRemoval DEF SameSender
  <2> QED BY <1>0, <2>1, <2>2 DEF RecStep
<1>7. CASE RecRequestDeferred
  <2>1. RecStep(consumer[RecConsumer], consumer'[RecConsumer])
        /\ consumer'[RecConsumer].key_cache = consumer[RecConsumer].key_cache
    BY <1>7, RequestStep
  <2>2. CASE j = RecConsumer
    BY <1>0, <2>1, <2>2, CacheLookup DEF RecStep
  <2> QED BY <1>0, <2>1, <2>2 DEF RecStep
<1>8. CASE ~ ConsumerChanges
  BY <1>0, <1>8, ConsumerFrame
<1> QED BY <1>1, <1>2, <1>3, <1>4, <1>5, <1>6, <1>7, <1>8 DEF ConsumerChanges

\* No lookup follows a shortcut to a slot that holds another key.
OwnShortcuts == \A i \in Consumer : OwnShortcut(consumer[i].key_cache)

LEMMA ShortcutsInit == Init => OwnShortcuts
BY DEF Init, OwnShortcuts, OwnShortcut, ZeroConsumer, EmptyCache

LEMMA ShortcutsNext == TypeOK /\ OwnShortcuts /\ [Next]_vars => OwnShortcuts'
<1> SUFFICES ASSUME TypeOK, OwnShortcuts, [Next]_vars, NEW j \in Consumer
             PROVE  OwnShortcut(consumer'[j].key_cache)
  BY DEF OwnShortcuts, OwnShortcut
<1> QED BY CacheNext DEF OwnShortcuts, CacheStep

----------------------------------------------------------------------------
\* Whose PDUs are where.

\* The PDUs sender mac broadcasts.
PduOf(mac) == {p \in Pdu : p.mac = mac}

\* A deferred queue holds its sender's PDUs, no sender has two consumers,
\* and a batch that is not under way is empty.
QueuesPlaced ==
    /\ \A i \in Consumer : consumer[i].deferredQueue \in
                               Seq(PduOf(consumer[i].mac_address))
    /\ \A i, j \in Consumer :
           i # j /\ consumer[i].mac_address = consumer[j].mac_address =>
               consumer[i].mac_address = NoAddress
    /\ secPc \in {"wait", "deferred"} => pduBatch = << >>

\* While a deferred queue is processed its request stands, and the batch
\* holds PDUs of that queue.
BatchPlaced ==
    secPc \in {"take", "redo"} =>
        /\ consumer[consumerIndex].request_pending
        /\ pduBatch \in Seq(PduOf(consumer[consumerIndex].mac_address))

Placed == QueuesPlaced /\ BatchPlaced

LEMMA PlacedInit == Init => Placed
<1> SUFFICES ASSUME Init PROVE Placed
  OBVIOUS
<1>1. \A i \in Consumer : /\ consumer[i].deferredQueue = << >>
                          /\ consumer[i].mac_address = NoAddress
  BY DEF Init, ZeroConsumer
<1>2. \A S : << >> \in Seq(S)
  BY EmptySeq
<1>3. secPc = "wait" /\ pduBatch = << >>
  BY DEF Init
<1> QED BY <1>1, <1>2, <1>3 DEF Placed, QueuesPlaced, BatchPlaced

\* Consumers keep their senders, but for one that a new sender takes.
LEMMA MacStep ==
    ASSUME TypeOK, [Next]_vars, ~ SecAddConsumer, NEW j \in Consumer
    PROVE  consumer'[j].mac_address = consumer[j].mac_address
<1>1. CASE SecDataPdu \/ SecKeyFragmentPdu
  BY <1>1, DataPduStep, KeyFragmentStep DEF PduStep, SameSender, OnlyConsumer
<1>2. CASE SecTakeDeferred \/ SecRedoPdu \/ SecRedoDone
  BY <1>2, TakeStep, RedoStep, RedoDoneStep DEF SameSender, OnlyConsumer
<1>3. CASE RecAddKey \/ RecRemoveLru \/ RecRequestDeferred
  BY <1>3, AddKeyStep, RemoveLruStep, RequestStep DEF RecStep, OnlyConsumer
<1>4. CASE ~ ConsumerChanges
  BY <1>4, ConsumerFrame
<1> QED BY <1>1, <1>2, <1>3, <1>4 DEF ConsumerChanges

\* A deferred queue loses its head, gets a PDU of its sender, or is that of
\* a new consumer.
LEMMA QueueStep ==
    ASSUME TypeOK, Placed, [Next]_vars, NEW j \in Consumer
    PROVE  consumer'[j].deferredQueue \in Seq(PduOf(consumer'[j].mac_address))
<1> DEFINE c == consumer[j]
           d == consumer'[j]
           S == PduOf(c.mac_address)
<1>0. c.deferredQueue \in Seq(S)
  BY DEF Placed, QueuesPlaced
<1>1. /\ \A i : OnlyConsumer(i) /\ j # i => d = c
      /\ d = c => d.deferredQueue \in Seq(PduOf(d.mac_address))
  BY <1>0 DEF OnlyConsumer
<1>2. ASSUME d.mac_address = c.mac_address,
             \/ d.deferredQueue = c.deferredQueue
             \/ c.deferredQueue # << >> /\ d.deferredQueue = Tail(c.deferredQueue)
             \/ \E p \in Pdu : /\ p.mac = c.mac_address
                               /\ d.deferredQueue = Append(c.deferredQueue, p)
      PROVE  d.deferredQueue \in Seq(PduOf(d.mac_address))
  <2>1. CASE d.deferredQueue = c.deferredQueue
    BY <1>0, <1>2, <2>1
  <2>2. CASE c.deferredQueue # << >>
             /\ d.deferredQueue = Tail(c.deferredQueue)
    BY <1>0, <1>2, <2>2, HeadTailProperties
  <2>3. ASSUME NEW p \in Pdu, p.mac = c.mac_address,
               d.deferredQueue = Append(c.deferredQueue, p)
        PROVE  d.deferredQueue \in Seq(PduOf(d.mac_address))
    <3>1. p \in S
      BY <2>3 DEF PduOf
    <3> QED BY <1>0, <1>2, <2>3, <3>1, AppendProperties
  <2> QED BY <1>2, <2>1, <2>2, <2>3
<1> HIDE DEF S
<1>3. CASE SecAddConsumer
  BY <1>1, <1>3, AddConsumerStep, EmptySeq
<1>4. CASE SecDataPdu \/ SecKeyFragmentPdu
  BY <1>1, <1>2, <1>4, DataPduStep, KeyFragmentStep
     DEF PduStep, SameSender, SameQueue
<1>5. CASE SecTakeDeferred \/ SecRedoDone
  BY <1>1, <1>2, <1>5, TakeStep, RedoDoneStep DEF SameSender, SameQueue
<1>6. CASE SecRedoPdu
  <2>1. Head(pduBatch).mac = consumer[consumerIndex].mac_address
    <3>1. pduBatch \in Seq(PduOf(consumer[consumerIndex].mac_address))
      BY <1>6 DEF SecRedoPdu, Placed, BatchPlaced
    <3> QED BY <1>6, <3>1, HeadTailProperties DEF SecRedoPdu, PduOf
  <2> QED BY <1>1, <1>2, <1>6, <2>1, RedoStep DEF SameSender
<1>7. CASE RecAddKey \/ RecRemoveLru \/ RecRequestDeferred
  <2>1. RecStep(consumer[RecConsumer], consumer'[RecConsumer])
    BY <1>7, AddKeyStep, RemoveLruStep, RequestStep
  <2> QED BY <1>1, <1>2, <2>1 DEF RecStep, SameQueue
<1>8. CASE ~ ConsumerChanges
  BY <1>1, <1>8, ConsumerFrame
<1> QED BY <1>3, <1>4, <1>5, <1>6, <1>7, <1>8 DEF ConsumerChanges

LEMMA BatchPlacedNext ==
    ASSUME TypeOK, Placed, [Next]_vars
    PROVE  BatchPlaced'
<1> SUFFICES ASSUME secPc' \in {"take", "redo"}
             PROVE  /\ consumer'[consumerIndex'].request_pending
                    /\ pduBatch' \in
                           Seq(PduOf(consumer'[consumerIndex'].mac_address))
  BY DEF BatchPlaced, PduOf, Pdu
<1>1. CASE SecNextConsumer
  <2>1. /\ consumer' = consumer /\ pduBatch' = pduBatch
        /\ secPc = "deferred" /\ consumerIndex' = consumerIndex
        /\ consumer[consumerIndex].request_pending
    BY <1>1 DEF SecNextConsumer, sharedVars, outVars
  <2> QED BY <2>1, EmptySeq DEF Placed, QueuesPlaced
<1>2. CASE SecTakeDeferred \/ SecRedoPdu
  <2> DEFINE c == consumer[consumerIndex]
             S == PduOf(c.mac_address)
  <2>1. /\ consumerIndex' = consumerIndex /\ secPc \in {"take", "redo"}
        /\ consumerIndex \in Consumer
    BY <1>2 DEF SecTakeDeferred, SecRedoPdu, TypeOK, SecOK
  <2>2. /\ consumer'[consumerIndex].mac_address = c.mac_address
        /\ consumer'[consumerIndex].request_pending = c.request_pending
        /\ c.request_pending /\ pduBatch \in Seq(S)
    BY <1>2, <2>1, TakeStep, RedoStep DEF SameSender, Placed, BatchPlaced
  <2>3. pduBatch' \in Seq(S)
    <3>1. CASE SecTakeDeferred
      <4>1. c.deferredQueue \in Seq(S) /\ c.deferredQueue # << >>
        BY <2>1, <3>1 DEF Placed, QueuesPlaced, SecTakeDeferred
      <4>2. pduBatch' = Append(pduBatch, Head(c.deferredQueue))
        BY <3>1 DEF SecTakeDeferred
      <4> HIDE DEF S
      <4>3. Head(c.deferredQueue) \in S
        BY <4>1, HeadTailProperties
      <4> QED BY <2>2, <4>2, <4>3, AppendProperties
    <3>2. CASE SecRedoPdu
      BY <2>2, <3>2, HeadTailProperties DEF SecRedoPdu
    <3> QED BY <1>2, <3>1, <3>2
  <2> QED BY <2>1, <2>2, <2>3
<1>3. CASE UNCHANGED <<consumer, pduBatch, consumerIndex>>
           /\ secPc \in {"take", "redo"}
  BY <1>3 DEF Placed, BatchPlaced
<1> QED BY <1>1, <1>2, <1>3
    DEF Next, Environment, EnqueuePduForProcessing, LosePdu,
        SecProcessingMain, SecWait, SecNewPdu, SecDeferred, SecCollect,
        SecCollected, SecAddConsumer, SecSkipPdu, SecDataPdu,
        SecKeyFragmentPdu, SecSendFragment, SecSendTimeout, SecBatchDone,
        SecDeferredDone, SecTakenDeferred, SecRedoDone, ReconstructorMain,
        SecBlocked, RecWait, RecCollect, RecCollected, RecFragment,
        RecBatchDone, RecKeyComplete, RecCallback, RecAddKey, RecFindLru,
        RecRemoveLru, RecRequestDeferred, RecSignal, RecRemoveKey, vars,
        sharedVars, outVars, secVars

LEMMA PlacedNext == TypeOK /\ Placed /\ [Next]_vars => Placed'
<1> SUFFICES ASSUME TypeOK, Placed, [Next]_vars PROVE QueuesPlaced'
  BY BatchPlacedNext DEF Placed
<1>1. \A i \in Consumer : consumer'[i].deferredQueue \in
                              Seq(PduOf(consumer'[i].mac_address))
  BY QueueStep
<1>2. ASSUME NEW i \in Consumer, NEW j \in Consumer, i # j,
             consumer'[i].mac_address = consumer'[j].mac_address
      PROVE  consumer'[i].mac_address = NoAddress
  <2>1. CASE SecAddConsumer
    BY <1>2, <2>1, AddConsumerStep DEF OnlyConsumer, Placed, QueuesPlaced
  <2>2. CASE ~ SecAddConsumer
    BY <1>2, <2>2, MacStep DEF Placed, QueuesPlaced
  <2> QED BY <2>1, <2>2
<1>3. secPc' \in {"wait", "deferred"} => pduBatch' = << >>
  BY DEF Next, Environment, EnqueuePduForProcessing, LosePdu,
         SecProcessingMain, SecWait, SecNewPdu, SecDeferred, SecCollect,
         SecCollected, SecAddConsumer, SecSkipPdu, SecDataPdu,
         SecKeyFragmentPdu, SecSendFragment, SecSendTimeout, SecBatchDone,
         SecNextConsumer, SecDeferredDone, SecTakeDeferred,
         SecTakenDeferred, SecRedoPdu, SecRedoDone, ReconstructorMain,
         RecWait, RecCollect, RecCollected, RecFragment, RecBatchDone,
         RecKeyComplete, RecCallback, RecAddKey, RecFindLru, RecRemoveLru,
         RecRequestDeferred, RecSignal, RecRemoveKey, vars, secVars,
         Placed, QueuesPlaced
<1> QED BY <1>1, <1>2, <1>3 DEF QueuesPlaced, PduOf, Pdu

----------------------------------------------------------------------------
\* The keys in the caches, and what PDUs are decrypted with.

\* Every key a consumer caches is its sender's key of that identifier.
OwnSlots(c) ==
    \A k \in Slot :
        c.key_cache.map[k].key_id # FREE =>
            IsKeyOf(c.mac_address, c.key_cache.map[k].key_id,
                    c.key_cache.map[k].key)

\* While the call-back is under way, its key is that of its fragment.
KeyInHand == recPc \in RecInCallback
                 => IsKeyOf(RecMac, RecId, reconstructedKey)

\* Keys are made of fragments that may be there wherever they are: in the
\* collection, in the hands of the call-back, in the caches and with what was
\* delivered.
KeysInv == /\ Placed /\ OwnShortcuts /\ CollectionSound(keyCollection)
           /\ KeyInHand
           /\ \A i \in Consumer : OwnSlots(consumer[i])
           /\ KeysDoNotMix

LEMMA KeyInHandNext ==
    ASSUME TypeOK, CollectionSound(keyCollection), KeyInHand, [Next]_vars
    PROVE  KeyInHand'
<1>1. CASE RecFragment
  <2>1. CASE recPc' = "callback" /\ UNCHANGED keyFragmentBatch
    <3>1. RecMac' = RecMac /\ RecId' = RecId
      BY <2>1 DEF RecMac, RecId, KeyId, Content
    <3>2. CollectionSound(keyCollection')
      <4>1. CollectionSound(keyCollection)'
        BY CollectionNext
      <4> QED BY <4>1 DEF CollectionSound, EntrySound, OneEntryPerKey,
                          Collection, Decrypted, MayHold, SessionsOf
    <3>3. /\ IsKeyAvailable(keyCollection', RecMac, RecId)
          /\ reconstructedKey' = ReconstructKey(keyCollection', RecMac, RecId)
      BY <1>1, <2>1, FragmentStep
    <3>4. IsKeyOf(RecMac, RecId, reconstructedKey')
      BY <3>2, <3>3, ReconstructKeySound
    <3> QED BY <3>1, <3>4 DEF KeyInHand, IsKeyOf, MayHold, SessionsOf
  <2>2. CASE recPc' = "fragment"
    BY <2>2 DEF KeyInHand, RecInCallback
  <2> QED BY <1>1, <2>1, <2>2, FragmentStep
<1>2. CASE ~ RecFragment
  <2>1. recPc' \in RecInCallback =>
            recPc \in RecInCallback /\ UNCHANGED <<keyFragmentBatch,
                                                   reconstructedKey>>
    BY <1>2
       DEF Next, Environment, EnqueuePduForProcessing, LosePdu,
           SecProcessingMain, SecWait, SecNewPdu, SecDeferred, SecCollect,
           SecCollected, SecAddConsumer, SecSkipPdu, SecDataPdu,
           SecKeyFragmentPdu, SecSendFragment, SecSendTimeout, SecBatchDone,
           SecNextConsumer, SecDeferredDone, SecTakeDeferred,
           SecTakenDeferred, SecRedoPdu, SecRedoDone, ReconstructorMain,
           RecWait, RecCollect, RecCollected, RecBatchDone, RecKeyComplete,
           RecCallback, RecAddKey, RecFindLru, RecRemoveLru,
           RecRequestDeferred, RecSignal, RecRemoveKey, vars, recVars,
           RecInCallback
  <2> QED BY <2>1 DEF KeyInHand, RecMac, RecId, IsKeyOf, MayHold, SessionsOf,
                      KeyId, Content
<1> QED BY <1>1, <1>2

LEMMA OwnSlotsNext ==
    ASSUME TypeOK, KeysInv, [Next]_vars, NEW j \in Consumer
    PROVE  OwnSlots(consumer'[j])
<1> DEFINE c == consumer[j]
           d == consumer'[j]
<1>1. OwnSlots(c) /\ \A k \in Slot : SlotStep(c, d, k)
  BY CacheNext DEF KeysInv, OwnShortcuts, CacheStep
<1> SUFFICES ASSUME NEW k \in Slot, d.key_cache.map[k].key_id # FREE
             PROVE  IsKeyOf(d.mac_address, d.key_cache.map[k].key_id,
                            d.key_cache.map[k].key)
  BY DEF OwnSlots
<1>2. CASE d.key_cache.map[k] = ZeroSlot
  BY <1>2 DEF ZeroSlot
<1>3. CASE /\ d.key_cache.map[k] = c.key_cache.map[k]
           /\ d.mac_address = c.mac_address
  BY <1>1, <1>3 DEF OwnSlots
<1>4. CASE /\ d.key_cache.map[k] = [key_id |-> RecId, key |-> reconstructedKey]
           /\ d.mac_address = RecMac /\ recPc \in RecInCallback
  BY <1>4 DEF KeysInv, KeyInHand
<1> QED BY <1>1, <1>2, <1>3, <1>4 DEF SlotStep

\* A key found for a PDU is made of fragments of its sender and low byte.
LEMMA KeyForSound ==
    ASSUME NEW c \in ConsumerType, OwnSlots(c), OwnShortcut(c.key_cache),
           NEW p \in Pdu, c.mac_address = p.mac, HasKeyFor(c, p),
           Id8(KeyId(p)) # FREE
    PROVE  IsKeyOf(p.mac, Id8(KeyId(p)), KeyFor(c, p))
<1> DEFINE id == Id8(KeyId(p))
           j == LookupIndex(c.key_cache, id)
<1>1. c.key_cache \in CacheType(KeyValue) /\ id # FREE
  BY DEF ConsumerType
<1>2. j \in Slot /\ c.key_cache.map[j].key_id = id
  BY <1>1, LookupFinds DEF HasKeyFor
<1>3. KeyFor(c, p) = c.key_cache.map[j].key
  BY DEF KeyFor, GetKey
<1> HIDE DEF id, j
<1> QED BY <1>1, <1>2, <1>3 DEF OwnSlots, id

\* Observers of sender s got x under a key that may be there for it.
OwnKey(s, x) ==
    LET id == Id8(SessionKeyId[Traffic[s][x.no].session])
    IN  id # FREE => IsKeyOf(s, id, x.key)

LEMMA OwnKeyDelivered ==
    ASSUME TypeOK, KeysInv,
           NEW i \in Consumer, NEW p \in Pdu,
           consumer[i].mac_address = p.mac, HasKeyFor(consumer[i], p),
           DecryptAndNotify(KeyFor(consumer[i], p), p)
    PROVE  KeysDoNotMix'
<1> DEFINE q == notified[p.mac]
           x == [no |-> p.no, key |-> KeyFor(consumer[i], p)]
<1>1. OwnKey(p.mac, x)
  BY KeyForSound, CacheTypes
     DEF KeysInv, OwnShortcuts, Content, KeyId, OwnKey
<1>2. /\ \A s \in Sender \ {p.mac} : notified'[s] = notified[s]
      /\ notified'[p.mac] = Append(q, x)
      /\ q \in Seq([no : Nat, key : KeyValue])
  BY NotifiedStep
<1>3. p.mac \in Sender
  BY PduType
<1> HIDE DEF x, q
<1>4. \A n \in DOMAIN Append(q, x) :
          (n \in DOMAIN q /\ Append(q, x)[n] = q[n]) \/ Append(q, x)[n] = x
  BY <1>2
<1>5. \A n \in DOMAIN q : OwnKey(p.mac, q[n])
  BY <1>3 DEF KeysInv, KeysDoNotMix, OwnKey, IsKeyOf, q
<1>6. ASSUME NEW s \in Sender, NEW n \in DOMAIN notified'[s]
      PROVE  OwnKey(s, notified'[s][n])
  <2>1. CASE s = p.mac
    <3>1. n \in DOMAIN Append(q, x) /\ notified'[s][n] = Append(q, x)[n]
      BY <1>2, <1>6, <2>1
    <3> QED BY <1>1, <1>4, <1>5, <2>1, <3>1
  <2>2. CASE s # p.mac
    <3>1. n \in DOMAIN notified[s] /\ notified'[s][n] = notified[s][n]
      BY <1>2, <1>6, <2>2
    <3> QED BY <3>1 DEF KeysInv, KeysDoNotMix, OwnKey, IsKeyOf
  <2> QED BY <2>1, <2>2
<1> QED BY <1>6 DEF KeysDoNotMix, OwnKey, IsKeyOf

LEMMA OwnKeyNext ==
    ASSUME TypeOK, KeysInv, [Next]_vars
    PROVE  KeysDoNotMix'
<1>1. CASE UNCHANGED notified
  <2>1. \A s \in Sender :
            \A n \in DOMAIN notified[s] : OwnKey(s, notified[s][n])
    BY DEF KeysInv, KeysDoNotMix, OwnKey, IsKeyOf
  <2>2. \A s \in Sender :
            \A n \in DOMAIN notified'[s] : OwnKey(s, notified'[s][n])
    BY <1>1, <2>1
  <2> QED BY <2>2 DEF KeysDoNotMix, OwnKey, IsKeyOf
<1>2. CASE SecDataPdu /\ notified' # notified
  <2> DEFINE p == Head(pduBatch)
             i == IndexForMac(p.mac)
  <2>1. /\ i \in Consumer /\ p \in Pdu /\ consumer[i].mac_address = p.mac
        /\ HasKeyFor(consumer[i], p)
        /\ DecryptAndNotify(KeyFor(consumer[i], p), p)
    BY <1>2, DataPduStep DEF PduStep, OnlyConsumer
  <2> QED BY <2>1, OwnKeyDelivered
<1>3. CASE SecRedoPdu /\ notified' # notified
  <2> DEFINE p == Head(pduBatch)
             c == consumer[consumerIndex]
  <2>1. /\ consumerIndex \in Consumer /\ p \in Pdu
        /\ HasKeyFor(c, p) /\ DecryptAndNotify(KeyFor(c, p), p)
    BY <1>3, RedoStep DEF OnlyConsumer
  <2>2. c.mac_address = p.mac
    <3>1. pduBatch \in Seq(PduOf(c.mac_address)) /\ pduBatch # << >>
      BY <1>3 DEF SecRedoPdu, KeysInv, Placed, BatchPlaced
    <3> QED BY <3>1, HeadTailProperties DEF PduOf
  <2> QED BY <2>1, <2>2, OwnKeyDelivered
<1> QED BY <1>1, <1>2, <1>3, NotifiedFrame

LEMMA KeysNext ==
    ASSUME TypeOK, KeysInv, [Next]_vars
    PROVE  KeysInv'
<1>1. Placed' /\ OwnShortcuts' /\ CollectionSound(keyCollection)'
  BY PlacedNext, ShortcutsNext, CollectionNext DEF KeysInv
<1>2. KeyInHand' /\ KeysDoNotMix'
  BY KeyInHandNext, OwnKeyNext DEF KeysInv
<1>3. (\A i \in Consumer : OwnSlots(consumer[i]))'
  <2>1. \A i \in Consumer : OwnSlots(consumer'[i])
    BY OwnSlotsNext
  <2> QED BY <2>1 DEF OwnSlots, IsKeyOf, MayHold, SessionsOf
<1> QED BY <1>1, <1>2, <1>3 DEF KeysInv

LEMMA KeysInit == Init => KeysInv
<1>1. Init => KeysDoNotMix
  BY DEF Init, KeysDoNotMix
<1>2. Init => KeyInHand
  BY DEF Init, KeyInHand, RecInCallback
<1>3. Init => \A i \in Consumer : OwnSlots(consumer[i])
  BY DEF Init, OwnSlots, ZeroConsumer, EmptyCache, ZeroSlot
<1> QED BY <1>1, <1>2, <1>3, PlacedInit, ShortcutsInit, CollectionInit
        DEF KeysInv

\* A PDU is decrypted with a key whose every fragment is of a session of its
\* own sender and low byte, or of one whose low byte makes it look free,
\* whichever fragments were lost, repeated or forged, whichever keys were
\* evicted meanwhile and whatever identifiers the senders drew.
THEOREM OwnKeys == Spec => []KeysDoNotMix
<1>1. KeysInv => KeysDoNotMix
  BY DEF KeysInv
<1>2. TypeOK /\ KeysInv /\ [Next]_vars => KeysInv'
  BY KeysNext
<1> QED BY <1>1, <1>2, TypeInit, TypeNext, KeysInit, PTL DEF Spec
============================================================================
