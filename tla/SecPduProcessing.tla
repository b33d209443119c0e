-------------------------- MODULE SecPduProcessing --------------------------
(***************************************************************************)
(* The PDU processing task and the key reconstruction task of the receiver *)
(* (sec_pdu_processing.c, key_reconstructor.c and the consumer, cache and  *)
(* key collection they share).                                             *)
(*                                                                         *)
(* Authorised PDUs arrive in a bounded queue.  A data PDU whose session    *)
(* key is cached is decrypted and handed to the observers; one whose key   *)
(* is missing waits in its sender's deferred queue.  Key fragments go to   *)
(* the reconstruction task through a second bounded queue; when a key is   *)
(* complete that task puts it in the sender's cache, marks the deferred    *)
(* queue for processing and wakes the processing task.                     *)
(*                                                                         *)
(* SCHEDULING.  tasks_data.c pins both tasks to core 1, the processing     *)
(* task at priority 16 and the reconstruction task at 13: the latter runs  *)
(* only while the former is blocked (SecBlocked), and is preempted between *)
(* any two of its accesses to shared state.  The authorisation task that   *)
(* enqueues PDUs runs at 17 and preempts both, so its enqueue and its      *)
(* event bit are one step.  A time-out of a blocked task is a step that    *)
(* may happen whenever its condition still holds.                          *)
(***************************************************************************)
EXTENDS KeyCache, KeyManagement, Sequences, FiniteSets

CONSTANTS
    Sender,                         \* MAC addresses of senders in range
    Session,                        \* key sessions of all senders
    SessionKeyId,                   \* the 14-bit identifier of each session
    Traffic,                        \* what each sender broadcasts, in order
    MAX_BLE_CONSUMERS,              \* 2 in the code
    MAX_PROCESSING_QUEUE_ELEMENTS,  \* 100
    MAX_PROCESSED_PDUS_AT_ONCE,     \* 20
    DEFERRED_QUEUE_SIZE,            \* 80
    MAX_ELEMENTS_IN_QUEUE,          \* 15
    MAX_KEY_PROCESSES_AT_ONCE,      \* 20
    MAX_RETRIES                     \* 5

ASSUME QueueAssumption ==
    /\ MAX_BLE_CONSUMERS \in Nat \ {0}
    /\ MAX_PROCESSING_QUEUE_ELEMENTS \in Nat \ {0}
    /\ MAX_PROCESSED_PDUS_AT_ONCE \in Nat \ {0}
    /\ DEFERRED_QUEUE_SIZE \in Nat \ {0}
    /\ MAX_ELEMENTS_IN_QUEUE \in Nat \ {0}
    /\ MAX_KEY_PROCESSES_AT_ONCE \in Nat \ {0}
    /\ MAX_RETRIES \in Nat \ {0}

\* A batch of the reconstruction task empties its queue (20 against 15); a
\* batch of the processing task need not (20 against 100).
ASSUME BatchAssumption == MAX_ELEMENTS_IN_QUEUE <= MAX_KEY_PROCESSES_AT_ONCE

\* The commands of a PDU; fragment and authentic matter to a key fragment.
\* An authentic fragment is one whose HMAC verifies.
PduContent == [cmd : {"DATA_CMD", "KEY_FRAGMENT_CMD"}, session : Session,
               fragment : Fragment, authentic : BOOLEAN]

SessionId == 0 .. 16383

\* A session is the time for which a sender uses one key (key_replacement_cb),
\* so its PDUs are one stretch of what the sender broadcasts.  Nothing is
\* assumed of the identifiers: they are drawn at random, and two sessions
\* may have the same, the same low byte, or a low byte of 0.
SessionsAreStretches ==
    \A s \in Sender : \A i, j, k \in DOMAIN Traffic[s] :
        /\ i <= j /\ j <= k
        /\ Traffic[s][i].session = Traffic[s][k].session
        => Traffic[s][j].session = Traffic[s][i].session

ASSUME TrafficAssumption ==
    /\ NoAddress \notin Sender
    /\ NoFragment \notin Session
    /\ SessionKeyId \in [Session -> SessionId]
    /\ Traffic \in [Sender -> Seq(PduContent)]
    /\ SessionsAreStretches

\* A PDU in a queue: the no-th of those mac broadcasts.
Pdu == UNION {[mac : {s}, no : 1 .. Len(Traffic[s])] : s \in Sender}

Content(p) == Traffic[p.mac][p.no]

KeyId(p) == SessionKeyId[Content(p).session]

Consumer == 0 .. MAX_BLE_CONSUMERS - 1

NEW_PDU == "NEW_PDU"
PROCESS_DEFERRED == "PROCESS_DEFERRED"

VARIABLES
    sent,              \* PDUs each sender has broadcast so far
    processingQueue,   \* sec_pdu_st.processingQueue
    eventGroup,        \* sec_pdu_st.eventGroup, the bits that are set
    consumer,          \* sec_pdu_st.consumer_collection->arr
    notified,          \* history: what the observers got, by sender
    overflowed,        \* history: a deferred queue outgrew a batch
    secPc,             \* where the processing task is
    secEvents,         \* events of sec_processing_main
    pduBatch,          \* what is left of pduBatch
    consumerIndex,     \* i of handle_event_process_deferred_pdus
    retries,           \* i of queue_key_for_reconstruction
    fragmentQueue,     \* xQueueKeyReconstruction
    fragmentEvent,     \* EVENT_NEW_KEY_FARGMENT_IN_QUEUE is set
    keyCollection,     \* st_reconstructor_control.key_collection
    recPc,             \* where the reconstruction task is
    keyFragmentBatch,  \* what is left of keyFragmentBatch
    reconstructedKey,  \* reconstructed_key
    lruIndex           \* lru_index of remove_lru_key_from_cache

airVars == <<sent>>
inVars == <<processingQueue, eventGroup>>
outVars == <<consumer, notified, overflowed>>
keyVars == <<fragmentQueue, fragmentEvent, keyCollection>>
secVars == <<secPc, secEvents, pduBatch, consumerIndex, retries>>
recVars == <<recPc, keyFragmentBatch, reconstructedKey, lruIndex>>
sharedVars == <<inVars, outVars, keyVars>>
vars == <<airVars, sharedVars, secVars, recVars>>

----------------------------------------------------------------------------
\* The consumer of a sender (ble_consumer.c, ble_consumer_collection.c).

ZeroConsumer == [mac_address |-> NoAddress,
                 deferredQueue |-> << >>,
                 deferred_queue_count |-> 0,
                 request_pending |-> FALSE,
                 last_pdu_key_id |-> 0,
                 key_cache |-> EmptyCache]

\* reset_ble_consumer leaves last_pdu_key_id alone.
ResetConsumer(c) ==
    [c EXCEPT !.mac_address = NoAddress, !.deferredQueue = << >>,
              !.deferred_queue_count = 0, !.request_pending = FALSE,
              !.key_cache = ClearCache(@)]

IndexForMac(mac) == FirstOf({i \in Consumer : consumer[i].mac_address = mac})

FreeConsumer == IndexForMac(NoAddress)

\* A count of PDUs offered, not of PDUs taken in.
AddToDeferred_CountsFull(c, p) ==
    [c EXCEPT !.deferredQueue = IF Len(@) < DEFERRED_QUEUE_SIZE
                                THEN Append(@, p) ELSE @,
              !.deferred_queue_count = @ + 1]

\* A full deferred queue refuses the PDU, and no caller looks at the answer.
AddToDeferred(c, p) ==
    IF Len(c.deferredQueue) < DEFERRED_QUEUE_SIZE
    THEN [c EXCEPT !.deferredQueue = Append(@, p),
                   !.deferred_queue_count = @ + 1]
    ELSE c

\* A take that leaves the item in the queue.
TakeDeferred_Peek(c) ==
    [c EXCEPT !.deferredQueue = Append(Tail(@), Head(@))]

TakeDeferred(c) ==
    [c EXCEPT !.deferredQueue = Tail(@),
              !.deferred_queue_count = IF @ > 0 THEN @ - 1 ELSE @]

\* A test that never sees the PDUs that wait.
IsPduInDeferredQueue_Never(c) == c.deferred_queue_count < 0

IsPduInDeferredQueue(c) == c.deferred_queue_count # 0

\* get_key_from_cache as the processing task calls it.
KeyFor(c, p) == GetKey(c.key_cache, Id8(KeyId(p)))
HasKeyFor(c, p) == IsKeyInCache(c.key_cache, Id8(KeyId(p)))
LookedUp(c, p) == [c EXCEPT !.key_cache = AfterGet(@, Id8(KeyId(p)))]

DecryptAndNotify(key, p) ==
    notified' = [notified EXCEPT ![p.mac] = Append(@, [no |-> p.no,
                                                       key |-> key])]

----------------------------------------------------------------------------
Init ==
    /\ sent = [s \in Sender |-> 0]
    /\ processingQueue = << >>
    /\ eventGroup = {}
    /\ consumer = [i \in Consumer |-> ZeroConsumer]
    /\ notified = [s \in Sender |-> << >>]
    /\ overflowed = FALSE
    /\ secPc = "wait"
    /\ secEvents = {}
    /\ pduBatch = << >>
    /\ consumerIndex = 0
    /\ retries = 0
    /\ fragmentQueue = << >>
    /\ fragmentEvent = FALSE
    /\ keyCollection = NewKeyCollection
    /\ recPc = "wait"
    /\ keyFragmentBatch = << >>
    /\ reconstructedKey = ZeroKey
    /\ lruIndex = -1

----------------------------------------------------------------------------
\* The authorisation task and the air.

\* The next PDU of a sender passes the authorisation: it is enqueued and the
\* event bit set (enqueue_pdu_for_processing).
EnqueuePduForProcessing(s) ==
    /\ sent[s] < Len(Traffic[s])
    /\ Len(processingQueue) < MAX_PROCESSING_QUEUE_ELEMENTS
    /\ sent' = [sent EXCEPT ![s] = @ + 1]
    /\ processingQueue' = Append(processingQueue,
                                 [mac |-> s, no |-> sent[s] + 1])
    /\ eventGroup' = eventGroup \cup {NEW_PDU}
    /\ UNCHANGED <<outVars, keyVars, secVars, recVars>>

\* The next PDU of a sender does not arrive: it is lost on the air, not
\* authorised, or the queue stays full for the whole time-out.
LosePdu(s) ==
    /\ sent[s] < Len(Traffic[s])
    /\ sent' = [sent EXCEPT ![s] = @ + 1]
    /\ UNCHANGED <<sharedVars, secVars, recVars>>

----------------------------------------------------------------------------
\* The processing task.

\* sec_processing_main: the wait returns the bits and clears them.
SecWait ==
    /\ secPc = "wait"
    /\ eventGroup # {}
    /\ secEvents' = eventGroup
    /\ eventGroup' = {}
    /\ secPc' = IF NEW_PDU \in eventGroup THEN "collect" ELSE "deferred"
    /\ consumerIndex' = 0
    /\ UNCHANGED <<airVars, processingQueue, outVars, keyVars, pduBatch,
                   retries, recVars>>

\* handle_event_new_pdu, the receive loop: another PDU for the batch ...
SecCollect ==
    /\ secPc = "collect"
    /\ Len(pduBatch) < MAX_PROCESSED_PDUS_AT_ONCE
    /\ processingQueue # << >>
    /\ pduBatch' = Append(pduBatch, Head(processingQueue))
    /\ processingQueue' = Tail(processingQueue)
    /\ UNCHANGED <<airVars, eventGroup, outVars, keyVars, secPc, secEvents,
                   consumerIndex, retries, recVars>>

\* ... until the batch is full or a receive times out on the empty queue.
SecCollected ==
    /\ secPc = "collect"
    /\ \/ Len(pduBatch) = MAX_PROCESSED_PDUS_AT_ONCE
       \/ processingQueue = << >>
    /\ secPc' = "pdu"
    /\ UNCHANGED <<airVars, sharedVars, secEvents, pduBatch, consumerIndex,
                   retries, recVars>>

\* The loop over the batch: a sender not seen before takes a free consumer.
SecAddConsumer ==
    /\ secPc = "pdu"
    /\ pduBatch # << >>
    /\ LET mac == Head(pduBatch).mac
           i == FreeConsumer
       IN  /\ IndexForMac(mac) = -1
           /\ i # -1
           /\ consumer' = [consumer EXCEPT
                  ![i] = [ResetConsumer(consumer[i]) EXCEPT
                              !.mac_address = mac]]
    /\ UNCHANGED <<airVars, inVars, notified, overflowed, keyVars, secVars,
                   recVars>>

\* A PDU of one sender too many is skipped.
SecSkipPdu ==
    /\ secPc = "pdu"
    /\ pduBatch # << >>
    /\ IndexForMac(Head(pduBatch).mac) = -1
    /\ FreeConsumer = -1
    /\ pduBatch' = Tail(pduBatch)
    /\ UNCHANGED <<airVars, sharedVars, secPc, secEvents, consumerIndex,
                   retries, recVars>>

\* A data PDU: deferred when its key is missing or others already wait,
\* decrypted otherwise.
SecDataPdu ==
    /\ secPc = "pdu"
    /\ pduBatch # << >>
    /\ LET p == Head(pduBatch)
           i == IndexForMac(p.mac)
           c == [LookedUp(consumer[i], p) EXCEPT !.last_pdu_key_id = KeyId(p)]
           defer == ~ HasKeyFor(consumer[i], p) \/ IsPduInDeferredQueue(c)
       IN  /\ i # -1
           /\ Content(p).cmd = "DATA_CMD"
           /\ \/ /\ defer
                 /\ consumer' = [consumer EXCEPT ![i] = AddToDeferred(c, p)]
                 /\ UNCHANGED notified
              \/ /\ ~ defer
                 /\ consumer' = [consumer EXCEPT ![i] = c]
                 /\ DecryptAndNotify(KeyFor(consumer[i], p), p)
    /\ pduBatch' = Tail(pduBatch)
    /\ UNCHANGED <<airVars, inVars, overflowed, keyVars, secPc, secEvents,
                   consumerIndex, retries, recVars>>

\* A fragment that queue_key_for_reconstruction need not take.
FragmentNotNeeded(c, p) ==
    \/ HasKeyFor(c, p)
    \/ IsKeyAvailable(keyCollection, p.mac, Id8(KeyId(p)))
    \/ IsKeyFragmentDecrypted(keyCollection, p.mac, Id8(KeyId(p)),
                              Content(p).fragment)

\* A key fragment: ignored, or about to be sent to the reconstruction task.
SecKeyFragmentPdu ==
    /\ secPc = "pdu"
    /\ pduBatch # << >>
    /\ LET p == Head(pduBatch)
           i == IndexForMac(p.mac)
           c == [LookedUp(consumer[i], p) EXCEPT !.last_pdu_key_id = KeyId(p)]
           ignored == FragmentNotNeeded(consumer[i], p)
       IN  /\ i # -1
           /\ Content(p).cmd = "KEY_FRAGMENT_CMD"
           /\ consumer' = [consumer EXCEPT ![i] = c]
           /\ pduBatch' = IF ignored THEN Tail(pduBatch) ELSE pduBatch
           /\ secPc' = IF ignored THEN "pdu" ELSE "send"
    /\ retries' = 0
    /\ UNCHANGED <<airVars, inVars, notified, overflowed, keyVars, secEvents,
                   consumerIndex, recVars>>

\* queue_key_for_reconstruction, the send: it blocks while the queue is full
SecSendFragment ==
    /\ secPc = "send"
    /\ Len(fragmentQueue) < MAX_ELEMENTS_IN_QUEUE
    /\ fragmentQueue' = Append(fragmentQueue, Head(pduBatch))
    /\ fragmentEvent' = TRUE
    /\ pduBatch' = Tail(pduBatch)
    /\ secPc' = "pdu"
    /\ UNCHANGED <<airVars, inVars, outVars, keyCollection, secEvents,
                   consumerIndex, retries, recVars>>

\* One retry more than there are.
SecSendTimeout_OneMore ==
    /\ secPc = "send"
    /\ Len(fragmentQueue) = MAX_ELEMENTS_IN_QUEUE
    /\ LET dropped == retries = MAX_RETRIES
       IN  /\ retries' = IF dropped THEN 0 ELSE retries + 1
           /\ pduBatch' = IF dropped THEN Tail(pduBatch) ELSE pduBatch
           /\ secPc' = IF dropped THEN "pdu" ELSE "send"
    /\ UNCHANGED <<airVars, sharedVars, secEvents, consumerIndex, recVars>>

\* and after MAX_RETRIES time-outs the fragment is dropped.
SecSendTimeout ==
    /\ secPc = "send"
    /\ Len(fragmentQueue) = MAX_ELEMENTS_IN_QUEUE
    /\ LET dropped == retries + 1 = MAX_RETRIES
       IN  /\ retries' = IF dropped THEN 0 ELSE retries + 1
           /\ pduBatch' = IF dropped THEN Tail(pduBatch) ELSE pduBatch
           /\ secPc' = IF dropped THEN "pdu" ELSE "send"
    /\ UNCHANGED <<airVars, sharedVars, secEvents, consumerIndex, recVars>>

\* A bit that is cleared when its PDUs are handled, not when the wait ends.
SecBatchDone_LateClear ==
    /\ secPc = "pdu"
    /\ pduBatch = << >>
    /\ secPc' = IF PROCESS_DEFERRED \in secEvents THEN "deferred" ELSE "wait"
    /\ secEvents' = secEvents \ {NEW_PDU}
    /\ eventGroup' = eventGroup \ {NEW_PDU}
    /\ UNCHANGED <<airVars, processingQueue, outVars, keyVars, pduBatch,
                   consumerIndex, retries, recVars>>

\* Back in sec_processing_main after handle_event_new_pdu.
SecBatchDone ==
    /\ secPc = "pdu"
    /\ pduBatch = << >>
    /\ secPc' = IF PROCESS_DEFERRED \in secEvents THEN "deferred" ELSE "wait"
    /\ secEvents' = secEvents \ {NEW_PDU}
    /\ UNCHANGED <<airVars, sharedVars, pduBatch, consumerIndex, retries,
                   recVars>>

\* handle_event_process_deferred_pdus: the next consumer, if its deferred
\* queue is marked for processing, is drained; otherwise it is passed over.
SecNextConsumer ==
    /\ secPc = "deferred"
    /\ consumerIndex < MAX_BLE_CONSUMERS
    /\ LET pending == consumer[consumerIndex].request_pending
       IN  /\ secPc' = IF pending THEN "take" ELSE "deferred"
           /\ consumerIndex' = IF pending THEN consumerIndex
                                          ELSE consumerIndex + 1
    /\ UNCHANGED <<airVars, sharedVars, secEvents, pduBatch, retries,
                   recVars>>

SecDeferredDone ==
    /\ secPc = "deferred"
    /\ consumerIndex = MAX_BLE_CONSUMERS
    /\ secPc' = "wait"
    /\ secEvents' = {}
    /\ UNCHANGED <<airVars, sharedVars, pduBatch, consumerIndex, retries,
                   recVars>>

\* process_deferred_queue, the first loop: another deferred PDU ...
SecTakeDeferred ==
    /\ secPc = "take"
    /\ Len(pduBatch) < MAX_PROCESSED_PDUS_AT_ONCE
    /\ consumer[consumerIndex].deferredQueue # << >>
    /\ pduBatch' = Append(pduBatch,
                          Head(consumer[consumerIndex].deferredQueue))
    /\ consumer' = [consumer EXCEPT ![consumerIndex] = TakeDeferred(@)]
    /\ UNCHANGED <<airVars, inVars, notified, overflowed, keyVars, secPc,
                   secEvents, consumerIndex, retries, recVars>>

\* ... until the batch is full or the queue is empty.
SecTakenDeferred ==
    /\ secPc = "take"
    /\ \/ Len(pduBatch) = MAX_PROCESSED_PDUS_AT_ONCE
       \/ consumer[consumerIndex].deferredQueue = << >>
    /\ secPc' = "redo"
    /\ overflowed' =
           (overflowed \/ consumer[consumerIndex].deferredQueue # << >>)
    /\ UNCHANGED <<airVars, inVars, consumer, notified, keyVars, secEvents,
                   pduBatch, consumerIndex, retries, recVars>>

\* process_deferred_queue, the second loop: a PDU whose key is cached is
\* decrypted, one of the newest session waits on, any other is dropped.
SecRedoPdu ==
    /\ secPc = "redo"
    /\ pduBatch # << >>
    /\ LET p == Head(pduBatch)
           c == consumer[consumerIndex]
           newest == KeyId(p) = c.last_pdu_key_id
       IN  \/ /\ HasKeyFor(c, p)
              /\ consumer' = [consumer EXCEPT
                                  ![consumerIndex] = LookedUp(c, p)]
              /\ DecryptAndNotify(KeyFor(c, p), p)
           \/ /\ ~ HasKeyFor(c, p)
              /\ consumer' = [consumer EXCEPT ![consumerIndex] =
                                  IF newest THEN AddToDeferred(c, p) ELSE c]
              /\ UNCHANGED notified
    /\ pduBatch' = Tail(pduBatch)
    /\ UNCHANGED <<airVars, inVars, overflowed, keyVars, secPc, secEvents,
                   consumerIndex, retries, recVars>>

\* Back in handle_event_process_deferred_pdus: the request stands, and the
\* task wakes itself, as long as PDUs wait.
SecRedoDone ==
    /\ secPc = "redo"
    /\ pduBatch = << >>
    /\ IF IsPduInDeferredQueue(consumer[consumerIndex])
       THEN /\ eventGroup' = eventGroup \cup {PROCESS_DEFERRED}
            /\ UNCHANGED consumer
       ELSE /\ consumer' = [consumer EXCEPT
                                ![consumerIndex].request_pending = FALSE]
            /\ UNCHANGED eventGroup
    /\ consumerIndex' = consumerIndex + 1
    /\ secPc' = "deferred"
    /\ UNCHANGED <<airVars, processingQueue, notified, overflowed, keyVars,
                   secEvents, pduBatch, retries, recVars>>

\* The processing task waits for an event, for a PDU or for room.
SecBlocked ==
    \/ secPc = "wait" /\ eventGroup = {}
    \/ /\ secPc = "collect"
       /\ Len(pduBatch) < MAX_PROCESSED_PDUS_AT_ONCE
       /\ processingQueue = << >>
    \/ secPc = "send" /\ Len(fragmentQueue) = MAX_ELEMENTS_IN_QUEUE

----------------------------------------------------------------------------
\* The reconstruction task.

\* reconstructor_main.
RecWait ==
    /\ recPc = "wait"
    /\ fragmentEvent
    /\ fragmentEvent' = FALSE
    /\ recPc' = "collect"
    /\ UNCHANGED <<airVars, inVars, outVars, fragmentQueue, keyCollection,
                   secVars, keyFragmentBatch, reconstructedKey, lruIndex>>

\* handle_event_new_key_fragment_in_queue, the receive loop.
RecCollect ==
    /\ recPc = "collect"
    /\ Len(keyFragmentBatch) < MAX_KEY_PROCESSES_AT_ONCE
    /\ fragmentQueue # << >>
    /\ keyFragmentBatch' = Append(keyFragmentBatch, Head(fragmentQueue))
    /\ fragmentQueue' = Tail(fragmentQueue)
    /\ UNCHANGED <<airVars, inVars, outVars, fragmentEvent, keyCollection,
                   secVars, recPc, reconstructedKey, lruIndex>>

RecCollected ==
    /\ recPc = "collect"
    /\ \/ Len(keyFragmentBatch) = MAX_KEY_PROCESSES_AT_ONCE
       \/ fragmentQueue = << >>
    /\ recPc' = "fragment"
    /\ UNCHANGED <<airVars, sharedVars, secVars, keyFragmentBatch,
                   reconstructedKey, lruIndex>>

\* The fragment the loop over the batch is at, as the collection sees it.
RecMac == Head(keyFragmentBatch).mac
RecId == Id8(KeyId(Head(keyFragmentBatch)))

\* One turn of that loop up to the call-back: the fragment is stored unless
\* the entry has it or its HMAC is wrong; a complete key is put together.
\* Between add_new_key and the store the processing task sees nothing it
\* would not see before or after, so the three calls are one step.
RecFragment ==
    /\ recPc = "fragment"
    /\ keyFragmentBatch # << >>
    /\ LET p == Content(Head(keyFragmentBatch))
           km == IF IsKeyInCollection(keyCollection, RecMac, RecId)
                 THEN keyCollection
                 ELSE AddNewKey(keyCollection, RecMac, RecId)
           store == /\ p.authentic
                    /\ ~ IsKeyFragmentDecrypted(km, RecMac, RecId, p.fragment)
           stored == IF store
                     THEN AddFragment(km, RecMac, RecId, p.fragment, p.session)
                     ELSE km
           complete == IsKeyAvailable(stored, RecMac, RecId)
       IN  /\ keyCollection' = stored
           /\ reconstructedKey' = IF complete
                                  THEN ReconstructKey(stored, RecMac, RecId)
                                  ELSE reconstructedKey
           /\ recPc' = IF complete THEN "callback" ELSE "fragment"
           /\ keyFragmentBatch' = IF complete THEN keyFragmentBatch
                                              ELSE Tail(keyFragmentBatch)
    /\ UNCHANGED <<airVars, inVars, outVars, fragmentQueue, fragmentEvent,
                   secVars, lruIndex>>

\* A bit that is cleared when the batch is handled, not when the wait ends.
RecBatchDone_LateClear ==
    /\ recPc = "fragment"
    /\ keyFragmentBatch = << >>
    /\ recPc' = "wait"
    /\ fragmentEvent' = FALSE
    /\ UNCHANGED <<airVars, inVars, outVars, fragmentQueue, keyCollection,
                   secVars, keyFragmentBatch, reconstructedKey, lruIndex>>

RecBatchDone ==
    /\ recPc = "fragment"
    /\ keyFragmentBatch = << >>
    /\ recPc' = "wait"
    /\ UNCHANGED <<airVars, sharedVars, secVars, keyFragmentBatch,
                   reconstructedKey, lruIndex>>

RecConsumer == IndexForMac(RecMac)

RecCache == consumer[RecConsumer].key_cache

\* key_reconstruction_complete: nothing to do for an unknown sender or for
\* a key the cache holds.
RecCallback ==
    /\ recPc = "callback"
    /\ recPc' = IF RecConsumer = -1 THEN "remove"
                ELSE IF IsKeyInCache(RecCache, RecId) THEN "remove" ELSE "add"
    /\ UNCHANGED <<airVars, sharedVars, secVars, keyFragmentBatch,
                   reconstructedKey, lruIndex>>

\* A call-back that keeps the status of the first attempt.
RecAddKey_FirstStatus ==
    /\ recPc \in {"add", "readd"}
    /\ consumer' = [consumer EXCEPT ![RecConsumer].key_cache =
                        AddKeyToCache(@, reconstructedKey, RecId)]
    /\ recPc' = IF recPc = "readd" THEN "remove"
                ELSE IF AddStatus(RecCache, RecId) = 0 THEN "pending"
                ELSE "evict"
    /\ UNCHANGED <<airVars, inVars, notified, overflowed, keyVars, secVars,
                   keyFragmentBatch, reconstructedKey, lruIndex>>

\* add_key_to_cache, first without and then after an eviction.
RecAddKey ==
    /\ recPc \in {"add", "readd"}
    /\ consumer' = [consumer EXCEPT ![RecConsumer].key_cache =
                        AddKeyToCache(@, reconstructedKey, RecId)]
    /\ recPc' = IF AddStatus(RecCache, RecId) = 0 THEN "pending"
                ELSE IF recPc = "add" THEN "evict" ELSE "remove"
    /\ UNCHANGED <<airVars, inVars, notified, overflowed, keyVars, secVars,
                   keyFragmentBatch, reconstructedKey, lruIndex>>

\* remove_lru_key_from_cache, the scan.  KeyCacheLru shows that the stamps
\* it compares may point at any occupied slot.
RecFindLru ==
    /\ recPc = "evict"
    /\ lruIndex' \in {i \in Slot : RecCache.map[i].key_id # FREE}
    /\ recPc' = "evicted"
    /\ UNCHANGED <<airVars, sharedVars, secVars, keyFragmentBatch,
                   reconstructedKey>>

\* remove_lru_key_from_cache, the removal: the mutex was released since the
\* scan, and the slot may have been used in between.
RecRemoveLru ==
    /\ recPc = "evicted"
    /\ consumer' = [consumer EXCEPT ![RecConsumer].key_cache =
                        RemoveAt(@, lruIndex)]
    /\ lruIndex' = -1
    /\ recPc' = "readd"
    /\ UNCHANGED <<airVars, inVars, notified, overflowed, keyVars, secVars,
                   keyFragmentBatch, reconstructedKey>>

\* set_deferred_q_pending_processing ...
RecRequestDeferred ==
    /\ recPc = "pending"
    /\ consumer' = [consumer EXCEPT ![RecConsumer].request_pending = TRUE]
    /\ recPc' = "signal"
    /\ UNCHANGED <<airVars, inVars, notified, overflowed, keyVars, secVars,
                   keyFragmentBatch, reconstructedKey, lruIndex>>

\* A task woken only for PDUs that already wait.
RecSignal_OnlyIfDeferred ==
    /\ recPc = "signal"
    /\ eventGroup' = IF IsPduInDeferredQueue(consumer[RecConsumer])
                     THEN eventGroup \cup {PROCESS_DEFERRED} ELSE eventGroup
    /\ recPc' = "remove"
    /\ UNCHANGED <<airVars, processingQueue, outVars, keyVars, secVars,
                   keyFragmentBatch, reconstructedKey, lruIndex>>

\* ... and the event that wakes the processing task.
RecSignal ==
    /\ recPc = "signal"
    /\ eventGroup' = eventGroup \cup {PROCESS_DEFERRED}
    /\ recPc' = "remove"
    /\ UNCHANGED <<airVars, processingQueue, outVars, keyVars, secVars,
                   keyFragmentBatch, reconstructedKey, lruIndex>>

\* An entry that outlives its call-back.
RecRemoveKey_Forgotten ==
    /\ recPc = "remove"
    /\ keyFragmentBatch' = Tail(keyFragmentBatch)
    /\ reconstructedKey' = ZeroKey
    /\ recPc' = "fragment"
    /\ UNCHANGED <<airVars, sharedVars, secVars, lruIndex>>

\* The entry is removed after the call-back, whatever the call-back did.
RecRemoveKey ==
    /\ recPc = "remove"
    /\ keyCollection' = RemoveKey(keyCollection, RecMac, RecId)
    /\ keyFragmentBatch' = Tail(keyFragmentBatch)
    /\ reconstructedKey' = ZeroKey
    /\ recPc' = "fragment"
    /\ UNCHANGED <<airVars, inVars, outVars, fragmentQueue, fragmentEvent,
                   secVars, lruIndex>>

----------------------------------------------------------------------------
Environment == \E s \in Sender : EnqueuePduForProcessing(s) \/ LosePdu(s)

SecNewPdu == \/ SecCollect \/ SecCollected \/ SecAddConsumer \/ SecSkipPdu
             \/ SecDataPdu \/ SecKeyFragmentPdu \/ SecSendFragment
             \/ SecSendTimeout \/ SecBatchDone

SecDeferred == \/ SecNextConsumer \/ SecDeferredDone \/ SecTakeDeferred
               \/ SecTakenDeferred \/ SecRedoPdu \/ SecRedoDone

SecProcessingMain == SecWait \/ SecNewPdu \/ SecDeferred

RecKeyComplete == \/ RecCallback \/ RecAddKey \/ RecFindLru \/ RecRemoveLru
                  \/ RecRequestDeferred \/ RecSignal \/ RecRemoveKey

ReconstructorMain ==
    /\ SecBlocked
    /\ \/ RecWait \/ RecCollect \/ RecCollected \/ RecFragment \/ RecBatchDone
       \/ RecKeyComplete

Next == Environment \/ SecProcessingMain \/ ReconstructorMain

Spec == Init /\ [][Next]_vars

\* FreeRTOS runs the highest-priority task that is not blocked, and a
\* blocked one is released at the latest by its time-out.  Nothing makes
\* the reconstruction task run while the processing task does not block.
FairSpec == /\ Spec
            /\ WF_vars(SecProcessingMain)
            /\ WF_vars(ReconstructorMain)

----------------------------------------------------------------------------
\* Types.

\* A key shows, fragment by fragment, the session it was taken from.
KeyValue == [Fragment -> Session \cup {NoFragment}] \cup {ZeroKey}

Address == Sender \cup {NoAddress}

ConsumerType == [mac_address : Address,
                 deferredQueue : Seq(Pdu),
                 deferred_queue_count : Nat,
                 request_pending : BOOLEAN,
                 last_pdu_key_id : SessionId,
                 key_cache : CacheType(KeyValue)]

Event == {NEW_PDU, PROCESS_DEFERRED}

SecPc == {"wait", "collect", "pdu", "send", "deferred", "take", "redo"}

RecInCallback == {"callback", "add", "evict", "evicted", "readd", "pending",
                  "signal", "remove"}

RecWithConsumer == RecInCallback \ {"callback", "remove"}

RecPc == {"wait", "collect", "fragment"} \cup RecInCallback

SenderOK == /\ sent \in [Sender -> Nat]
            /\ \A s \in Sender : sent[s] <= Len(Traffic[s])
            /\ processingQueue \in Seq(Pdu)
            /\ eventGroup \in SUBSET Event

ConsumerOK == /\ consumer \in [Consumer -> ConsumerType]
              /\ notified \in [Sender -> Seq([no : Nat, key : KeyValue])]
              /\ overflowed \in BOOLEAN

KeyOK == /\ fragmentQueue \in Seq(Pdu)
         /\ fragmentEvent \in BOOLEAN
         /\ keyCollection \in [Entry -> EntryType(Sender, Session)]

SecOK == /\ secPc \in SecPc
         /\ secEvents \in SUBSET Event
         /\ pduBatch \in Seq(Pdu)
         /\ consumerIndex \in 0 .. MAX_BLE_CONSUMERS
         /\ retries \in 0 .. MAX_RETRIES - 1
         /\ secPc = "send" => pduBatch # << >>
         /\ secPc \in {"take", "redo"} => consumerIndex \in Consumer

RecOK == /\ recPc \in RecPc
         /\ keyFragmentBatch \in Seq(Pdu)
         /\ reconstructedKey \in KeyValue
         /\ lruIndex \in Slot \cup {-1}
         /\ recPc \in RecInCallback => keyFragmentBatch # << >>
         /\ recPc = "evicted" => lruIndex \in Slot
         /\ recPc \in RecWithConsumer =>
                \E i \in Consumer : consumer[i].mac_address = RecMac

\* The types of the variables, and what each place in a task's code relies
\* on: there is a PDU to send, a fragment to call back for, a slot to empty
\* and a consumer to index.
TypeOK == SenderOK /\ ConsumerOK /\ KeyOK /\ SecOK /\ RecOK

----------------------------------------------------------------------------
\* Safety.

\* The counter of a deferred queue is the queue's length: every test of
\* "PDUs wait" (sec_pdu_processing.c:186, 236) reads the counter, and the
\* two are changed by separate calls.
QueueCounts ==
    \A i \in Consumer :
        /\ consumer[i].deferred_queue_count = Len(consumer[i].deferredQueue)
        /\ Len(consumer[i].deferredQueue) <= DEFERRED_QUEUE_SIZE

\* The reconstruction task never goes to sleep on a queue that holds
\* fragments: its event bit, cleared when the wait ends, and a batch no
\* smaller than the queue leave none behind (key_reconstructor.c:64, 83).
FragmentWakeup ==
    recPc = "wait" /\ ~ fragmentEvent => fragmentQueue = << >>

\* The processing task may sleep on a queue that holds PDUs, because its
\* batch is smaller than the queue; but never on more of them than the
\* queue holds beyond one batch (sec_pdu_processing.c:123, 146).
Stranded ==
    IF MAX_PROCESSING_QUEUE_ELEMENTS > MAX_PROCESSED_PDUS_AT_ONCE
    THEN MAX_PROCESSING_QUEUE_ELEMENTS - MAX_PROCESSED_PDUS_AT_ONCE ELSE 0

StrandedPdus ==
    secPc = "wait" /\ NEW_PDU \notin eventGroup =>
        Len(processingQueue) <= Stranded

\* A request to process a deferred queue is never left standing without a
\* wake-up on its way: the event bit is set, or the round under way has not
\* passed the consumer yet, or the reconstruction task is about to set the
\* bit (sec_pdu_processing.c:234-240 against 398-399).
RequestNotForgotten ==
    \A i \in Consumer :
        consumer[i].request_pending =>
            \/ PROCESS_DEFERRED \in eventGroup
            \/ /\ PROCESS_DEFERRED \in secEvents
               /\ secPc # "wait"
               /\ secPc \in {"deferred", "take", "redo"} => consumerIndex <= i
            \/ recPc = "signal" /\ consumer[i].mac_address = RecMac

\* The key made of the fragments of session k alone.
FullKey(k) == [f \in Fragment |-> k]

\* A lookup for PDU p finds the key of p's own session.
HasOwnKeyFor(c, p) == /\ Id8(KeyId(p)) # FREE
                      /\ HasKeyFor(c, p)
                      /\ KeyFor(c, p) = FullKey(Content(p).session)

\* A deferred PDU whose key has arrived is waiting to be processed: the
\* request stands or is about to be made, also when the queue outgrew a
\* batch, when its key came out of order, when the PDU was deferred only
\* to keep the order, and when sessions share an identifier.
KeyedPduRequested ==
    \A i \in Consumer :
        (\E k \in DOMAIN consumer[i].deferredQueue :
             HasOwnKeyFor(consumer[i], consumer[i].deferredQueue[k])) =>
            \/ consumer[i].request_pending
            \/ recPc = "pending" /\ RecConsumer = i

Copies(q, p) == Cardinality({k \in DOMAIN q : q[k] = p})

\* No data PDU is ever in two of the queues and batches it passes through,
\* or in one of them after the observers got it; so none is delivered twice.
NoPduTwice ==
    \A p \in Pdu :
        Content(p).cmd = "DATA_CMD" =>
            LET i == IndexForMac(p.mac)
                deferred == IF i = -1 THEN 0
                            ELSE Copies(consumer[i].deferredQueue, p)
                delivered == Cardinality({k \in DOMAIN notified[p.mac] :
                                              notified[p.mac][k].no = p.no})
            IN  Copies(processingQueue, p) + Copies(pduBatch, p)
                    + deferred + delivered <= 1

\* Some sender has come back to a session identifier after another one.
IdReturned ==
    \E s \in Sender : \E i, j, k \in 1 .. sent[s] :
        LET id(n) == SessionKeyId[Traffic[s][n].session]
        IN  i < j /\ j < k /\ id(i) = id(k) /\ id(j) # id(i)

\* The observers get the PDUs of a sender in the order they were sent, as
\* long as no deferred queue outgrew a batch and no sender came back to an
\* identifier: a PDU whose key is there waits behind older ones whose key is
\* not (sec_pdu_processing.c:186), and last_pdu_key_id tells which of those
\* may wait on (:309).
InOrder ==
    \/ \A s \in Sender : \A j, k \in DOMAIN notified[s] :
           j < k => notified[s][j].no < notified[s][k].no
    \/ overflowed
    \/ IdReturned

\* A PDU is decrypted with the key of its own session, put together from
\* all of that session's fragments (README.md:37), whichever fragments were
\* lost, repeated, forged or sent by another sender under the same session
\* identifier, and whichever keys were evicted.
OwnSessionKey ==
    \A s \in Sender : \A k \in DOMAIN notified[s] :
        notified[s][k].key =
            [f \in Fragment |-> Traffic[s][notified[s][k].no].session]

\* The sessions a sender broadcasts in.
SessionsOf(mac) == IF mac \in Sender
                   THEN {Traffic[mac][n].session : n \in DOMAIN Traffic[mac]}
                   ELSE {}

\* Where a fragment of session k may turn up: under a low byte of 0, the
\* mark of a free entry, anywhere; otherwise only with its own sender and
\* under its own low byte.
MayHold(mac, id, k) ==
    /\ k \in Session
    /\ \/ Id8(SessionKeyId[k]) = FREE
       \/ Id8(SessionKeyId[k]) = id /\ k \in SessionsOf(mac)

\* The keys of two senders, or of two low bytes, do not mix: every fragment
\* of the key a PDU is decrypted with is of a session of its own sender with
\* its own low byte, or was left in an entry or slot that looks free by a
\* session whose low byte is 0, which makes it look free.  It is
\* what the code gives for identifiers drawn at random, whichever fragments
\* were lost, repeated, forged or sent by another sender under the same
\* identifier, and whichever keys were evicted.
KeysDoNotMix ==
    \A s \in Sender : \A n \in DOMAIN notified[s] :
        LET x == notified[s][n]
            id == Id8(SessionKeyId[Traffic[s][x.no].session])
        IN  id # FREE =>
                /\ x.key \in [Fragment -> Session]
                /\ \A f \in Fragment : MayHold(s, id, x.key[f])

\* What an entry of the collection says of itself is true: it counts and
\* flags the fragments it has, each of a session that may be there, and no
\* two entries collect the same key.  In particular an entry that is free
\* has nothing left of a key that was removed (key_management.c:39-54,
\* 99-147), and one that no sender has used is zero.
CollectionConsistent ==
    \A e \in Entry :
        LET x == keyCollection[e]
        IN  /\ x.no_collected_key_fragments =
                   Cardinality({f \in Fragment : x.decrypted_key_fragments[f]})
            /\ \A f \in Fragment :
                   IF x.decrypted_key_fragments[f]
                   THEN MayHold(x.consumer_mac_address, x.key_id,
                                x.key_fragments[f])
                   ELSE x.key_fragments[f] = NoFragment
            /\ x.consumer_mac_address = NoAddress => x = ZeroEntry
            /\ \A d \in Entry \ {e} :
                   /\ keyCollection[d].key_id = x.key_id
                   /\ keyCollection[d].consumer_mac_address =
                          x.consumer_mac_address
                   => x.consumer_mac_address = NoAddress

\* Between two batches no complete key is left in the collection: if one
\* were, queue_key_for_reconstruction would refuse its fragments for ever
\* (key_reconstructor.c:205) and no fragment would hand it over again.
NoCompleteEntryLeft ==
    recPc = "wait" =>
        \A e \in Entry :
            keyCollection[e].no_collected_key_fragments < NUM_FRAGMENTS

----------------------------------------------------------------------------
\* Liveness, under FairSpec.

\* Fragments handed to the reconstruction task are taken from its queue
\* (README.md:47: the observer reconstructs the key after collecting all
\* fragments) ...
FragmentsTaken == [](fragmentQueue # << >> => <>(fragmentQueue = << >>))

\* ... provided the processing task blocks time and again.
FragmentsTakenIfIdle == ([]<>SecBlocked) => FragmentsTaken

\* Under the same condition a request to process a deferred queue is
\* served until the queue is empty.
RequestsServedIfIdle ==
    ([]<>SecBlocked) =>
        \A i \in Consumer :
            [](consumer[i].request_pending =>
                   <>(consumer[i].deferred_queue_count = 0
                      /\ ~ consumer[i].request_pending))
============================================================================
