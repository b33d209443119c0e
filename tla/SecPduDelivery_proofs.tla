----------------------- MODULE SecPduDelivery_proofs -----------------------
(***************************************************************************)
(* What becomes of the PDUs, for all sizes and every traffic: no wake-up   *)
(* of the two tasks is lost, beyond what the processing task's small batch *)
(* costs; no PDU is in two places or delivered twice; PDUs are delivered   *)
(* in the order they were broadcast; and a deferred PDU whose key is there *)
(* is asked for.                                                           *)
(***************************************************************************)
EXTENDS SecPduProcessing_proofs

----------------------------------------------------------------------------
\* The reconstruction task's queue.

\* While the event bit is clear the queue holds only what the batch being
\* collected still has room for, because every send sets the bit.
FragmentInv ==
    /\ Len(fragmentQueue) <= MAX_ELEMENTS_IN_QUEUE
    /\ recPc = "wait" => keyFragmentBatch = << >>
    /\ ~ fragmentEvent =>
           /\ recPc # "collect" => fragmentQueue = << >>
           /\ recPc = "collect" =>
                  Len(keyFragmentBatch) + Len(fragmentQueue)
                      <= MAX_ELEMENTS_IN_QUEUE

LEMMA FragmentInit == Init => FragmentInv
BY QueueAssumption DEF Init, FragmentInv

LEMMA FragmentFrame ==
    ASSUME FragmentInv,
           UNCHANGED <<fragmentQueue, fragmentEvent, recPc, keyFragmentBatch>>
    PROVE  FragmentInv'
BY DEF FragmentInv

LEMMA FragmentNext == TypeOK /\ FragmentInv /\ [Next]_vars => FragmentInv'
<1> SUFFICES ASSUME TypeOK, FragmentInv, [Next]_vars PROVE FragmentInv'
  OBVIOUS
<1>0. /\ fragmentQueue \in Seq(Pdu) /\ Len(fragmentQueue) \in Nat
      /\ keyFragmentBatch \in Seq(Pdu) /\ Len(keyFragmentBatch) \in Nat
      /\ fragmentEvent \in BOOLEAN
  BY LenProperties DEF TypeOK, KeyOK, RecOK
<1>1. CASE Environment
  BY <1>1, FragmentFrame
     DEF Environment, EnqueuePduForProcessing, LosePdu, sharedVars, keyVars,
         recVars
<1>2. CASE SecProcessingMain
  <2>1. CASE SecSendFragment
    <3>1. pduBatch # << >> /\ Head(pduBatch) \in Pdu
      BY <2>1, BatchType DEF SecSendFragment, TypeOK, SecOK
    <3>2. Len(fragmentQueue') = Len(fragmentQueue) + 1
      BY <1>0, <2>1, <3>1, AppendProperties DEF SecSendFragment
    <3>3. Len(fragmentQueue') <= MAX_ELEMENTS_IN_QUEUE
      BY <1>0, <2>1, <3>2, QueueAssumption DEF SecSendFragment
    <3> QED BY <2>1, <3>3 DEF SecSendFragment, FragmentInv, recVars
  <2>2. CASE ~ SecSendFragment
    <3>1. UNCHANGED <<keyVars, recVars>>
      BY <1>2, <2>2
         DEF SecProcessingMain, SecWait, SecNewPdu, SecDeferred, SecCollect,
             SecCollected, SecAddConsumer, SecSkipPdu, SecDataPdu,
             SecKeyFragmentPdu, SecSendTimeout, SecBatchDone,
             SecNextConsumer, SecDeferredDone, SecTakeDeferred,
             SecTakenDeferred, SecRedoPdu, SecRedoDone, sharedVars
    <3> QED BY <3>1, FragmentFrame DEF keyVars, recVars
  <2> QED BY <2>1, <2>2
<1>3. CASE RecWait
  BY <1>0, <1>3, EmptySeq DEF RecWait, FragmentInv
<1>4. CASE RecCollect
  <2>1. Head(fragmentQueue) \in Pdu
    BY <1>0, <1>4, BatchType DEF RecCollect
  <2>2. /\ Len(fragmentQueue') = Len(fragmentQueue) - 1
        /\ Len(keyFragmentBatch') = Len(keyFragmentBatch) + 1
    BY <1>0, <1>4, <2>1, HeadTailProperties, AppendProperties DEF RecCollect
  <2> QED BY <1>0, <1>4, <2>2, QueueAssumption DEF RecCollect, FragmentInv
<1>5. CASE RecCollected
  <2>1. ~ fragmentEvent => Len(fragmentQueue) = 0
    BY <1>0, <1>5, QueueAssumption, BatchAssumption, EmptySeq
       DEF RecCollected, FragmentInv
  <2>2. ~ fragmentEvent => fragmentQueue = << >>
    BY <1>0, <2>1, EmptySeq
  <2> QED BY <1>5, <2>2 DEF RecCollected, FragmentInv, sharedVars, keyVars
<1>6. CASE RecFragment
  BY <1>6 DEF RecFragment, FragmentInv
<1>7. CASE RecBatchDone
  BY <1>7 DEF RecBatchDone, FragmentInv, sharedVars, keyVars
<1>8. CASE RecKeyComplete
  <2>1. UNCHANGED <<fragmentQueue, fragmentEvent>>
    BY <1>8 DEF RecKeyComplete, RecCallback, RecAddKey, RecFindLru,
                RecRemoveLru, RecRequestDeferred, RecSignal, RecRemoveKey,
                sharedVars, keyVars
  <2>2. recPc \in RecInCallback /\ recPc' \in RecInCallback \cup {"fragment"}
    BY <1>8 DEF RecKeyComplete, RecCallback, RecAddKey, RecFindLru,
                RecRemoveLru, RecRequestDeferred, RecSignal, RecRemoveKey,
                RecInCallback
  <2> QED BY <2>1, <2>2 DEF FragmentInv, RecInCallback
<1>9. CASE UNCHANGED vars
  BY <1>9, FragmentFrame DEF vars, sharedVars, keyVars, recVars
<1> QED BY <1>1, <1>2, <1>3, <1>4, <1>5, <1>6, <1>7, <1>8, <1>9
        DEF Next, ReconstructorMain

\* The reconstruction task never sleeps on a queue that holds fragments,
\* as long as its batch is no smaller than its queue.
THEOREM FragmentsWakeUp == Spec => []FragmentWakeup
<1>1. TypeOK /\ FragmentInv => FragmentWakeup
  BY DEF FragmentInv, FragmentWakeup
<1> QED BY <1>1, TypeInit, TypeNext, FragmentInit, FragmentNext, PTL DEF Spec

----------------------------------------------------------------------------
\* The processing task's queue.

\* While the event bit is clear, what is in the queue was there when the
\* bit was last cleared: with the batch collected since it fits the queue.
StrandedInv ==
    /\ Len(processingQueue) <= MAX_PROCESSING_QUEUE_ELEMENTS
    /\ secPc \in {"wait", "deferred"} => pduBatch = << >>
    /\ NEW_PDU \notin eventGroup =>
           /\ secPc # "collect" => Len(processingQueue) <= Stranded
           /\ secPc = "collect" =>
                  Len(pduBatch) + Len(processingQueue)
                      <= MAX_PROCESSING_QUEUE_ELEMENTS

LEMMA StrandedInit == Init => StrandedInv
BY QueueAssumption DEF Init, StrandedInv, Stranded

LEMMA StrandedFrame ==
    ASSUME StrandedInv, UNCHANGED <<processingQueue, eventGroup, secVars>>
    PROVE  StrandedInv'
BY DEF StrandedInv, secVars

LEMMA StrandedNext == TypeOK /\ StrandedInv /\ [Next]_vars => StrandedInv'
<1> SUFFICES ASSUME TypeOK, StrandedInv, [Next]_vars PROVE StrandedInv'
  OBVIOUS
<1>0. /\ processingQueue \in Seq(Pdu) /\ Len(processingQueue) \in Nat
      /\ pduBatch \in Seq(Pdu) /\ Len(pduBatch) \in Nat
  BY LenProperties DEF TypeOK, SenderOK, SecOK
<1>1. CASE Environment
  <2>1. PICK s \in Sender : EnqueuePduForProcessing(s) \/ LosePdu(s)
    BY <1>1 DEF Environment
  <2>2. CASE EnqueuePduForProcessing(s)
    <3>1. Len(processingQueue') = Len(processingQueue) + 1
      <4>1. [mac |-> s, no |-> sent[s] + 1] \in Pdu
        BY <2>2, NewPduType DEF EnqueuePduForProcessing, TypeOK, SenderOK
      <4> QED BY <1>0, <2>2, <4>1, AppendProperties
              DEF EnqueuePduForProcessing
    <3>2. NEW_PDU \in eventGroup'
      BY <2>2 DEF EnqueuePduForProcessing
    <3> QED BY <1>0, <2>2, <3>1, <3>2, QueueAssumption
            DEF EnqueuePduForProcessing, StrandedInv, secVars
  <2>3. CASE LosePdu(s)
    BY <2>3, StrandedFrame DEF LosePdu, sharedVars, inVars
  <2> QED BY <2>1, <2>2, <2>3
<1>2. CASE SecWait
  BY <1>0, <1>2, EmptySeq DEF SecWait, StrandedInv
<1>3. CASE SecCollect
  <2>1. Head(processingQueue) \in Pdu
    BY <1>0, <1>3, BatchType DEF SecCollect
  <2>2. /\ Len(processingQueue') = Len(processingQueue) - 1
        /\ Len(pduBatch') = Len(pduBatch) + 1
    BY <1>0, <1>3, <2>1, HeadTailProperties, AppendProperties DEF SecCollect
  <2> QED BY <1>0, <1>3, <2>2, QueueAssumption DEF SecCollect, StrandedInv
<1>4. CASE SecCollected
  <2>1. NEW_PDU \notin eventGroup => Len(processingQueue) <= Stranded
    BY <1>0, <1>4, QueueAssumption, EmptySeq
       DEF SecCollected, StrandedInv, Stranded
  <2> QED BY <1>4, <2>1 DEF SecCollected, StrandedInv, sharedVars, inVars
<1>5. ASSUME UNCHANGED <<processingQueue, eventGroup>>,
             secPc \notin {"wait", "collect"},
             secPc' # "collect",
             secPc' \in {"wait", "deferred"} => pduBatch' = << >>
      PROVE  StrandedInv'
  BY <1>5 DEF StrandedInv
<1>6. CASE SecNewPdu /\ ~ SecCollect /\ ~ SecCollected
  <2>1. /\ UNCHANGED <<processingQueue, eventGroup>>
        /\ secPc \in {"pdu", "send"} /\ secPc' # "collect"
    BY <1>6 DEF SecNewPdu, SecAddConsumer, SecSkipPdu, SecDataPdu,
                SecKeyFragmentPdu, SecSendFragment, SecSendTimeout,
                SecBatchDone, sharedVars, inVars, secVars
  <2>2. secPc' \in {"wait", "deferred"} => pduBatch' = << >>
    BY <1>6 DEF SecNewPdu, SecAddConsumer, SecSkipPdu, SecDataPdu,
                SecKeyFragmentPdu, SecSendFragment, SecSendTimeout,
                SecBatchDone, secVars
  <2> QED BY <1>5, <2>1, <2>2
<1>7. CASE SecDeferred
  <2>1. /\ UNCHANGED processingQueue
        /\ NEW_PDU \in eventGroup <=> NEW_PDU \in eventGroup'
        /\ secPc \in {"deferred", "take", "redo"} /\ secPc' # "collect"
    BY <1>7 DEF SecDeferred, SecNextConsumer, SecDeferredDone,
                SecTakeDeferred, SecTakenDeferred, SecRedoPdu, SecRedoDone,
                sharedVars, inVars, NEW_PDU, PROCESS_DEFERRED
  <2>2. secPc' \in {"wait", "deferred"} => pduBatch' = << >>
    BY <1>7 DEF SecDeferred, SecNextConsumer, SecDeferredDone,
                SecTakeDeferred, SecTakenDeferred, SecRedoPdu, SecRedoDone,
                StrandedInv
  <2> QED BY <2>1, <2>2 DEF StrandedInv
<1>8. CASE ReconstructorMain
  <2>1. /\ UNCHANGED <<processingQueue, secVars>>
        /\ NEW_PDU \in eventGroup <=> NEW_PDU \in eventGroup'
    BY <1>8 DEF ReconstructorMain, RecWait, RecCollect, RecCollected,
                RecFragment, RecBatchDone, RecKeyComplete, RecCallback,
                RecAddKey, RecFindLru, RecRemoveLru, RecRequestDeferred,
                RecSignal, RecRemoveKey, sharedVars, inVars, NEW_PDU,
                PROCESS_DEFERRED
  <2> QED BY <2>1 DEF StrandedInv, secVars
<1>9. CASE UNCHANGED vars
  BY <1>9, StrandedFrame DEF vars, sharedVars, inVars
<1> QED BY <1>1, <1>2, <1>3, <1>4, <1>6, <1>7, <1>8, <1>9
        DEF Next, SecProcessingMain

\* The processing task never sleeps on more PDUs than its queue holds
\* beyond one batch.
THEOREM StrandedBound == Spec => []StrandedPdus
<1>1. TypeOK /\ StrandedInv => StrandedPdus
  BY DEF StrandedInv, StrandedPdus
<1> QED BY <1>1, TypeInit, TypeNext, StrandedInit, StrandedNext, PTL DEF Spec

----------------------------------------------------------------------------
\* Deferred queues and the requests to process them.

Counts(c) == /\ c.deferred_queue_count = Len(c.deferredQueue)
             /\ Len(c.deferredQueue) <= DEFERRED_QUEUE_SIZE

\* What every operation on a consumer keeps, but for the request itself and
\* the address of a new consumer.
Keeps(c, d) == /\ d.request_pending = c.request_pending
               /\ d.mac_address = c.mac_address
               /\ Counts(c) => Counts(d)

LEMMA KeepsAddToDeferred ==
    ASSUME NEW c \in ConsumerType, NEW p \in Pdu
    PROVE  Keeps(c, AddToDeferred(c, p))
<1>1. CASE Len(c.deferredQueue) < DEFERRED_QUEUE_SIZE
  <2> DEFINE d == AddToDeferred(c, p)
  <2>1. /\ d.deferredQueue = Append(c.deferredQueue, p)
        /\ d.deferred_queue_count = c.deferred_queue_count + 1
        /\ d.request_pending = c.request_pending
        /\ d.mac_address = c.mac_address
    BY <1>1 DEF AddToDeferred, ConsumerType
  <2>2. Len(Append(c.deferredQueue, p)) = Len(c.deferredQueue) + 1
    BY AppendProperties DEF ConsumerType
  <2>3. Len(c.deferredQueue) \in Nat
    BY LenProperties DEF ConsumerType
  <2> HIDE DEF d
  <2>4. Counts(c) => Counts(d)
    BY <1>1, <2>1, <2>2, <2>3, QueueAssumption DEF Counts
  <2>5. Keeps(c, d)
    BY <2>1, <2>4 DEF Keeps
  <2> QED BY <2>5 DEF d
<1>2. CASE ~ (Len(c.deferredQueue) < DEFERRED_QUEUE_SIZE)
  BY <1>2 DEF AddToDeferred, Keeps
<1> QED BY <1>1, <1>2

LEMMA KeepsTakeDeferred ==
    ASSUME NEW c \in ConsumerType, c.deferredQueue # << >>
    PROVE  Keeps(c, TakeDeferred(c))
<1> DEFINE d == TakeDeferred(c)
<1>1. /\ d.deferredQueue = Tail(c.deferredQueue)
      /\ d.deferred_queue_count = IF c.deferred_queue_count > 0
                                  THEN c.deferred_queue_count - 1
                                  ELSE c.deferred_queue_count
      /\ d.request_pending = c.request_pending
      /\ d.mac_address = c.mac_address
  BY DEF TakeDeferred, ConsumerType
<1>2. Len(Tail(c.deferredQueue)) = Len(c.deferredQueue) - 1
  BY HeadTailProperties DEF ConsumerType
<1>3. Len(c.deferredQueue) \in Nat /\ Len(c.deferredQueue) > 0
  BY LenProperties, EmptySeq DEF ConsumerType
<1> HIDE DEF d
<1>4. Counts(c) => Counts(d)
  BY <1>1, <1>2, <1>3, QueueAssumption DEF Counts
<1>5. Keeps(c, d)
  BY <1>1, <1>4 DEF Keeps
<1> QED BY <1>5 DEF d

LEMMA KeepsLookedUp ==
    ASSUME NEW c \in ConsumerType, NEW p \in Pdu
    PROVE  /\ Keeps(c, LookedUp(c, p))
           /\ Keeps(c, [LookedUp(c, p) EXCEPT !.last_pdu_key_id = KeyId(p)])
BY DEF Keeps, Counts, LookedUp, ConsumerType

LEMMA KeepsTrans ==
    ASSUME NEW c, NEW d, NEW e, Keeps(c, d), Keeps(d, e)
    PROVE  Keeps(c, e)
BY DEF Keeps

LEMMA KeepsSelf == ASSUME NEW c PROVE Keeps(c, c)
BY DEF Keeps

\* The processing task keeps consumers as they are, but for a new one.
LEMMA NewPduKeeps ==
    ASSUME TypeOK, SecNewPdu, NEW j \in Consumer
    PROVE  \/ Keeps(consumer[j], consumer'[j])
           \/ /\ consumer[j].mac_address = NoAddress
              /\ ~ consumer'[j].request_pending
              /\ Counts(consumer'[j])
<1> DEFINE p == Head(pduBatch)
           i == IndexForMac(p.mac)
           c == [LookedUp(consumer[i], p) EXCEPT !.last_pdu_key_id = KeyId(p)]
<1>1. CASE SecAddConsumer
  <2> DEFINE f == FreeConsumer
             d == [ResetConsumer(consumer[f]) EXCEPT
                       !.mac_address = Head(pduBatch).mac]
  <2>1. f \in Consumer /\ consumer[f].mac_address = NoAddress
    BY <1>1, MacIndex DEF SecAddConsumer, FreeConsumer
  <2>2. consumer' = [consumer EXCEPT ![f] = d]
    BY <1>1 DEF SecAddConsumer
  <2>3. ~ d.request_pending /\ d.deferred_queue_count = 0
        /\ d.deferredQueue = << >>
    BY <2>1 DEF TypeOK, ConsumerOK, ResetConsumer, ConsumerType
  <2>4. Counts(d)
    <3> HIDE DEF d
    <3> QED BY <2>3, QueueAssumption DEF Counts
  <2>5. j # f => consumer'[j] = consumer[j]
    BY <2>1, <2>2 DEF TypeOK, ConsumerOK
  <2>6. j = f => consumer'[j] = d
    BY <2>1, <2>2 DEF TypeOK, ConsumerOK
  <2> HIDE DEF d
  <2> QED BY <2>1, <2>3, <2>4, <2>5, <2>6, KeepsSelf
<1>2. CASE SecDataPdu \/ SecKeyFragmentPdu
  <2> DEFINE d == IF ~ HasKeyFor(consumer[i], p) \/ IsPduInDeferredQueue(c)
                  THEN AddToDeferred(c, p) ELSE c
  <2>1. p \in Pdu /\ i \in Consumer
    BY <1>2, BatchType, MacIndex
       DEF SecDataPdu, SecKeyFragmentPdu, TypeOK, SecOK
  <2>2. c \in ConsumerType /\ Keeps(consumer[i], c)
    BY <2>1, SeenType, KeepsLookedUp DEF TypeOK, ConsumerOK
  <2>3. \/ consumer' = [consumer EXCEPT ![i] = d]
        \/ consumer' = [consumer EXCEPT ![i] = c]
    BY <1>2 DEF SecDataPdu, SecKeyFragmentPdu
  <2> HIDE DEF c
  <2>4. Keeps(consumer[i], d)
    BY <2>1, <2>2, KeepsAddToDeferred, KeepsTrans
  <2> HIDE DEF d
  <2> QED BY <2>1, <2>2, <2>3, <2>4, KeepsSelf DEF TypeOK, ConsumerOK
<1>3. CASE UNCHANGED consumer
  BY <1>3, KeepsSelf
<1> QED BY <1>1, <1>2, <1>3
        DEF SecNewPdu, SecCollect, SecCollected, SecSkipPdu, SecSendFragment,
            SecSendTimeout, SecBatchDone, sharedVars, outVars

LEMMA DeferredKeeps ==
    ASSUME TypeOK, SecDeferred, ~ SecRedoDone, NEW j \in Consumer
    PROVE  Keeps(consumer[j], consumer'[j])
<1> DEFINE c == consumer[consumerIndex]
           p == Head(pduBatch)
<1>1. CASE SecTakeDeferred
  <2>1. consumerIndex \in Consumer /\ c \in ConsumerType
    BY <1>1 DEF SecTakeDeferred, TypeOK, SecOK, ConsumerOK
  <2>2. Keeps(c, TakeDeferred(c))
    BY <1>1, <2>1, KeepsTakeDeferred DEF SecTakeDeferred
  <2> QED BY <1>1, <2>1, <2>2, KeepsSelf
          DEF SecTakeDeferred, TypeOK, ConsumerOK
<1>2. CASE SecRedoPdu
  <2> DEFINE d == IF HasKeyFor(c, p) THEN LookedUp(c, p)
                  ELSE IF KeyId(p) = c.last_pdu_key_id
                       THEN AddToDeferred(c, p) ELSE c
  <2>1. p \in Pdu
    BY <1>2, BatchType DEF SecRedoPdu, TypeOK, SecOK
  <2>2. consumerIndex \in Consumer /\ c \in ConsumerType
    BY <1>2 DEF SecRedoPdu, TypeOK, SecOK, ConsumerOK
  <2>3. Keeps(c, d)
    BY <2>1, <2>2, KeepsAddToDeferred, KeepsLookedUp, KeepsSelf
  <2>4. consumer' = [consumer EXCEPT ![consumerIndex] = d]
    BY <1>2 DEF SecRedoPdu
  <2> HIDE DEF d
  <2> QED BY <2>2, <2>3, <2>4, KeepsSelf DEF TypeOK, ConsumerOK
<1>3. CASE UNCHANGED consumer
  BY <1>3, KeepsSelf
<1> QED BY <1>1, <1>2, <1>3
        DEF SecDeferred, SecNextConsumer, SecDeferredDone, SecTakenDeferred,
            sharedVars, outVars

\* After a round a request is withdrawn only from the consumer at hand, and
\* where it stands the event is set.
LEMMA RedoDoneKeeps ==
    ASSUME TypeOK, SecRedoDone
    PROVE  /\ consumerIndex \in Consumer
           /\ \A j \in Consumer : Counts(consumer[j]) => Counts(consumer'[j])
           /\ \A j \in Consumer \ {consumerIndex} : consumer'[j] = consumer[j]
           /\ \A j \in Consumer :
                  consumer'[j].mac_address = consumer[j].mac_address
           /\ \/ ~ consumer'[consumerIndex].request_pending
              \/ PROCESS_DEFERRED \in eventGroup'
<1> DEFINE c == consumer[consumerIndex]
           d == [c EXCEPT !.request_pending = FALSE]
<1>1. consumerIndex \in Consumer /\ c \in ConsumerType
  BY DEF SecRedoDone, TypeOK, SecOK, ConsumerOK
<1>2. CASE IsPduInDeferredQueue(c)
  BY <1>1, <1>2 DEF SecRedoDone
<1>3. CASE ~ IsPduInDeferredQueue(c)
  <2>1. consumer' = [consumer EXCEPT ![consumerIndex] = d]
    BY <1>3 DEF SecRedoDone
  <2>2. /\ ~ d.request_pending /\ d.mac_address = c.mac_address
        /\ d.deferredQueue = c.deferredQueue
        /\ d.deferred_queue_count = c.deferred_queue_count
    BY <1>1 DEF ConsumerType
  <2> HIDE DEF d
  <2> QED BY <1>1, <2>1, <2>2 DEF TypeOK, ConsumerOK, Counts
<1> QED BY <1>2, <1>3

\* The reconstruction task keeps consumers too, but for the request.
LEMMA RecKeeps ==
    ASSUME TypeOK, ReconstructorMain, NEW j \in Consumer
    PROVE  /\ Counts(consumer[j]) => Counts(consumer'[j])
           /\ consumer'[j].mac_address = consumer[j].mac_address
           /\ \/ consumer'[j].request_pending = consumer[j].request_pending
              \/ /\ RecRequestDeferred
                 /\ consumer[j].mac_address = RecMac
<1> DEFINE i == RecConsumer
           c == consumer[i]
<1>1. CASE RecAddKey \/ RecRemoveLru \/ RecRequestDeferred
  <2>1. recPc \in RecWithConsumer
    BY <1>1 DEF RecAddKey, RecRemoveLru, RecRequestDeferred,
                RecWithConsumer, RecInCallback
  <2>2. i \in Consumer /\ c \in ConsumerType /\ c.mac_address = RecMac
    BY <2>1, RecConsumerType
  <2>3. CASE RecRequestDeferred
    <3>1. consumer' = [consumer EXCEPT ![i] =
                           [c EXCEPT !.request_pending = TRUE]]
      BY <2>3 DEF RecRequestDeferred
    <3> QED BY <2>2, <2>3, <3>1
            DEF TypeOK, ConsumerOK, ConsumerType, Counts
  <2>4. ASSUME NEW k, consumer' = [consumer EXCEPT ![i] =
                                      [c EXCEPT !.key_cache = k]]
        PROVE  /\ Counts(consumer[j]) => Counts(consumer'[j])
               /\ consumer'[j].mac_address = consumer[j].mac_address
               /\ consumer'[j].request_pending = consumer[j].request_pending
    BY <2>2, <2>4 DEF TypeOK, ConsumerOK, ConsumerType, Counts
  <2>5. CASE RecAddKey
    <3>1. consumer' = [consumer EXCEPT ![i] = [c EXCEPT !.key_cache =
              AddKeyToCache(c.key_cache, reconstructedKey, RecId)]]
      BY <2>5 DEF RecAddKey
    <3> QED BY <2>4, <3>1
  <2>6. CASE RecRemoveLru
    <3>1. consumer' = [consumer EXCEPT ![i] = [c EXCEPT !.key_cache =
              RemoveAt(c.key_cache, lruIndex)]]
      BY <2>6 DEF RecRemoveLru
    <3> QED BY <2>4, <3>1
  <2> QED BY <1>1, <2>3, <2>5, <2>6
<1>2. CASE UNCHANGED consumer
  BY <1>2
<1> QED BY <1>1, <1>2
        DEF ReconstructorMain, RecWait, RecCollect, RecCollected, RecFragment,
            RecBatchDone, RecKeyComplete, RecCallback, RecFindLru, RecSignal,
            RecRemoveKey, sharedVars, outVars

LEMMA CountsNext == TypeOK /\ QueueCounts /\ [Next]_vars => QueueCounts'
<1> SUFFICES ASSUME TypeOK, QueueCounts, [Next]_vars,
                    NEW j \in Consumer, Counts(consumer[j])
             PROVE  Counts(consumer'[j])
  BY DEF QueueCounts, Counts
<1>1. CASE SecNewPdu
  BY <1>1, NewPduKeeps DEF Keeps
<1>2. CASE SecDeferred
  BY <1>2, DeferredKeeps, RedoDoneKeeps DEF Keeps
<1>3. CASE ReconstructorMain
  BY <1>3, RecKeeps
<1>4. CASE UNCHANGED consumer
  BY <1>4
<1> QED BY <1>1, <1>2, <1>3, <1>4
        DEF Next, Environment, EnqueuePduForProcessing, LosePdu,
            SecProcessingMain, SecWait, vars, sharedVars, outVars

\* The counter of a deferred queue is always its length.
THEOREM DeferredCounts == Spec => []QueueCounts
<1>1. Init => QueueCounts
  BY QueueAssumption DEF Init, QueueCounts, ZeroConsumer
<1> QED BY <1>1, TypeInit, TypeNext, CountsNext, PTL DEF Spec

----------------------------------------------------------------------------
\* Requests to process a deferred queue.  A round starts with the first
\* consumer, and the batches of new PDUs before it do not move its index.

RequestInv ==
    /\ RequestNotForgotten
    /\ secPc \in {"collect", "pdu", "send"} => consumerIndex = 0

LEMMA RequestInit == Init => RequestInv
BY QueueAssumption
   DEF Init, RequestInv, RequestNotForgotten, ZeroConsumer, Consumer

\* What RequestNotForgotten says of one consumer.
Awaited(i) ==
    \/ PROCESS_DEFERRED \in eventGroup
    \/ /\ PROCESS_DEFERRED \in secEvents
       /\ secPc # "wait"
       /\ secPc \in {"deferred", "take", "redo"} => consumerIndex <= i
    \/ recPc = "signal" /\ consumer[i].mac_address = RecMac

LEMMA RequestSecWait ==
    TypeOK /\ RequestInv /\ SecWait => RequestInv'
<1> SUFFICES ASSUME TypeOK, RequestInv, SecWait PROVE RequestInv'
  OBVIOUS
<1>1. /\ secEvents' = eventGroup /\ consumer' = consumer
      /\ secPc' \in {"collect", "deferred"} /\ consumerIndex' = 0
      /\ UNCHANGED recVars /\ secPc = "wait"
  BY DEF SecWait, outVars
<1>2. \A i \in Consumer : 0 <= i
  BY QueueAssumption DEF Consumer
<1> QED BY <1>1, <1>2 DEF RequestInv, RequestNotForgotten, RecMac, recVars

LEMMA RequestNewPdu ==
    TypeOK /\ RequestInv /\ SecNewPdu => RequestInv'
<1> SUFFICES ASSUME TypeOK, RequestInv, SecNewPdu PROVE RequestInv'
  OBVIOUS
<1>1. /\ eventGroup' = eventGroup /\ UNCHANGED recVars
      /\ consumerIndex' = consumerIndex
      /\ secPc \in {"collect", "pdu", "send"}
      /\ PROCESS_DEFERRED \in secEvents =>
             PROCESS_DEFERRED \in secEvents' /\ secPc' # "wait"
  BY DEF SecNewPdu, SecCollect, SecCollected, SecAddConsumer, SecSkipPdu,
         SecDataPdu, SecKeyFragmentPdu, SecSendFragment, SecSendTimeout,
         SecBatchDone, sharedVars, inVars, secVars, NEW_PDU, PROCESS_DEFERRED
<1>2. consumerIndex = 0
  BY <1>1 DEF RequestInv
<1>3. ASSUME NEW i \in Consumer, consumer'[i].request_pending
      PROVE  Awaited(i)'
  <2>1. Keeps(consumer[i], consumer'[i])
    BY <1>3, NewPduKeeps
  <2>2. Awaited(i)
    BY <1>3, <2>1 DEF RequestInv, RequestNotForgotten, Awaited, Keeps
  <2>3. 0 <= i
    BY QueueAssumption DEF Consumer
  <2> QED BY <1>1, <1>2, <2>1, <2>2, <2>3
          DEF Awaited, Keeps, RecMac, recVars
<1> QED BY <1>1, <1>2, <1>3 DEF RequestInv, RequestNotForgotten, Awaited

LEMMA RequestDeferred ==
    TypeOK /\ RequestInv /\ SecDeferred => RequestInv'
<1> SUFFICES ASSUME TypeOK, RequestInv, SecDeferred PROVE RequestInv'
  OBVIOUS
<1>1. /\ secPc \in {"deferred", "take", "redo"}
      /\ secPc' \in {"deferred", "take", "redo", "wait"}
      /\ UNCHANGED recVars
      /\ eventGroup \subseteq eventGroup'
  BY DEF SecDeferred, SecNextConsumer, SecDeferredDone, SecTakeDeferred,
         SecTakenDeferred, SecRedoPdu, SecRedoDone, sharedVars, inVars
<1>2. consumerIndex \in Nat /\ Consumer \subseteq Nat
  BY QueueAssumption DEF TypeOK, SecOK, Consumer
<1>3. CASE SecRedoDone
  <2>1. /\ secEvents' = secEvents /\ secPc' = "deferred"
        /\ consumerIndex' = consumerIndex + 1
    BY <1>3 DEF SecRedoDone
  <2> SUFFICES ASSUME NEW i \in Consumer, consumer'[i].request_pending
               PROVE  Awaited(i)'
    BY <2>1 DEF RequestInv, RequestNotForgotten, Awaited
  <2>2. CASE i = consumerIndex
    BY <1>3, <2>2, RedoDoneKeeps DEF Awaited
  <2>3. CASE i # consumerIndex
    <3>1. consumer'[i] = consumer[i]
      BY <1>3, <2>3, RedoDoneKeeps
    <3>2. Awaited(i)
      BY <3>1 DEF RequestInv, RequestNotForgotten, Awaited
    <3>3. consumerIndex <= i => consumerIndex + 1 <= i
      BY <1>2, <2>3
    <3> QED BY <1>1, <2>1, <3>1, <3>2, <3>3 DEF Awaited, RecMac, recVars
  <2> QED BY <2>2, <2>3
<1>4. CASE ~ SecRedoDone
  <2> SUFFICES ASSUME NEW i \in Consumer, consumer'[i].request_pending
               PROVE  Awaited(i)'
    BY <1>1 DEF RequestInv, RequestNotForgotten, Awaited
  <2>1. Keeps(consumer[i], consumer'[i])
    BY <1>4, DeferredKeeps
  <2>2. Awaited(i)
    BY <2>1 DEF RequestInv, RequestNotForgotten, Awaited, Keeps
  <2>3. CASE SecNextConsumer
    <3>1. /\ secEvents' = secEvents /\ secPc' # "wait"
          /\ consumer' = consumer
          /\ consumerIndex = i => consumerIndex' = consumerIndex
          /\ consumerIndex' \in {consumerIndex, consumerIndex + 1}
      BY <2>3 DEF SecNextConsumer, sharedVars, outVars
    <3>2. consumerIndex <= i => consumerIndex' <= i
      BY <1>2, <3>1
    <3> QED BY <1>1, <2>2, <3>1, <3>2 DEF Awaited, RecMac, recVars
  <2>4. CASE SecDeferredDone
    <3>1. consumerIndex = MAX_BLE_CONSUMERS /\ ~ (consumerIndex <= i)
      BY <2>4, QueueAssumption DEF SecDeferredDone, Consumer
    <3> QED BY <1>1, <2>1, <2>2, <3>1 DEF Awaited, Keeps, RecMac, recVars
  <2>5. CASE SecTakeDeferred \/ SecTakenDeferred \/ SecRedoPdu
    <3>1. /\ secEvents' = secEvents /\ secPc' # "wait"
          /\ consumerIndex' = consumerIndex
      BY <2>5 DEF SecTakeDeferred, SecTakenDeferred, SecRedoPdu
    <3> QED BY <1>1, <2>1, <2>2, <3>1 DEF Awaited, Keeps, RecMac, recVars
  <2> QED BY <1>4, <2>3, <2>4, <2>5 DEF SecDeferred
<1> QED BY <1>3, <1>4

LEMMA RequestReconstructor ==
    TypeOK /\ RequestInv /\ ReconstructorMain => RequestInv'
<1> SUFFICES ASSUME TypeOK, RequestInv, ReconstructorMain PROVE RequestInv'
  OBVIOUS
<1>1. UNCHANGED secVars /\ eventGroup \subseteq eventGroup'
  BY DEF ReconstructorMain, RecWait, RecCollect, RecCollected, RecFragment,
         RecBatchDone, RecKeyComplete, RecCallback, RecAddKey, RecFindLru,
         RecRemoveLru, RecRequestDeferred, RecSignal, RecRemoveKey,
         sharedVars, inVars
<1>2. recPc = "signal" => RecSignal
  BY DEF ReconstructorMain, RecWait, RecCollect, RecCollected, RecFragment,
         RecBatchDone, RecKeyComplete, RecCallback, RecAddKey, RecFindLru,
         RecRemoveLru, RecRequestDeferred, RecRemoveKey
<1>3. RecSignal => PROCESS_DEFERRED \in eventGroup'
  BY DEF RecSignal
<1> SUFFICES ASSUME NEW i \in Consumer, consumer'[i].request_pending
             PROVE  Awaited(i)'
  BY <1>1 DEF RequestInv, RequestNotForgotten, Awaited, secVars
<1>4. CASE RecRequestDeferred /\ consumer[i].mac_address = RecMac
  <2>1. recPc' = "signal" /\ keyFragmentBatch' = keyFragmentBatch
    BY <1>4 DEF RecRequestDeferred
  <2> QED BY <1>4, <2>1, RecKeeps DEF Awaited, RecMac
<1>5. CASE consumer'[i].request_pending = consumer[i].request_pending
  <2>1. Awaited(i)
    BY <1>5 DEF RequestInv, RequestNotForgotten, Awaited
  <2> QED BY <1>1, <1>2, <1>3, <2>1 DEF Awaited, secVars
<1> QED BY <1>4, <1>5, RecKeeps

LEMMA RequestNext == TypeOK /\ RequestInv /\ [Next]_vars => RequestInv'
<1> SUFFICES ASSUME TypeOK, RequestInv, [Next]_vars PROVE RequestInv'
  OBVIOUS
<1>1. CASE Environment
  <2>1. /\ UNCHANGED <<outVars, secVars, recVars>>
        /\ eventGroup \subseteq eventGroup'
    BY <1>1 DEF Environment, EnqueuePduForProcessing, LosePdu, sharedVars,
                inVars
  <2> QED BY <2>1 DEF RequestInv, RequestNotForgotten, RecMac, outVars,
                      secVars, recVars
<1>2. CASE UNCHANGED vars
  BY <1>2 DEF RequestInv, RequestNotForgotten, RecMac, vars, sharedVars,
              inVars, outVars, secVars, recVars
<1> QED BY <1>1, <1>2, RequestSecWait, RequestNewPdu, RequestDeferred,
           RequestReconstructor DEF Next, SecProcessingMain

\* A request to process a deferred queue is never forgotten.
THEOREM RequestsKept == Spec => []RequestNotForgotten
<1>1. RequestInv => RequestNotForgotten
  BY DEF RequestInv
<1> QED BY <1>1, TypeInit, TypeNext, RequestInit, RequestNext, PTL DEF Spec

----------------------------------------------------------------------------
\* What is in a sequence, and how its elements are ordered.

\* Every element of A stands in R to every element of B.
Before(A, B, R) == \A a \in A, b \in B : <<a, b>> \in R

\* Each element of q stands in R to every one behind it.
Chain(q, R) == \A j, k \in DOMAIN q : j < k => <<q[j], q[k]>> \in R

LEMMA EmptyChain ==
    ASSUME NEW R
    PROVE  Range(<< >>) = {} /\ Chain(<< >>, R)
BY DEF Range, Chain

LEMMA AppendRange ==
    ASSUME NEW S, NEW q \in Seq(S), NEW x \in S
    PROVE  Range(Append(q, x)) = Range(q) \cup {x}
<1> DEFINE r == Append(q, x)
           n == Len(q)
<1>1. /\ n \in Nat /\ DOMAIN q = 1 .. n /\ DOMAIN r = 1 .. n + 1
      /\ \A k \in 1 .. n : r[k] = q[k]
      /\ r[n + 1] = x
  BY AppendProperties, LenProperties
<1> HIDE DEF r, n
<1>2. \A k \in DOMAIN r : r[k] \in Range(q) \cup {x}
  BY <1>1 DEF Range
<1>3. /\ \A k \in DOMAIN q : q[k] \in Range(r)
      /\ x \in Range(r)
  BY <1>1 DEF Range
<1>4. Range(r) = Range(q) \cup {x}
  BY <1>2, <1>3 DEF Range
<1> QED BY <1>4 DEF r

LEMMA AppendChain ==
    ASSUME NEW S, NEW q \in Seq(S), NEW x \in S, NEW R,
           Chain(q, R), Before(Range(q), {x}, R)
    PROVE  Chain(Append(q, x), R)
<1> DEFINE r == Append(q, x)
           n == Len(q)
<1>1. /\ n \in Nat /\ DOMAIN q = 1 .. n /\ DOMAIN r = 1 .. n + 1
      /\ \A k \in 1 .. n : r[k] = q[k]
      /\ r[n + 1] = x
  BY AppendProperties, LenProperties
<1> HIDE DEF r, n
<1>2. ASSUME NEW j \in DOMAIN r, NEW k \in DOMAIN r, j < k
      PROVE  <<r[j], r[k]>> \in R
  <2>1. j \in DOMAIN q
    BY <1>1, <1>2
  <2>2. CASE k \in DOMAIN q
    BY <1>1, <1>2, <2>1, <2>2 DEF Chain
  <2>3. CASE k \notin DOMAIN q
    <3>1. k = n + 1
      BY <1>1, <2>3
    <3> QED BY <1>1, <2>1, <3>1 DEF Before, Range
  <2> QED BY <2>2, <2>3
<1> QED BY <1>2 DEF Chain, r

LEMMA TailSteps ==
    ASSUME NEW S, NEW q \in Seq(S), q # << >>
    PROVE  /\ 1 \in DOMAIN q /\ Head(q) = q[1]
           /\ \A k \in DOMAIN Tail(q) : /\ k + 1 \in DOMAIN q
                                        /\ Tail(q)[k] = q[k + 1]
                                        /\ k \in Nat /\ k > 0
           /\ \A k \in DOMAIN q : k # 1 => /\ k - 1 \in DOMAIN Tail(q)
                                          /\ q[k] = Tail(q)[k - 1]
<1> DEFINE r == Tail(q)
           n == Len(q)
<1>1. /\ n \in Nat /\ n > 0 /\ DOMAIN q = 1 .. n
      /\ DOMAIN r = 1 .. n - 1
      /\ \A k \in 1 .. n - 1 : r[k] = q[k + 1]
      /\ Head(q) = q[1]
  BY HeadTailProperties, LenProperties, EmptySeq
<1> HIDE DEF r, n
<1>2. ASSUME NEW k \in DOMAIN q, k # 1
      PROVE  k - 1 \in DOMAIN r /\ q[k] = r[k - 1]
  <2>1. k - 1 \in 1 .. n - 1 /\ (k - 1) + 1 = k
    BY <1>1, <1>2
  <2> QED BY <1>1, <2>1
<1>3. \A k \in DOMAIN r : /\ k + 1 \in DOMAIN q /\ r[k] = q[k + 1]
                          /\ k \in Nat /\ k > 0
  BY <1>1
<1>4. 1 \in DOMAIN q /\ Head(q) = q[1]
  BY <1>1
<1> QED BY <1>2, <1>3, <1>4 DEF r

LEMMA TailRange ==
    ASSUME NEW S, NEW q \in Seq(S), q # << >>
    PROVE  Range(q) = {Head(q)} \cup Range(Tail(q))
<1>1. ASSUME NEW k \in DOMAIN q
      PROVE  q[k] \in {Head(q)} \cup Range(Tail(q))
  <2>1. CASE k = 1
    BY <2>1, TailSteps
  <2>2. CASE k # 1
    <3>1. k - 1 \in DOMAIN Tail(q) /\ q[k] = Tail(q)[k - 1]
      BY <1>1, <2>2, TailSteps
    <3> QED BY <3>1 DEF Range
  <2> QED BY <2>1, <2>2
<1>2. ASSUME NEW k \in DOMAIN Tail(q) PROVE Tail(q)[k] \in Range(q)
  BY <1>2, TailSteps DEF Range
<1>3. Head(q) \in Range(q)
  BY TailSteps DEF Range
<1> QED BY <1>1, <1>2, <1>3 DEF Range

LEMMA TailChain ==
    ASSUME NEW S, NEW q \in Seq(S), q # << >>, NEW R, Chain(q, R)
    PROVE  Chain(Tail(q), R) /\ Before({Head(q)}, Range(Tail(q)), R)
<1>1. ASSUME NEW j \in DOMAIN Tail(q), NEW k \in DOMAIN Tail(q), j < k
      PROVE  <<Tail(q)[j], Tail(q)[k]>> \in R
  <2>1. /\ j + 1 \in DOMAIN q /\ k + 1 \in DOMAIN q
        /\ Tail(q)[j] = q[j + 1] /\ Tail(q)[k] = q[k + 1]
        /\ j \in Nat /\ k \in Nat
    BY TailSteps
  <2>2. j + 1 < k + 1
    BY <1>1, <2>1
  <2> QED BY <2>1, <2>2 DEF Chain
<1>2. ASSUME NEW k \in DOMAIN Tail(q) PROVE <<Head(q), Tail(q)[k]>> \in R
  <2>1. /\ 1 \in DOMAIN q /\ k + 1 \in DOMAIN q
        /\ Head(q) = q[1] /\ Tail(q)[k] = q[k + 1]
        /\ k \in Nat /\ k > 0
    BY TailSteps
  <2>2. 1 < k + 1
    BY <2>1
  <2> QED BY <2>1, <2>2 DEF Chain
<1>3. Chain(Tail(q), R)
  BY <1>1 DEF Chain
<1>4. Before({Head(q)}, Range(Tail(q)), R)
  BY <1>2 DEF Before, Range
<1> QED BY <1>3, <1>4

----------------------------------------------------------------------------
\* The PDUs on their way to the consumers, and all that are past them.

\* The batch holds new PDUs, not deferred ones.
PduMode == secPc \in {"collect", "pdu", "send"}

LEMMA PduNo ==
    ASSUME NEW p \in Pdu
    PROVE  /\ p.mac \in Sender /\ p.no \in Nat
           /\ p.no \in 1 .. Len(Traffic[p.mac])
           /\ p = [mac |-> p.mac, no |-> p.no]
<1>1. PICK s \in Sender : p \in [mac : {s}, no : 1 .. Len(Traffic[s])]
  BY DEF Pdu
<1> QED BY <1>1

\* The PDUs that no consumer has seen.
Ahead == Range(processingQueue) \cup IF PduMode THEN Range(pduBatch)
                                                  ELSE {}

\* Of one sender, in the order of its broadcasts.
Sooner == {r \in Pdu \X Pdu : r[1].mac = r[2].mac => r[1].no < r[2].no}

\* What is on its way is in order, and has been broadcast.
AirInv ==
    /\ Chain(processingQueue, Sooner)
    /\ PduMode => /\ Chain(pduBatch, Sooner)
                  /\ Before(Range(pduBatch), Range(processingQueue),
                            Sooner)
    /\ \A p \in Ahead : p.no <= sent[p.mac]

\* The n-th PDU of sender s was broadcast before any that is on its way.
Behind(s, n) == /\ n <= sent[s]
                /\ \A p \in Ahead : p.mac = s => n < p.no

LEMMA AheadType ==
    ASSUME TypeOK
    PROVE  /\ Ahead \subseteq Pdu
           /\ Range(processingQueue) \subseteq Pdu
           /\ Range(pduBatch) \subseteq Pdu
BY RangeOfSeq DEF TypeOK, SenderOK, SecOK, Ahead

\* The steps of the processing task that leave its queue and its batch alone,
\* or take the head of the batch.
LEMMA BatchStep ==
    ASSUME TypeOK, [Next]_vars, ~ Environment, ~ SecCollect
    PROVE  /\ UNCHANGED <<sent, processingQueue>>
           /\ PduMode' => \/ PduMode /\ \/ pduBatch' = pduBatch
                                        \/ /\ pduBatch # << >>
                                           /\ pduBatch' = Tail(pduBatch)
                          \/ secPc = "wait" /\ pduBatch' = pduBatch
<1>1. CASE SecWait
  BY <1>1 DEF SecWait, airVars
<1>2. CASE SecNewPdu /\ secPc # "send"
  BY <1>2 DEF SecNewPdu, SecCollected, SecAddConsumer, SecSkipPdu, SecDataPdu,
              SecKeyFragmentPdu, SecSendFragment, SecSendTimeout,
              SecBatchDone, PduMode, sharedVars, airVars, inVars, secVars
<1>3. CASE SecNewPdu /\ secPc = "send"
  <2>1. UNCHANGED <<sent, processingQueue>>
        /\ pduBatch' \in {pduBatch, Tail(pduBatch)}
    BY <1>3 DEF SecNewPdu, SecCollected, SecAddConsumer, SecSkipPdu,
                SecDataPdu, SecKeyFragmentPdu, SecSendFragment,
                SecSendTimeout, SecBatchDone, sharedVars, airVars, inVars
  <2> QED BY <1>3, <2>1 DEF PduMode, TypeOK, SecOK
<1>4. CASE SecDeferred
  BY <1>4 DEF SecDeferred, SecNextConsumer, SecDeferredDone, SecTakeDeferred,
              SecTakenDeferred, SecRedoPdu, SecRedoDone, PduMode, sharedVars,
              airVars, inVars
<1>5. CASE ReconstructorMain
  BY <1>5 DEF ReconstructorMain, RecWait, RecCollect, RecCollected,
              RecFragment, RecBatchDone, RecKeyComplete, RecCallback,
              RecAddKey, RecFindLru, RecRemoveLru, RecRequestDeferred,
              RecSignal, RecRemoveKey, PduMode, sharedVars, airVars, inVars,
              secVars
<1>6. CASE UNCHANGED vars
  BY <1>6 DEF vars, PduMode, sharedVars, airVars, inVars, secVars
<1> QED BY <1>1, <1>2, <1>3, <1>4, <1>5, <1>6 DEF Next, SecProcessingMain

\* What comes to be on its way is the PDU its sender broadcasts.
LEMMA AheadStep ==
    ASSUME TypeOK, Placed, [Next]_vars
    PROVE  /\ \A p \in Ahead' : \/ p \in Ahead
                               \/ /\ p \in Pdu /\ p.no = sent[p.mac] + 1
                                  /\ sent'[p.mac] = p.no
           /\ \A s \in Sender : sent[s] <= sent'[s]
<1>0. /\ sent \in [Sender -> Nat] /\ processingQueue \in Seq(Pdu)
      /\ pduBatch \in Seq(Pdu)
  BY DEF TypeOK, SenderOK, SecOK
<1>1. ASSUME NEW s \in Sender, EnqueuePduForProcessing(s)
      PROVE  /\ \A p \in Ahead' : \/ p \in Ahead
                                 \/ /\ p \in Pdu /\ p.no = sent[p.mac] + 1
                                    /\ sent'[p.mac] = p.no
             /\ \A t \in Sender : sent[t] <= sent'[t]
  <2> DEFINE x == [mac |-> s, no |-> sent[s] + 1]
  <2>1. x \in Pdu
    BY <1>1, NewPduType DEF EnqueuePduForProcessing, TypeOK, SenderOK
  <2>2. /\ processingQueue' = Append(processingQueue, x)
        /\ sent' = [sent EXCEPT ![s] = sent[s] + 1]
        /\ UNCHANGED <<pduBatch, secPc>>
    BY <1>1 DEF EnqueuePduForProcessing, secVars
  <2>3. Ahead' = Ahead \cup {x}
    <3> HIDE DEF x
    <3>1. Range(processingQueue') = Range(processingQueue) \cup {x}
      BY <1>0, <2>1, <2>2, AppendRange
    <3> QED BY <2>2, <3>1 DEF Ahead, PduMode
  <2>4. x.mac = s /\ x.no = sent[s] + 1
    OBVIOUS
  <2>5. sent'[s] = sent[s] + 1 /\ \A t \in Sender : sent[t] <= sent'[t]
    BY <1>0, <2>2
  <2> HIDE DEF x
  <2> QED BY <2>1, <2>3, <2>4, <2>5
<1>2. ASSUME NEW s \in Sender, LosePdu(s)
      PROVE  Ahead' = Ahead /\ \A t \in Sender : sent[t] <= sent'[t]
  <2>1. \A t \in Sender : sent[t] <= sent'[t]
    BY <1>0, <1>2 DEF LosePdu
  <2> QED BY <1>2, <2>1
          DEF LosePdu, Ahead, PduMode, Range, sharedVars, inVars, secVars
<1>3. CASE SecCollect
  <2>1. /\ processingQueue # << >> /\ sent' = sent
        /\ processingQueue' = Tail(processingQueue)
        /\ pduBatch' = Append(pduBatch, Head(processingQueue))
        /\ PduMode /\ PduMode'
    BY <1>3 DEF SecCollect, airVars, PduMode
  <2>2. Range(processingQueue) = {Head(processingQueue)}
                                       \cup Range(processingQueue')
    BY <1>0, <2>1, TailRange
  <2>3. Head(processingQueue) \in Pdu
    BY <1>0, <2>1, HeadTailProperties
  <2>4. Range(pduBatch') = Range(pduBatch) \cup {Head(processingQueue)}
    BY <1>0, <2>1, <2>3, AppendRange
  <2>5. Ahead' = Ahead
    BY <2>1, <2>2, <2>4 DEF Ahead
  <2> QED BY <1>0, <2>1, <2>5
<1>4. CASE ~ Environment /\ ~ SecCollect
  <2>1. UNCHANGED <<sent, processingQueue>>
    BY <1>4, BatchStep
  <2>2. PduMode' => \/ PduMode /\ Range(pduBatch') \subseteq Range(pduBatch)
                    \/ Range(pduBatch') = {}
    <3>1. pduBatch # << >> => Range(Tail(pduBatch)) \subseteq Range(pduBatch)
      BY <1>0, TailRange
    <3>2. secPc = "wait" => Range(pduBatch) = {}
      BY EmptyChain DEF Placed, QueuesPlaced
    <3> QED BY <1>4, <3>1, <3>2, BatchStep
  <2>3. Ahead' \subseteq Ahead
    BY <2>1, <2>2 DEF Ahead
  <2> QED BY <1>0, <2>1, <2>3
<1> QED BY <1>1, <1>2, <1>3, <1>4 DEF Environment

\* What is past the consumers stays so.
LEMMA BehindStays ==
    ASSUME TypeOK, Placed, [Next]_vars, NEW s \in Sender, NEW n \in Nat,
           Behind(s, n)
    PROVE  Behind(s, n)'
<1>1. sent \in [Sender -> Nat] /\ sent' \in [Sender -> Nat]
  BY TypeNext DEF TypeOK, SenderOK
<1>2. n <= sent'[s]
  BY <1>1, AheadStep DEF Behind
<1>3. ASSUME NEW p \in Ahead', p.mac = s PROVE n < p.no
  <2>1. CASE p \in Ahead
    BY <1>3, <2>1 DEF Behind
  <2>2. CASE p.no = sent[p.mac] + 1
    BY <1>1, <1>3, <2>2 DEF Behind
  <2> QED BY <2>1, <2>2, AheadStep
<1> QED BY <1>2, <1>3 DEF Behind

LEMMA AirInit == Init => AirInv
<1> SUFFICES ASSUME Init PROVE AirInv
  OBVIOUS
<1>1. processingQueue = << >> /\ pduBatch = << >>
  BY DEF Init
<1> QED BY <1>1, EmptyChain DEF AirInv, Ahead, Before

LEMMA AirEnqueue ==
    ASSUME TypeOK, AirInv, NEW s \in Sender, EnqueuePduForProcessing(s)
    PROVE  /\ Chain(processingQueue', Sooner)
           /\ PduMode => Before(Range(pduBatch), Range(processingQueue'),
                                Sooner)
<1> DEFINE x == [mac |-> s, no |-> sent[s] + 1]
<1>1. x \in Pdu /\ x.mac = s /\ x.no = sent[s] + 1
  BY NewPduType DEF EnqueuePduForProcessing, TypeOK, SenderOK
<1>2. processingQueue' = Append(processingQueue, x)
  BY DEF EnqueuePduForProcessing
<1>3. sent \in [Sender -> Nat] /\ processingQueue \in Seq(Pdu)
  BY DEF TypeOK, SenderOK
<1> HIDE DEF x
<1>4. \A p \in Ahead : <<p, x>> \in Sooner
  <2> SUFFICES ASSUME NEW p \in Ahead, p.mac = s PROVE p.no < x.no
    BY <1>1, AheadType DEF Sooner
  <2>1. p \in Pdu /\ p.no <= sent[s]
    BY AheadType DEF AirInv
  <2> QED BY <1>1, <1>3, <2>1, PduNo
<1>5. Before(Range(processingQueue), {x}, Sooner)
  BY <1>4 DEF Before, Ahead
<1>6. Range(processingQueue') = Range(processingQueue) \cup {x}
      /\ Chain(processingQueue', Sooner)
  BY <1>1, <1>2, <1>3, <1>5, AppendRange, AppendChain DEF AirInv
<1> QED BY <1>4, <1>6 DEF Before, Ahead, AirInv

LEMMA AirNext ==
    ASSUME TypeOK, Placed, AirInv, [Next]_vars
    PROVE  AirInv'
<1>0. processingQueue \in Seq(Pdu) /\ pduBatch \in Seq(Pdu)
  BY DEF TypeOK, SenderOK, SecOK
<1>1. \A p \in Ahead' : p.no <= sent'[p.mac]
  <2> SUFFICES ASSUME NEW p \in Ahead' PROVE p.no <= sent'[p.mac]
    OBVIOUS
  <2>1. CASE p \in Ahead
    <3>1. p \in Pdu /\ p.no <= sent[p.mac]
      BY <2>1, AheadType DEF AirInv
    <3>2. /\ p.no \in Nat /\ p.mac \in Sender
          /\ sent[p.mac] \in Nat /\ sent'[p.mac] \in Nat
      BY <3>1, PduNo, TypeNext DEF TypeOK, SenderOK
    <3>3. sent[p.mac] <= sent'[p.mac]
      BY <3>2, AheadStep
    <3> QED BY <3>1, <3>2, <3>3
  <2>2. CASE p \in Pdu /\ sent'[p.mac] = p.no
    <3>1. p.no \in Nat
      BY <2>2, PduNo
    <3> QED BY <2>2, <3>1
  <2> QED BY <2>1, <2>2, AheadStep
<1>2. CASE Environment
  <2>1. UNCHANGED <<pduBatch, PduMode>>
    BY <1>2 DEF Environment, EnqueuePduForProcessing, LosePdu, secVars, PduMode
  <2>2. \/ processingQueue' = processingQueue
        \/ \E s \in Sender : EnqueuePduForProcessing(s)
    BY <1>2 DEF Environment, LosePdu, sharedVars, inVars
  <2>3. /\ Chain(processingQueue', Sooner)
        /\ PduMode => Before(Range(pduBatch), Range(processingQueue'),
                             Sooner)
    BY <2>2, AirEnqueue DEF AirInv
  <2> QED BY <1>1, <2>1, <2>3 DEF AirInv
<1>3. CASE SecCollect
  <2> DEFINE x == Head(processingQueue)
  <2>1. /\ processingQueue # << >> /\ PduMode /\ PduMode'
        /\ processingQueue' = Tail(processingQueue)
        /\ pduBatch' = Append(pduBatch, x)
    BY <1>3 DEF SecCollect, PduMode
  <2>2. x \in Pdu
    BY <1>0, <2>1, HeadTailProperties
  <2>3. /\ Range(processingQueue) = {x} \cup Range(processingQueue')
        /\ Chain(processingQueue', Sooner)
        /\ Before({x}, Range(processingQueue'), Sooner)
    BY <1>0, <2>1, TailRange, TailChain DEF AirInv
  <2>4. Before(Range(pduBatch), {x}, Sooner)
    BY <2>1, <2>3 DEF AirInv, Before
  <2>5. /\ Range(pduBatch') = Range(pduBatch) \cup {x}
        /\ Chain(pduBatch', Sooner)
    BY <1>0, <2>1, <2>2, <2>4, AppendRange, AppendChain DEF AirInv
  <2>6. Before(Range(pduBatch'), Range(processingQueue'), Sooner)
    BY <2>1, <2>3, <2>5 DEF AirInv, Before
  <2> QED BY <1>1, <2>3, <2>5, <2>6 DEF AirInv
<1>4. CASE ~ Environment /\ ~ SecCollect
  <2>1. Chain(processingQueue', Sooner)
    BY <1>4, BatchStep DEF AirInv
  <2>2. PduMode' => /\ Chain(pduBatch', Sooner)
                    /\ Before(Range(pduBatch'), Range(processingQueue'),
                              Sooner)
    <3>1. CASE PduMode /\ pduBatch' = pduBatch
      BY <1>4, <3>1, BatchStep DEF AirInv
    <3>2. CASE PduMode /\ pduBatch # << >> /\ pduBatch' = Tail(pduBatch)
      <4>1. /\ Range(pduBatch') \subseteq Range(pduBatch)
            /\ Chain(pduBatch', Sooner)
        BY <1>0, <3>2, TailRange, TailChain DEF AirInv
      <4> QED BY <1>4, <3>2, <4>1, BatchStep DEF AirInv, Before
    <3>3. CASE secPc = "wait" /\ pduBatch' = pduBatch
      <4>1. Range(pduBatch') = {} /\ Chain(pduBatch', Sooner)
        BY <3>3, EmptyChain DEF Placed, QueuesPlaced
      <4> QED BY <4>1 DEF Before
    <3> QED BY <1>4, <3>1, <3>2, <3>3, BatchStep
  <2> QED BY <1>1, <2>1, <2>2 DEF AirInv
<1> QED BY <1>2, <1>3, <1>4

----------------------------------------------------------------------------
\* What has left the way to the consumers.

\* What observers get of a PDU.
Got == [no : Nat, key : KeyValue]

\* The PDUs that are past the way, or were lost on it.
Passed == {p \in Pdu : Behind(p.mac, p.no)}

\* All that waits, that was delivered or that goes to the reconstruction task
\* has left the way, so a PDU on the way is nowhere else.
BehindInv ==
    /\ ~ PduMode => Range(pduBatch) \subseteq Passed
    /\ \A i \in Consumer : Range(consumer[i].deferredQueue) \subseteq Passed
    /\ \A s \in Sender : \A x \in Range(notified[s]) : Behind(s, x.no)
    /\ Range(fragmentQueue) \cup Range(keyFragmentBatch) \subseteq Passed

\* What holds of the places of PDUs, whatever the order of delivery.
OrderInv == TypeOK /\ QueueCounts /\ Placed /\ AirInv /\ BehindInv

LEMMA BehindInit == Init => BehindInv
<1> SUFFICES ASSUME Init PROVE BehindInv
  OBVIOUS
<1>1. /\ pduBatch = << >> /\ fragmentQueue = << >> /\ keyFragmentBatch = << >>
      /\ \A i \in Consumer : consumer[i].deferredQueue = << >>
      /\ \A s \in Sender : notified[s] = << >>
  BY DEF Init, ZeroConsumer
<1> QED BY <1>1, EmptyChain DEF BehindInv

LEMMA PassedStays ==
    ASSUME TypeOK, Placed, [Next]_vars
    PROVE  Passed \subseteq Passed'
<1> SUFFICES ASSUME NEW p \in Pdu, Behind(p.mac, p.no)
             PROVE  Behind(p.mac, p.no)'
  BY DEF Passed, Pdu
<1>1. p.mac \in Sender /\ p.no \in Nat
  BY PduNo
<1>2. \A s \in Sender, n \in Nat : Behind(s, n) => Behind(s, n)'
  BY BehindStays
<1>3. \A s, n : Behind(s, n)' <=> /\ n <= sent'[s]
                                  /\ \A q \in Ahead' : q.mac = s => n < q.no
  BY DEF Behind
<1> QED BY <1>1, <1>2, <1>3 DEF Behind

\* The head of the batch is past the consumers once it is taken.
LEMMA HeadPasses ==
    ASSUME TypeOK, AirInv, UNCHANGED <<sent, processingQueue>>,
           PduMode, pduBatch # << >>, pduBatch' = Tail(pduBatch),
           NEW p, p = Head(pduBatch)
    PROVE  p \in Passed' /\ p \in Ahead
<1>1. pduBatch \in Seq(Pdu) /\ p \in Pdu
  BY HeadTailProperties DEF TypeOK, SecOK
<1>2. /\ Range(pduBatch) = {p} \cup Range(pduBatch')
      /\ Before({p}, Range(pduBatch'), Sooner)
  BY <1>1, TailRange, TailChain DEF AirInv
<1>3. p \in Ahead
  BY <1>2 DEF Ahead
<1>4. Before({p}, Range(processingQueue), Sooner)
  BY <1>2 DEF AirInv, Before
<1>5. \A q \in Ahead' : <<p, q>> \in Sooner
  BY <1>2, <1>4 DEF Ahead, Before
<1>6. p.no <= sent'[p.mac]
  BY <1>3 DEF AirInv
<1>7. \A q \in Ahead' : q.mac = p.mac => p.no < q.no
  BY <1>5 DEF Sooner
<1>8. Behind(p.mac, p.no)'
  BY <1>6, <1>7 DEF Behind
<1> QED BY <1>1, <1>3, <1>8 DEF Passed, Pdu

\* What a step adds to a deferred queue.
LEMMA DeferredRange ==
    ASSUME TypeOK, [Next]_vars, NEW j \in Consumer
    PROVE  \/ consumer'[j].deferredQueue = consumer[j].deferredQueue
           \/ SecAddConsumer /\ consumer'[j].deferredQueue = << >>
           \/ /\ SecTakeDeferred /\ j = consumerIndex
              /\ Range(consumer[j].deferredQueue) =
                     {Head(consumer[j].deferredQueue)}
                         \cup Range(consumer'[j].deferredQueue)
           \/ /\ \/ SecDataPdu /\ j = IndexForMac(Head(pduBatch).mac)
                 \/ SecRedoPdu /\ j = consumerIndex
              /\ consumer'[j].deferredQueue =
                     Append(consumer[j].deferredQueue, Head(pduBatch))
              /\ Range(consumer'[j].deferredQueue) =
                     Range(consumer[j].deferredQueue) \cup {Head(pduBatch)}
<1> DEFINE c == consumer[j]
           d == consumer'[j]
           p == Head(pduBatch)
<1>0. /\ c.deferredQueue \in Seq(Pdu)
      /\ \A i : OnlyConsumer(i) /\ j # i => d = c
  BY CacheTypes DEF ConsumerType, OnlyConsumer
<1>1. ASSUME p \in Pdu, d.deferredQueue = Append(c.deferredQueue, p)
      PROVE  Range(d.deferredQueue) = Range(c.deferredQueue) \cup {p}
  BY <1>0, <1>1, AppendRange
<1>2. CASE SecAddConsumer
  BY <1>0, <1>2, AddConsumerStep
<1>3. CASE SecDataPdu
  <2>1. CASE j = IndexForMac(p.mac)
    <3>1. p \in Pdu /\ d.deferredQueue \in {c.deferredQueue,
                                             Append(c.deferredQueue, p)}
      BY <1>3, <2>1, DataPduStep DEF PduStep
    <3>2. CASE d.deferredQueue = c.deferredQueue
      BY <3>2
    <3>3. CASE d.deferredQueue = Append(c.deferredQueue, p)
      BY <1>1, <1>3, <2>1, <3>1, <3>3
    <3> QED BY <3>1, <3>2, <3>3
  <2>2. CASE j # IndexForMac(p.mac)
    BY <1>0, <1>3, <2>2, DataPduStep
  <2> QED BY <2>1, <2>2
<1>4. CASE SecKeyFragmentPdu
  BY <1>0, <1>4, KeyFragmentStep DEF SameQueue
<1>5. CASE SecTakeDeferred
  <2>1. CASE j = consumerIndex
    <3>1. /\ c.deferredQueue # << >>
          /\ d.deferredQueue = Tail(c.deferredQueue)
      BY <1>5, <2>1, TakeStep
    <3>2. Range(c.deferredQueue) = {Head(c.deferredQueue)}
                                         \cup Range(Tail(c.deferredQueue))
      BY <1>0, <3>1, TailRange
    <3> QED BY <1>5, <2>1, <3>1, <3>2
  <2> QED BY <1>0, <1>5, <2>1, TakeStep
<1>6. CASE SecRedoPdu
  BY <1>0, <1>1, <1>6, RedoStep
<1>7. CASE SecRedoDone
  BY <1>0, <1>7, RedoDoneStep DEF SameQueue
<1>8. CASE RecAddKey \/ RecRemoveLru \/ RecRequestDeferred
  BY <1>0, <1>8, AddKeyStep, RemoveLruStep, RequestStep DEF RecStep, SameQueue
<1>9. CASE ~ ConsumerChanges
  BY <1>9, ConsumerFrame
<1> QED BY <1>2, <1>3, <1>4, <1>5, <1>6, <1>7, <1>8, <1>9 DEF ConsumerChanges

\* What a step adds to what the observers of a sender got.
LEMMA NotifiedRange ==
    ASSUME TypeOK, [Next]_vars, NEW s \in Sender
    PROVE  \/ notified'[s] = notified[s]
           \/ /\ SecDataPdu \/ SecRedoPdu
              /\ Head(pduBatch) \in Pdu /\ Head(pduBatch).mac = s
              /\ \E k \in KeyValue :
                     LET x == [no |-> Head(pduBatch).no, key |-> k]
                     IN  /\ notified'[s] = Append(notified[s], x)
                         /\ Range(notified'[s]) = Range(notified[s])
                                                        \cup {x}
<1> DEFINE p == Head(pduBatch)
<1>1. ASSUME p \in Pdu, NEW k, DecryptAndNotify(k, p),
             SecDataPdu \/ SecRedoPdu
      PROVE  \/ notified'[s] = notified[s]
             \/ /\ SecDataPdu \/ SecRedoPdu
                /\ p \in Pdu /\ p.mac = s
                /\ \E l \in KeyValue :
                       LET x == [no |-> p.no, key |-> l]
                       IN  /\ notified'[s] = Append(notified[s], x)
                           /\ Range(notified'[s]) = Range(notified[s])
                                                          \cup {x}
  <2> DEFINE x == [no |-> p.no, key |-> k]
  <2> SUFFICES ASSUME p.mac = s
               PROVE  /\ k \in KeyValue
                      /\ notified'[s] = Append(notified[s], x)
                      /\ Range(notified'[s]) = Range(notified[s]) \cup {x}
    BY <1>1, NotifiedStep DEF Got
  <2>1. /\ notified'[s] = Append(notified[s], x)
        /\ notified[s] \in Seq(Got)
    BY <1>1, NotifiedStep DEF Got
  <2>2. x \in Got
    <3>1. notified'[s] \in Seq(Got)
      BY TypeNext DEF TypeOK, ConsumerOK, Got
    <3>2. /\ Len(notified[s]) + 1 \in DOMAIN notified'[s]
          /\ notified'[s][Len(notified[s]) + 1] = x
      <4> HIDE DEF x
      <4>1. Len(notified[s]) \in Nat
        BY <2>1, LenProperties
      <4> QED BY <2>1, <4>1
    <3> HIDE DEF x
    <3> QED BY <3>1, <3>2, ElementOfSeq, LenProperties
  <2>3. Range(notified'[s]) = Range(notified[s]) \cup {x}
    <3> HIDE DEF x
    <3>1. Range(Append(notified[s], x)) = Range(notified[s]) \cup {x}
      BY <2>1, <2>2, AppendRange
    <3> QED BY <2>1, <3>1
  <2> QED BY <2>1, <2>2, <2>3 DEF Got
<1>2. CASE SecDataPdu
  BY <1>1, <1>2, DataPduStep DEF PduStep
<1>3. CASE SecRedoPdu
  BY <1>1, <1>3, RedoStep
<1> QED BY <1>2, <1>3, NotifiedFrame

\* The head of the batch, when a PDU step takes it.
LEMMA PduPasses ==
    ASSUME OrderInv, [Next]_vars, SecDataPdu \/ SecRedoPdu \/ SecSendFragment,
           NEW p, p = Head(pduBatch)
    PROVE  /\ p \in Passed'
           /\ SecDataPdu => p \in Ahead
<1>1. CASE SecDataPdu \/ SecSendFragment
  <2>1. /\ pduBatch # << >> /\ pduBatch' = Tail(pduBatch) /\ PduMode
        /\ UNCHANGED <<sent, processingQueue>>
    BY <1>1 DEF SecDataPdu, SecSendFragment, OrderInv, TypeOK, SecOK, PduMode,
                inVars, airVars
  <2> QED BY <2>1, HeadPasses DEF OrderInv
<1>2. CASE SecRedoPdu
  <2>1. pduBatch # << >> /\ pduBatch \in Seq(Pdu) /\ ~ PduMode
    BY <1>2 DEF SecRedoPdu, OrderInv, TypeOK, SecOK, PduMode
  <2>2. p \in Passed
    BY <2>1, TailRange DEF OrderInv, BehindInv
  <2>3. ~ SecDataPdu
    BY <1>2 DEF SecRedoPdu, SecDataPdu
  <2> QED BY <2>2, <2>3, PassedStays DEF OrderInv
<1> QED BY <1>1, <1>2

LEMMA BehindNext ==
    ASSUME OrderInv, [Next]_vars
    PROVE  BehindInv'
<1>0. /\ TypeOK /\ Placed /\ AirInv /\ BehindInv /\ Passed \subseteq Passed'
      /\ TypeOK' /\ Placed'
      /\ pduBatch \in Seq(Pdu) /\ fragmentQueue \in Seq(Pdu)
      /\ keyFragmentBatch \in Seq(Pdu)
  BY PassedStays, TypeNext, PlacedNext DEF OrderInv, TypeOK, SecOK, KeyOK, RecOK
<1>1. ASSUME NEW j \in Consumer
      PROVE  Range(consumer'[j].deferredQueue) \subseteq Passed'
  <2>1. Range(consumer[j].deferredQueue) \subseteq Passed'
    BY <1>0 DEF BehindInv
  <2>2. CASE SecAddConsumer /\ consumer'[j].deferredQueue = << >>
    BY <2>2, EmptyChain
  <2>3. CASE /\ SecDataPdu \/ SecRedoPdu
             /\ Range(consumer'[j].deferredQueue) =
                    Range(consumer[j].deferredQueue) \cup {Head(pduBatch)}
    BY <2>1, <2>3, PduPasses
  <2>4. CASE Range(consumer'[j].deferredQueue)
                 \subseteq Range(consumer[j].deferredQueue)
    BY <2>1, <2>4
  <2> QED BY <1>0, <2>2, <2>3, <2>4, DeferredRange
<1>2. ASSUME NEW s \in Sender, NEW x \in Range(notified'[s])
      PROVE  Behind(s, x.no)'
  <2>1. CASE x \in Range(notified[s])
    <3>1. Behind(s, x.no)
      BY <1>0, <2>1 DEF BehindInv
    <3>2. x.no \in Nat
      <4>1. notified[s] \in Seq(Got)
        BY <1>0 DEF TypeOK, ConsumerOK, Got
      <4>2. x \in Got
        BY <2>1, <4>1, RangeOfSeq
      <4> QED BY <4>2 DEF Got
    <3> QED BY <1>0, <3>1, <3>2, BehindStays
  <2>2. CASE /\ SecDataPdu \/ SecRedoPdu
             /\ Head(pduBatch).mac = s /\ x.no = Head(pduBatch).no
    <3>1. PICK p : p = Head(pduBatch)
      OBVIOUS
    <3>2. p \in Passed' /\ p.mac = s /\ p.no = x.no
      BY <2>2, <3>1, PduPasses
    <3>3. Behind(p.mac, p.no)'
      BY <3>2 DEF Passed
    <3> QED BY <3>2, <3>3
  <2>3. notified'[s] = notified[s] => x \in Range(notified[s])
    BY <1>2
  <2>4. PICK k : \/ notified'[s] = notified[s]
                 \/ /\ SecDataPdu \/ SecRedoPdu
                    /\ Head(pduBatch).mac = s
                    /\ Range(notified'[s]) = Range(notified[s])
                           \cup {[no |-> Head(pduBatch).no, key |-> k]}
    BY <1>0, NotifiedRange
  <2> QED BY <1>2, <2>1, <2>2, <2>3, <2>4
<1>3. Range(fragmentQueue') \cup Range(keyFragmentBatch') \subseteq Passed'
  <2>0. Range(fragmentQueue) \cup Range(keyFragmentBatch) \subseteq Passed'
    BY <1>0 DEF BehindInv
  <2>1. CASE SecSendFragment
    <3>1. PICK p : p = Head(pduBatch)
      OBVIOUS
    <3>2. /\ fragmentQueue' = Append(fragmentQueue, p)
          /\ keyFragmentBatch' = keyFragmentBatch
      BY <2>1, <3>1 DEF SecSendFragment, recVars
    <3>3. p \in Pdu /\ p \in Passed'
      <4>1. p \in Passed'
        BY <2>1, <3>1, PduPasses
      <4> QED BY <4>1 DEF Passed, Pdu
    <3>4. Range(fragmentQueue') = Range(fragmentQueue) \cup {p}
      BY <1>0, <3>2, <3>3, AppendRange
    <3> QED BY <2>0, <3>2, <3>3, <3>4
  <2>2. CASE RecCollect
    <3>1. /\ fragmentQueue # << >> /\ fragmentQueue' = Tail(fragmentQueue)
          /\ keyFragmentBatch' = Append(keyFragmentBatch, Head(fragmentQueue))
      BY <2>2 DEF RecCollect
    <3>2. /\ Range(fragmentQueue) = {Head(fragmentQueue)}
                                          \cup Range(fragmentQueue')
          /\ Head(fragmentQueue) \in Pdu
      BY <1>0, <3>1, TailRange, HeadTailProperties
    <3>3. Range(keyFragmentBatch') = Range(keyFragmentBatch)
                                           \cup {Head(fragmentQueue)}
      BY <1>0, <3>1, <3>2, AppendRange
    <3> QED BY <2>0, <3>2, <3>3
  <2>3. CASE ~ SecSendFragment /\ ~ RecCollect
    <3>1. /\ fragmentQueue' = fragmentQueue
          /\ \/ keyFragmentBatch' = keyFragmentBatch
             \/ /\ keyFragmentBatch # << >>
                /\ keyFragmentBatch' = Tail(keyFragmentBatch)
      BY <1>0, <2>3
         DEF Next, Environment, EnqueuePduForProcessing, LosePdu,
             SecProcessingMain, SecWait, SecNewPdu, SecDeferred, SecCollect,
             SecCollected, SecAddConsumer, SecSkipPdu, SecDataPdu,
             SecKeyFragmentPdu, SecSendTimeout, SecBatchDone,
             SecNextConsumer, SecDeferredDone, SecTakeDeferred,
             SecTakenDeferred, SecRedoPdu, SecRedoDone, ReconstructorMain,
             RecWait, RecCollected, RecFragment, RecBatchDone,
             RecKeyComplete, RecCallback, RecAddKey, RecFindLru,
             RecRemoveLru, RecRequestDeferred, RecSignal, RecRemoveKey, vars,
             keyVars, sharedVars, recVars, TypeOK, RecOK, RecInCallback
    <3>2. keyFragmentBatch # << >> => Range(Tail(keyFragmentBatch))
                                          \subseteq Range(keyFragmentBatch)
      BY <1>0, TailRange
    <3> QED BY <2>0, <3>1, <3>2
  <2> QED BY <2>1, <2>2, <2>3
<1>4. ~ PduMode' => Range(pduBatch') \subseteq Passed'
  <2>1. CASE secPc' \in {"wait", "deferred"}
    BY <1>0, <2>1, EmptyChain DEF Placed, QueuesPlaced
  <2>2. CASE SecTakeDeferred
    <3>1. /\ consumerIndex \in Consumer
          /\ pduBatch' = Append(pduBatch,
                                Head(consumer[consumerIndex].deferredQueue))
          /\ Head(consumer[consumerIndex].deferredQueue) \in Pdu
          /\ consumer[consumerIndex].deferredQueue \in Seq(Pdu)
          /\ consumer[consumerIndex].deferredQueue # << >>
          /\ ~ PduMode
      BY <1>0, <2>2, TakeStep DEF OnlyConsumer, SecTakeDeferred, PduMode
    <3>2. Head(consumer[consumerIndex].deferredQueue) \in Passed'
      BY <1>0, <3>1, TailRange DEF BehindInv
    <3>3. Range(pduBatch') = Range(pduBatch) \cup
                                   {Head(consumer[consumerIndex].deferredQueue)}
      BY <1>0, <3>1, AppendRange
    <3> QED BY <1>0, <3>1, <3>2, <3>3 DEF BehindInv
  <2>3. CASE secPc' \in {"take", "redo"} /\ ~ SecTakeDeferred
    <3>1. /\ ~ PduMode
          /\ \/ pduBatch' = pduBatch
             \/ pduBatch # << >> /\ pduBatch' = Tail(pduBatch)
      BY <2>3
         DEF Next, Environment, EnqueuePduForProcessing, LosePdu,
             SecProcessingMain, SecWait, SecNewPdu, SecDeferred, SecCollect,
             SecCollected, SecAddConsumer, SecSkipPdu, SecDataPdu,
             SecKeyFragmentPdu, SecSendFragment, SecSendTimeout,
             SecBatchDone, SecNextConsumer, SecDeferredDone,
             SecTakenDeferred, SecRedoPdu, SecRedoDone, ReconstructorMain,
             RecWait, RecCollect, RecCollected, RecFragment, RecBatchDone,
             RecKeyComplete, RecCallback, RecAddKey, RecFindLru,
             RecRemoveLru, RecRequestDeferred, RecSignal, RecRemoveKey, vars,
             secVars, PduMode
    <3>2. pduBatch # << >> => Range(Tail(pduBatch)) \subseteq Range(pduBatch)
      BY <1>0, TailRange
    <3> QED BY <1>0, <3>1, <3>2 DEF BehindInv
  <2>4. secPc' \in SecPc
    BY <1>0 DEF TypeOK, SecOK
  <2> QED BY <2>1, <2>2, <2>3, <2>4 DEF PduMode, SecPc
<1> QED BY <1>1, <1>2, <1>3, <1>4 DEF BehindInv

LEMMA OrderInit == Init => OrderInv
<1>1. Init => QueueCounts
  BY QueueAssumption DEF Init, QueueCounts, ZeroConsumer
<1> QED BY <1>1, TypeInit, PlacedInit, AirInit, BehindInit DEF OrderInv

LEMMA OrderNext == OrderInv /\ [Next]_vars => OrderInv'
BY TypeNext, CountsNext, PlacedNext, AirNext, BehindNext DEF OrderInv

----------------------------------------------------------------------------
\* The line of each sender's data PDUs: what its observers got, what is taken
\* from its deferred queue, and what waits there.

\* A PDU before or after its delivery.
Item == Pdu \cup Got

\* No two of a sender's PDUs in its line are the same; or each was broadcast
\* before those behind it.
Differ == {r \in Item \X Item : r[1].no # r[2].no}
Earlier == {r \in Item \X Item : r[1].no < r[2].no}

\* The batch holds PDUs of the deferred queue of consumerIndex.
Processing == secPc \in {"take", "redo"}

\* In the line of each sender every PDU stands in R to all behind it: first
\* what was delivered, then the batch that is being taken and the rest of the
\* queue; or, as the batch is processed, what waits again and the rest of it.
InLine(R) ==
    /\ \A s \in Sender : Chain(notified[s], R)
    /\ \A i \in Consumer :
           LET c == consumer[i]
           IN  /\ Chain(c.deferredQueue, R)
               /\ c.mac_address \in Sender =>
                      Before(Range(notified[c.mac_address]),
                             Range(c.deferredQueue), R)
    /\ Processing =>
           LET c == consumer[consumerIndex]
           IN  /\ Chain(pduBatch, R)
               /\ c.mac_address \in Sender =>
                      Before(Range(notified[c.mac_address]),
                             Range(pduBatch), R)
               /\ secPc = "take" =>
                      Before(Range(pduBatch), Range(c.deferredQueue), R)
               /\ secPc = "redo" =>
                      Before(Range(c.deferredQueue), Range(pduBatch), R)

\* The two relations look at numbers only, and hold from what is past the
\* consumers to what is ahead of them.
LEMMA LineRelation ==
    ASSUME NEW R \in {Differ, Earlier}
    PROVE  /\ \A a, b, x \in Item : x.no = b.no =>
                  /\ <<a, b>> \in R => <<a, x>> \in R
                  /\ <<b, a>> \in R => <<x, a>> \in R
           /\ \A a, b \in Item : a.no \in Nat /\ b.no \in Nat
           /\ \A a, b \in Item : a.no < b.no => <<a, b>> \in R
           /\ R = Differ => \A a, b : <<a, b>> \in R => <<b, a>> \in R
<1>1. \A a \in Item : a.no \in Nat
  BY PduNo DEF Item, Got
<1>2. CASE R = Differ
  BY <1>1, <1>2 DEF Differ
<1>3. CASE R = Earlier
  <2>1. \/ Earlier # Differ
        \/ \A a, b : <<a, b>> \in Earlier => <<b, a>> \in Earlier
    BY DEF Differ
  <2> QED BY <1>1, <1>3, <2>1 DEF Earlier
<1> QED BY <1>2, <1>3

LEMMA LineTypes ==
    ASSUME TypeOK
    PROVE  /\ \A i \in Consumer :
                  /\ consumer[i].deferredQueue \in Seq(Item)
                  /\ Range(consumer[i].deferredQueue) \subseteq Pdu
           /\ \A s \in Sender : /\ notified[s] \in Seq(Item)
                                /\ Range(notified[s]) \subseteq Got
           /\ pduBatch \in Seq(Item) /\ Range(pduBatch) \subseteq Pdu
           /\ Pdu \subseteq Item /\ Got \subseteq Item
<1>1. Pdu \subseteq Item /\ Got \subseteq Item
  BY DEF Item
<1>2. \A i \in Consumer : consumer[i].deferredQueue \in Seq(Pdu)
  BY CacheTypes DEF ConsumerType
<1>3. \A s \in Sender : notified[s] \in Seq(Got)
  BY DEF TypeOK, ConsumerOK, Got
<1>4. pduBatch \in Seq(Pdu)
  BY DEF TypeOK, SecOK
<1>5. Seq(Pdu) \subseteq Seq(Item) /\ Seq(Got) \subseteq Seq(Item)
  BY <1>1, SeqMonotonic
<1> QED BY <1>1, <1>2, <1>3, <1>4, <1>5, RangeOfSeq

LEMMA LineInit ==
    ASSUME Init, NEW R
    PROVE  InLine(R)
<1>1. /\ pduBatch = << >> /\ secPc = "wait"
      /\ \A i \in Consumer : consumer[i].deferredQueue = << >>
      /\ \A s \in Sender : notified[s] = << >>
  BY DEF Init, ZeroConsumer
<1> QED BY <1>1, EmptyChain DEF InLine, Before, Processing

\* What the observers got and what waits precede a PDU ahead of them.
LEMMA LinePrecedes ==
    ASSUME OrderInv, NEW R \in {Differ, Earlier}, NEW p \in Ahead
    PROVE  /\ p \in Pdu /\ p.mac \in Sender
           /\ Before(Range(notified[p.mac]), {p}, R)
           /\ \A i \in Consumer :
                  consumer[i].mac_address = p.mac =>
                      Before(Range(consumer[i].deferredQueue), {p}, R)
<1>0. TypeOK /\ Placed /\ BehindInv
  BY DEF OrderInv
<1>1. p \in Pdu /\ p.mac \in Sender /\ p \in Item
  BY <1>0, AheadType, PduNo, LineTypes
<1>2. \A a \in Item : a.no < p.no => <<a, p>> \in R
  BY <1>1, LineRelation
<1>3. ASSUME NEW a \in Range(notified[p.mac]) PROVE <<a, p>> \in R
  <2>1. a \in Item /\ a.no < p.no
    BY <1>0, <1>1, LineTypes DEF BehindInv, Behind
  <2> QED BY <1>2, <2>1
<1>4. ASSUME NEW i \in Consumer, consumer[i].mac_address = p.mac,
             NEW a \in Range(consumer[i].deferredQueue)
      PROVE  <<a, p>> \in R
  <2>1. a \in Pdu /\ Behind(a.mac, a.no)
    BY <1>0 DEF BehindInv, Passed
  <2>2. a.mac = p.mac
    <3>1. a \in PduOf(consumer[i].mac_address)
      BY <1>0, RangeOfSeq DEF Placed, QueuesPlaced
    <3> QED BY <1>4, <3>1 DEF PduOf
  <2>3. a.no < p.no /\ a \in Item
    BY <1>0, <2>1, <2>2, LineTypes DEF Behind
  <2> QED BY <1>2, <2>3
<1> QED BY <1>1, <1>3, <1>4 DEF Before

\* A PDU that is delivered comes last of what its sender's observers got, and
\* stays before whatever it was before.
LEMMA LineDelivered ==
    ASSUME TypeOK, [Next]_vars, NEW R \in {Differ, Earlier}, InLine(R),
           NEW p \in Pdu, p = Head(pduBatch),
           Before(Range(notified[p.mac]), {p}, R)
    PROVE  /\ \A s \in Sender \ {p.mac} : notified'[s] = notified[s]
           /\ \A s \in Sender : Chain(notified'[s], R)
           /\ \A B \in SUBSET Item :
                  /\ Before(Range(notified[p.mac]), B, R)
                  /\ \/ Before({p}, B, R)
                     \/ notified'[p.mac] = notified[p.mac]
                  => Before(Range(notified'[p.mac]), B, R)
<1> DEFINE s == p.mac
<1>0. /\ s \in Sender /\ p \in Item /\ notified[s] \in Seq(Item)
      /\ Range(notified[s]) \subseteq Item
      /\ \A t \in Sender : Chain(notified[t], R)
  BY PduNo, LineTypes DEF InLine
<1>1. \A t \in Sender \ {s} : notified'[t] = notified[t]
  BY NotifiedRange
<1>2. CASE notified'[s] = notified[s]
  BY <1>0, <1>1, <1>2
<1>3. ASSUME NEW k \in KeyValue, NEW x, x = [no |-> p.no, key |-> k],
             notified'[s] = Append(notified[s], x),
             Range(notified'[s]) = Range(notified[s]) \cup {x}
      PROVE  /\ Chain(notified'[s], R)
             /\ \A B \in SUBSET Item :
                    /\ Before(Range(notified[s]), B, R)
                    /\ Before({p}, B, R)
                    => Before(Range(notified'[s]), B, R)
  <2>1. x \in Item /\ x.no = p.no
    BY <1>3, PduNo DEF Item, Got
  <2>2. \A a \in Item : /\ <<a, p>> \in R => <<a, x>> \in R
                        /\ <<p, a>> \in R => <<x, a>> \in R
    BY <1>0, <2>1, LineRelation
  <2>3. Before(Range(notified[s]), {x}, R)
    BY <1>0, <2>2 DEF Before
  <2>4. Chain(notified'[s], R)
    BY <1>0, <1>3, <2>1, <2>3, AppendChain
  <2>5. ASSUME NEW B \in SUBSET Item, Before({p}, B, R)
        PROVE  Before({x}, B, R)
    BY <2>2, <2>5 DEF Before
  <2> QED BY <1>3, <2>4, <2>5 DEF Before
<1>4. CASE notified'[s] # notified[s]
  <2>1. PICK k \in KeyValue :
            /\ notified'[s] = Append(notified[s], [no |-> p.no, key |-> k])
            /\ Range(notified'[s]) = Range(notified[s])
                                           \cup {[no |-> p.no, key |-> k]}
    BY <1>0, <1>4, NotifiedRange
  <2>2. PICK x : x = [no |-> p.no, key |-> k]
    OBVIOUS
  <2>3. /\ Chain(notified'[s], R)
        /\ \A B \in SUBSET Item :
               /\ Before(Range(notified[s]), B, R)
               /\ Before({p}, B, R)
               => Before(Range(notified'[s]), B, R)
    BY <1>3, <2>1, <2>2
  <2> QED BY <1>0, <1>1, <1>4, <2>3
<1> QED BY <1>2, <1>4

\* Consumers of two senders do not share one's line.
LEMMA LineOfOthers ==
    ASSUME OrderInv, NEW R, InLine(R), NEW j \in Consumer,
           consumer'[j].deferredQueue = consumer[j].deferredQueue,
           consumer'[j].mac_address = consumer[j].mac_address,
           consumer[j].mac_address \in Sender =>
               notified'[consumer[j].mac_address] =
                   notified[consumer[j].mac_address]
    PROVE  /\ Chain(consumer'[j].deferredQueue, R)
           /\ consumer'[j].mac_address \in Sender =>
                  Before(Range(notified'[consumer'[j].mac_address]),
                         Range(consumer'[j].deferredQueue), R)
BY DEF InLine

LEMMA LineData ==
    ASSUME OrderInv, [Next]_vars, NEW R \in {Differ, Earlier}, InLine(R),
           SecDataPdu
    PROVE  InLine(R)'
<1>1. PICK p : p = Head(pduBatch)
  OBVIOUS
<1>2. PICK i : i = IndexForMac(p.mac)
  OBVIOUS
<1> DEFINE c == consumer[i]
           d == consumer'[i]
<1>3. /\ i \in Consumer /\ p \in Pdu /\ c.mac_address = p.mac
      /\ d.mac_address = p.mac
      /\ \A j \in Consumer \ {i} : consumer'[j] = consumer[j]
      /\ \/ /\ c.deferred_queue_count = 0
            /\ d.deferredQueue = c.deferredQueue
         \/ /\ d.deferredQueue \in {c.deferredQueue, Append(c.deferredQueue, p)}
            /\ UNCHANGED notified
  BY <1>1, <1>2, DataPduStep DEF OrderInv, PduStep, SameSender, OnlyConsumer
<1>4. /\ p.mac \in Sender /\ p \in Item
      /\ Before(Range(notified[p.mac]), {p}, R)
      /\ Before(Range(c.deferredQueue), {p}, R)
  <2>1. p \in Ahead
    BY <1>1, PduPasses
  <2> QED BY <1>3, <2>1, LinePrecedes DEF Item
<1>5. /\ \A s \in Sender \ {p.mac} : notified'[s] = notified[s]
      /\ \A s \in Sender : Chain(notified'[s], R)
  BY <1>1, <1>3, <1>4, LineDelivered DEF OrderInv
<1>6. ASSUME NEW j \in Consumer, j # i
      PROVE  /\ consumer'[j] = consumer[j]
             /\ consumer[j].mac_address \in Sender =>
                    consumer[j].mac_address # p.mac
  <2>1. consumer[j].mac_address = p.mac => p.mac = NoAddress
    BY <1>3, <1>6 DEF OrderInv, Placed, QueuesPlaced
  <2> QED BY <1>3, <1>6, <2>1, TrafficAssumption
<1>7. /\ Chain(d.deferredQueue, R)
      /\ Before(Range(notified'[p.mac]), Range(d.deferredQueue), R)
  <2>0. /\ Chain(c.deferredQueue, R) /\ c.deferredQueue \in Seq(Item)
        /\ Before(Range(notified[p.mac]), Range(c.deferredQueue), R)
    BY <1>3, <1>4, LineTypes DEF InLine, OrderInv
  <2>1. CASE /\ c.deferred_queue_count = 0
             /\ d.deferredQueue = c.deferredQueue
    <3>1. c.deferredQueue = << >>
      BY <1>3, <2>0, <2>1, EmptySeq DEF OrderInv, QueueCounts
    <3> QED BY <2>0, <2>1, <3>1, EmptyChain DEF Before
  <2>2. CASE d.deferredQueue = c.deferredQueue /\ UNCHANGED notified
    BY <2>0, <2>2
  <2>3. CASE /\ d.deferredQueue = Append(c.deferredQueue, p)
             /\ UNCHANGED notified
    <3>1. /\ Chain(d.deferredQueue, R)
          /\ Range(d.deferredQueue) = Range(c.deferredQueue) \cup {p}
      BY <1>4, <2>0, <2>3, AppendChain, AppendRange
    <3> QED BY <1>4, <2>0, <2>3, <3>1 DEF Before
  <2> QED BY <1>3, <2>1, <2>2, <2>3
<1>8. ~ Processing'
  BY DEF SecDataPdu, Processing
<1>9. ASSUME NEW j \in Consumer
      PROVE  /\ Chain(consumer'[j].deferredQueue, R)
             /\ consumer'[j].mac_address \in Sender =>
                    Before(Range(notified'[consumer'[j].mac_address]),
                           Range(consumer'[j].deferredQueue), R)
  BY <1>3, <1>5, <1>6, <1>7, LineOfOthers
<1> QED BY <1>5, <1>8, <1>9 DEF InLine

\* The head of the deferred queue becomes the last of the batch.
LEMMA LineTake ==
    ASSUME OrderInv, NEW R \in {Differ, Earlier}, InLine(R), SecTakeDeferred
    PROVE  InLine(R)'
<1>1. PICK i : i = consumerIndex
  OBVIOUS
<1> DEFINE c == consumer[i]
           d == consumer'[i]
           p == Head(c.deferredQueue)
<1>2. /\ i \in Consumer /\ d.mac_address = c.mac_address
      /\ \A j \in Consumer \ {i} : consumer'[j] = consumer[j]
      /\ c.deferredQueue # << >> /\ d.deferredQueue = Tail(c.deferredQueue)
      /\ pduBatch' = Append(pduBatch, p) /\ p \in Pdu
      /\ UNCHANGED <<notified, consumerIndex>>
      /\ secPc = "take" /\ secPc' = "take"
  BY <1>1, TakeStep DEF OrderInv, SameSender, OnlyConsumer, SecTakeDeferred
<1>3. /\ c.deferredQueue \in Seq(Item) /\ pduBatch \in Seq(Item) /\ p \in Item
  BY <1>2, LineTypes DEF OrderInv
<1>4. /\ Chain(c.deferredQueue, R) /\ Chain(pduBatch, R)
      /\ c.mac_address \in Sender =>
             /\ Before(Range(notified[c.mac_address]), Range(pduBatch), R)
             /\ Before(Range(notified[c.mac_address]),
                       Range(c.deferredQueue), R)
      /\ Before(Range(pduBatch), Range(c.deferredQueue), R)
  BY <1>1, <1>2 DEF InLine, Processing
<1>5. /\ Range(c.deferredQueue) = {p} \cup Range(d.deferredQueue)
      /\ Chain(d.deferredQueue, R)
      /\ Before({p}, Range(d.deferredQueue), R)
  BY <1>2, <1>3, <1>4, TailRange, TailChain
<1> HIDE DEF p
<1>6. Before(Range(pduBatch), {p}, R)
  BY <1>4, <1>5 DEF Before
<1>7. /\ Range(pduBatch') = Range(pduBatch) \cup {p}
      /\ Chain(pduBatch', R)
  BY <1>2, <1>3, <1>4, <1>6, AppendRange, AppendChain
<1>8. /\ Before(Range(pduBatch'), Range(d.deferredQueue), R)
      /\ c.mac_address \in Sender =>
             /\ Before(Range(notified[c.mac_address]), Range(pduBatch'), R)
             /\ Before(Range(notified[c.mac_address]),
                       Range(d.deferredQueue), R)
  BY <1>4, <1>5, <1>7 DEF Before
<1>9. ASSUME NEW j \in Consumer
      PROVE  /\ Chain(consumer'[j].deferredQueue, R)
             /\ consumer'[j].mac_address \in Sender =>
                    Before(Range(notified'[consumer'[j].mac_address]),
                           Range(consumer'[j].deferredQueue), R)
  BY <1>2, <1>5, <1>8, LineOfOthers
<1> QED BY <1>1, <1>2, <1>7, <1>8, <1>9 DEF InLine, Processing

\* What is left in the deferred queue is from now on in front of the batch.
LEMMA LineTaken ==
    ASSUME OrderInv, NEW R \in {Differ, Earlier}, InLine(R),
           SecTakenDeferred,
           R = Differ \/ consumer[consumerIndex].deferredQueue = << >>
    PROVE  InLine(R)'
<1>1. /\ UNCHANGED <<consumer, notified, pduBatch, consumerIndex>>
      /\ secPc = "take" /\ secPc' = "redo"
  BY DEF SecTakenDeferred
<1>2. Before(Range(consumer[consumerIndex].deferredQueue),
             Range(pduBatch), R)
  <2>1. Before(Range(pduBatch),
               Range(consumer[consumerIndex].deferredQueue), R)
    BY <1>1 DEF InLine, Processing
  <2> QED BY <2>1, LineRelation, EmptyChain DEF Before
<1> QED BY <1>1, <1>2 DEF InLine, Processing

\* The head of the batch is delivered, waits again or is dropped.
LEMMA LineRedo ==
    ASSUME OrderInv, [Next]_vars, NEW R \in {Differ, Earlier}, InLine(R),
           SecRedoPdu,
           \/ R = Differ
           \/ ~ HasKeyFor(consumer[consumerIndex], Head(pduBatch))
           \/ consumer[consumerIndex].deferredQueue = << >>
    PROVE  InLine(R)'
<1>1. PICK p : p = Head(pduBatch)
  OBVIOUS
<1>2. PICK i : i = consumerIndex
  OBVIOUS
<1> DEFINE c == consumer[i]
           d == consumer'[i]
<1>3. /\ i \in Consumer /\ p \in Pdu /\ pduBatch # << >>
      /\ d.mac_address = c.mac_address
      /\ \A j \in Consumer \ {i} : consumer'[j] = consumer[j]
      /\ pduBatch' = Tail(pduBatch)
      /\ \/ HasKeyFor(c, p) /\ d.deferredQueue = c.deferredQueue
         \/ /\ d.deferredQueue = c.deferredQueue
            /\ UNCHANGED notified
         \/ /\ d.deferredQueue = Append(c.deferredQueue, p)
            /\ UNCHANGED notified
      /\ secPc = "redo" /\ secPc' = "redo" /\ consumerIndex' = consumerIndex
  BY <1>1, <1>2, RedoStep DEF OrderInv, SameSender, OnlyConsumer, SecRedoPdu
<1>4. p.mac = c.mac_address /\ p.mac \in Sender /\ p \in Item
  <2>1. pduBatch \in Seq(PduOf(c.mac_address))
    BY <1>2, <1>3 DEF OrderInv, Placed, BatchPlaced
  <2>2. p \in PduOf(c.mac_address)
    BY <1>1, <1>3, <2>1, HeadTailProperties
  <2> QED BY <2>2, PduNo DEF PduOf, Item
<1>5. /\ Chain(c.deferredQueue, R) /\ Chain(pduBatch, R)
      /\ Before(Range(notified[p.mac]), Range(pduBatch), R)
      /\ Before(Range(notified[p.mac]), Range(c.deferredQueue), R)
      /\ Before(Range(c.deferredQueue), Range(pduBatch), R)
      /\ c.deferredQueue \in Seq(Item) /\ pduBatch \in Seq(Item)
  BY <1>2, <1>3, <1>4, LineTypes DEF InLine, Processing, OrderInv
<1>6. /\ Range(pduBatch) = {p} \cup Range(pduBatch')
      /\ Chain(pduBatch', R) /\ Before({p}, Range(pduBatch'), R)
      /\ Range(pduBatch') \subseteq Item
  <2>1. Range(pduBatch) \subseteq Item
    BY <1>5, RangeOfSeq
  <2> QED BY <1>1, <1>3, <1>5, <2>1, TailRange, TailChain
<1>7. /\ Before(Range(notified[p.mac]), {p}, R)
      /\ Before(Range(c.deferredQueue), {p}, R)
  BY <1>5, <1>6 DEF Before
<1>8. /\ \A s \in Sender \ {p.mac} : notified'[s] = notified[s]
      /\ \A s \in Sender : Chain(notified'[s], R)
      /\ \A B \in SUBSET Item :
             /\ Before(Range(notified[p.mac]), B, R)
             /\ Before({p}, B, R) \/ notified'[p.mac] = notified[p.mac]
             => Before(Range(notified'[p.mac]), B, R)
  BY <1>1, <1>3, <1>7, LineDelivered DEF OrderInv
<1>9. Before(Range(notified'[p.mac]), Range(pduBatch'), R)
  <2>1. Before(Range(notified[p.mac]), Range(pduBatch'), R)
    BY <1>5, <1>6 DEF Before
  <2> QED BY <1>6, <1>8, <2>1
<1>10. /\ Chain(d.deferredQueue, R)
       /\ Before(Range(notified'[p.mac]), Range(d.deferredQueue), R)
       /\ Before(Range(d.deferredQueue), Range(pduBatch'), R)
  <2>1. CASE d.deferredQueue = Append(c.deferredQueue, p) /\ UNCHANGED notified
    <3>1. /\ Range(d.deferredQueue) = Range(c.deferredQueue) \cup {p}
          /\ Chain(d.deferredQueue, R)
      BY <1>4, <1>5, <1>7, <2>1, AppendRange, AppendChain
    <3> QED BY <1>5, <1>6, <1>7, <2>1, <3>1 DEF Before
  <2>2. CASE d.deferredQueue = c.deferredQueue /\ UNCHANGED notified
    BY <1>5, <1>6, <2>2 DEF Before
  <2>3. CASE HasKeyFor(c, p) /\ d.deferredQueue = c.deferredQueue
    <3>1. Before(Range(c.deferredQueue), Range(pduBatch'), R)
      BY <1>5, <1>6 DEF Before
    <3>2. CASE R = Differ
      <4>1. Before({p}, Range(c.deferredQueue), R)
        BY <1>7, <3>2, LineRelation DEF Before
      <4>2. Range(c.deferredQueue) \subseteq Item
        BY <1>5, RangeOfSeq
      <4> QED BY <1>5, <1>8, <2>3, <3>1, <4>1, <4>2
    <3>3. CASE c.deferredQueue = << >>
      BY <1>5, <2>3, <3>3, EmptyChain DEF Before
    <3> QED BY <1>1, <1>2, <2>3, <3>2, <3>3
  <2> QED BY <1>3, <2>1, <2>2, <2>3
<1>11. ASSUME NEW j \in Consumer
       PROVE  /\ Chain(consumer'[j].deferredQueue, R)
              /\ consumer'[j].mac_address \in Sender =>
                     Before(Range(notified'[consumer'[j].mac_address]),
                            Range(consumer'[j].deferredQueue), R)
  <2>1. CASE j = i
    BY <1>3, <1>4, <1>10, <2>1
  <2>2. CASE j # i
    <3>1. consumer[j].mac_address = p.mac => p.mac = NoAddress
      BY <1>3, <1>4, <2>2 DEF OrderInv, Placed, QueuesPlaced
    <3> QED BY <1>3, <1>4, <1>8, <2>2, <3>1, LineOfOthers, TrafficAssumption
  <2> QED BY <2>1, <2>2
<1> QED BY <1>2, <1>3, <1>4, <1>6, <1>8, <1>9, <1>10, <1>11
        DEF InLine, Processing

\* No other step touches a line.
LEMMA LineKept ==
    ASSUME OrderInv, [Next]_vars, NEW R, InLine(R),
           ~ SecDataPdu, ~ SecTakeDeferred, ~ SecTakenDeferred, ~ SecRedoPdu
    PROVE  InLine(R)'
<1>0. TypeOK /\ Placed /\ notified' = notified
  BY NotifiedFrame DEF OrderInv
<1>1. \A s \in Sender : Chain(notified'[s], R)
  BY <1>0 DEF InLine
<1>2. ASSUME NEW j \in Consumer
      PROVE  \/ consumer'[j].deferredQueue = << >>
             \/ /\ consumer'[j].deferredQueue = consumer[j].deferredQueue
                /\ consumer'[j].mac_address = consumer[j].mac_address
  <2>1. CASE SecAddConsumer
    BY <1>0, <2>1, AddConsumerStep DEF OnlyConsumer
  <2>2. CASE ~ SecAddConsumer
    BY <1>0, <2>2, DeferredRange, MacStep
  <2> QED BY <2>1, <2>2
<1>3. ASSUME NEW j \in Consumer
      PROVE  /\ Chain(consumer'[j].deferredQueue, R)
             /\ consumer'[j].mac_address \in Sender =>
                    Before(Range(notified'[consumer'[j].mac_address]),
                           Range(consumer'[j].deferredQueue), R)
  <2>1. CASE consumer'[j].deferredQueue = << >>
    BY <2>1, EmptyChain DEF Before
  <2>2. CASE /\ consumer'[j].deferredQueue = consumer[j].deferredQueue
             /\ consumer'[j].mac_address = consumer[j].mac_address
    BY <1>0, <2>2, LineOfOthers
  <2> QED BY <1>2, <2>1, <2>2
<1>4. Processing' =>
          \/ pduBatch' = << >>
          \/ /\ Processing /\ ~ SecAddConsumer
             /\ UNCHANGED <<secPc, consumerIndex, pduBatch>>
  <2>1. SecAddConsumer => ~ Processing'
    BY DEF SecAddConsumer, Processing, secVars
  <2>2. CASE SecNextConsumer
    BY <1>0, <2>2 DEF SecNextConsumer, Placed, QueuesPlaced
  <2>3. CASE ~ SecNextConsumer
    <3>1. Processing' => Processing
                         /\ UNCHANGED <<secPc, consumerIndex, pduBatch>>
      BY <2>3
         DEF Next, Environment, EnqueuePduForProcessing, LosePdu,
             SecProcessingMain, SecWait, SecNewPdu, SecDeferred, SecCollect,
             SecCollected, SecAddConsumer, SecSkipPdu, SecDataPdu,
             SecKeyFragmentPdu, SecSendFragment, SecSendTimeout,
             SecBatchDone, SecDeferredDone, SecRedoDone, ReconstructorMain,
             RecWait, RecCollect, RecCollected, RecFragment, RecBatchDone,
             RecKeyComplete, RecCallback, RecAddKey, RecFindLru,
             RecRemoveLru, RecRequestDeferred, RecSignal, RecRemoveKey, vars,
             secVars, Processing
    <3> QED BY <2>1, <3>1
  <2> QED BY <2>2, <2>3
<1>5. CASE ~ Processing'
  BY <1>1, <1>3, <1>5 DEF InLine
<1>6. CASE Processing' /\ pduBatch' = << >>
  <2>1. Chain(pduBatch', R) /\ \A A : Before(A, Range(pduBatch'), R)
                                      /\ Before(Range(pduBatch'), A, R)
    BY <1>6, EmptyChain DEF Before
  <2> QED BY <1>1, <1>3, <2>1 DEF InLine
<1>7. CASE /\ Processing /\ ~ SecAddConsumer
           /\ UNCHANGED <<secPc, consumerIndex, pduBatch>>
  <2>1. /\ consumerIndex \in Consumer
        /\ consumer'[consumerIndex].mac_address =
               consumer[consumerIndex].mac_address
        /\ consumer'[consumerIndex].deferredQueue =
               consumer[consumerIndex].deferredQueue
    BY <1>0, <1>7, DeferredRange, MacStep DEF Processing, TypeOK, SecOK
  <2> QED BY <1>0, <1>1, <1>3, <1>7, <2>1 DEF InLine
<1> QED BY <1>4, <1>5, <1>6, <1>7

LEMMA DifferNext == OrderInv /\ InLine(Differ) /\ [Next]_vars => InLine(Differ)'
<1>1. Differ \in {Differ, Earlier}
  OBVIOUS
<1> QED BY <1>1, LineData, LineTake, LineTaken, LineRedo, LineKept

\* How often something is in a sequence of different things.
LEMMA CountOnce ==
    ASSUME NEW q, NEW R, Chain(q, R), DOMAIN q \subseteq Nat, NEW K,
           K \subseteq DOMAIN q, \A j, k \in K : <<q[j], q[k]>> \notin R
    PROVE  Cardinality(K) \in {0, 1} /\ (Cardinality(K) = 0 <=> K = {})
<1>1. ASSUME NEW j \in K, NEW k \in K PROVE j = k
  <2>1. j \in DOMAIN q /\ k \in DOMAIN q /\ j \in Nat /\ k \in Nat
    OBVIOUS
  <2>2. ~ (j < k) /\ ~ (k < j)
    BY <2>1 DEF Chain
  <2> QED BY <2>1, <2>2
<1>2. CASE K = {}
  BY <1>2, FS_EmptySet
<1>3. ASSUME NEW k \in K PROVE Cardinality(K) = 1 /\ K # {}
  <2>1. K = {k}
    BY <1>1
  <2> QED BY <2>1, FS_Singleton
<1> QED BY <1>2, <1>3

\* Where a PDU is, it is once.
LEMMA PlacesOnce ==
    ASSUME OrderInv, InLine(Differ), NEW p \in Pdu
    PROVE  /\ Copies(processingQueue, p) \in {0, 1}
           /\ Copies(processingQueue, p) = 0
                  <=> p \notin Range(processingQueue)
           /\ Copies(pduBatch, p) \in {0, 1}
           /\ Copies(pduBatch, p) = 0 <=> p \notin Range(pduBatch)
           /\ \A i \in Consumer :
                  LET q == consumer[i].deferredQueue
                  IN  /\ Copies(q, p) \in {0, 1}
                      /\ Copies(q, p) = 0 <=> p \notin Range(q)
<1>0. TypeOK /\ Placed /\ AirInv
  BY DEF OrderInv
<1>1. ASSUME NEW q, NEW R, Chain(q, R), DOMAIN q \subseteq Nat,
             <<p, p>> \notin R
      PROVE  Copies(q, p) \in {0, 1} /\ (Copies(q, p) = 0
                                             <=> p \notin Range(q))
  <2> DEFINE K == {k \in DOMAIN q : q[k] = p}
  <2>1. Cardinality(K) \in {0, 1} /\ (Cardinality(K) = 0 <=> K = {})
    <3>1. K \subseteq DOMAIN q /\ \A j, k \in K : <<q[j], q[k]>> \notin R
      BY <1>1
    <3> HIDE DEF K
    <3> QED BY <1>1, <3>1, CountOnce
  <2>2. K = {} <=> p \notin Range(q)
    BY DEF Range
  <2> QED BY <2>1, <2>2 DEF Copies
<1>2. \A S : \A q \in Seq(S) : DOMAIN q \subseteq Nat
  BY LenProperties
<1>3. <<p, p>> \notin Sooner /\ <<p, p>> \notin Differ
  <2>1. p.no \in Nat
    BY PduNo
  <2> QED BY <2>1 DEF Sooner, Differ
<1>4. /\ processingQueue \in Seq(Pdu) /\ pduBatch \in Seq(Pdu)
      /\ \A i \in Consumer : consumer[i].deferredQueue \in Seq(Pdu)
  BY <1>0, CacheTypes DEF TypeOK, SenderOK, SecOK, ConsumerType
<1>5. Copies(processingQueue, p) \in {0, 1}
      /\ (Copies(processingQueue, p) = 0 <=> p \notin Range(processingQueue))
  BY <1>0, <1>1, <1>2, <1>3, <1>4 DEF AirInv
<1>6. Copies(pduBatch, p) \in {0, 1}
      /\ (Copies(pduBatch, p) = 0 <=> p \notin Range(pduBatch))
  <2>1. CASE PduMode
    BY <1>0, <1>1, <1>2, <1>3, <1>4, <2>1 DEF AirInv
  <2>2. CASE Processing
    <3>1. Chain(pduBatch, Differ)
      BY <2>2 DEF InLine
    <3> QED BY <1>1, <1>2, <1>3, <1>4, <3>1
  <2>3. CASE ~ PduMode /\ ~ Processing
    <3>1. pduBatch = << >>
      BY <1>0, <2>3 DEF TypeOK, SecOK, SecPc, PduMode, Processing, Placed,
                        QueuesPlaced
    <3>2. Chain(pduBatch, Differ)
      BY <3>1, EmptyChain
    <3> QED BY <1>1, <1>2, <1>3, <1>4, <3>2
  <2> QED BY <2>1, <2>2, <2>3
<1>7. ASSUME NEW i \in Consumer, NEW q, q = consumer[i].deferredQueue
      PROVE  Copies(q, p) \in {0, 1}
             /\ (Copies(q, p) = 0 <=> p \notin Range(q))
  <2>1. Chain(q, Differ) /\ q \in Seq(Pdu)
    BY <1>4, <1>7 DEF InLine
  <2> QED BY <1>1, <1>2, <1>3, <2>1
<1> QED BY <1>5, <1>6, <1>7

\* The same of what the observers got.
LEMMA DeliveredOnce ==
    ASSUME OrderInv, InLine(Differ), NEW p \in Pdu, NEW K,
           K = {k \in DOMAIN notified[p.mac] : notified[p.mac][k].no = p.no}
    PROVE  /\ Cardinality(K) \in {0, 1}
           /\ Cardinality(K) # 0 =>
                  \E x \in Range(notified[p.mac]) : x \in Got /\ x.no = p.no
<1> DEFINE q == notified[p.mac]
<1>1. p.mac \in Sender
  BY PduNo
<1>2. q \in Seq(Got) /\ Chain(q, Differ)
  BY <1>1 DEF InLine, OrderInv, TypeOK, ConsumerOK, Got
<1>3. DOMAIN q \subseteq Nat
  BY <1>2, LenProperties
<1>4. \A j, k \in K : <<q[j], q[k]>> \notin Differ
  BY DEF Differ
<1>5. K \subseteq DOMAIN q
  OBVIOUS
<1>6. \A k \in K : q[k] \in Range(q) /\ q[k].no = p.no
  BY DEF Range
<1>7. Range(q) \subseteq Got
  BY <1>2, RangeOfSeq
<1> HIDE DEF q
<1>8. Cardinality(K) \in {0, 1} /\ (Cardinality(K) = 0 <=> K = {})
  BY <1>2, <1>3, <1>4, <1>5, CountOnce
<1> QED BY <1>6, <1>7, <1>8 DEF q

\* And where it is, it is nowhere else.
LEMMA PlacesApart ==
    ASSUME OrderInv, InLine(Differ), NEW p \in Pdu,
           NEW inDeferred,
           inDeferred <=> \E i \in Consumer :
                              /\ consumer[i].mac_address = p.mac
                              /\ p \in Range(consumer[i].deferredQueue),
           NEW delivered,
           delivered => \E x \in Range(notified[p.mac]) :
                            x \in Got /\ x.no = p.no
    PROVE  /\ p \in Range(processingQueue) => p \notin Range(pduBatch)
           /\ p \in Range(processingQueue) \cup Range(pduBatch) =>
                  ~ inDeferred /\ ~ delivered
           /\ ~ (inDeferred /\ delivered)
<1>0. /\ TypeOK /\ Placed /\ AirInv /\ BehindInv
      /\ p.mac \in Sender /\ p.no \in Nat
  BY PduNo DEF OrderInv
<1>1. ~ (p.no < p.no) /\ \A x : x.no = p.no => /\ <<x, p>> \notin Differ
                                               /\ <<p, x>> \notin Differ
  BY <1>0 DEF Differ
<1>2. p \in Ahead => p \notin Passed
  BY <1>0, <1>1 DEF Passed, Behind
<1>3. p \in Range(processingQueue) => p \notin Range(pduBatch)
  <2>1. CASE PduMode
    BY <1>0, <1>1, <2>1 DEF AirInv, Before, Sooner
  <2>2. CASE ~ PduMode
    BY <1>0, <1>2, <2>2 DEF Ahead, BehindInv
  <2> QED BY <2>1, <2>2
<1>4. p \in Ahead => ~ inDeferred /\ ~ delivered
  <2>1. p \in Ahead => ~ inDeferred
    BY <1>0, <1>2 DEF BehindInv
  <2>2. p \in Ahead => ~ delivered
    BY <1>0, <1>1 DEF BehindInv, Behind
  <2> QED BY <2>1, <2>2
<1>5. ASSUME p \in Range(pduBatch), ~ PduMode
      PROVE  ~ inDeferred /\ ~ delivered
  <2>1. Processing
    BY <1>0, <1>5, EmptyChain DEF TypeOK, SecOK, SecPc, PduMode, Processing,
                                  Placed, QueuesPlaced
  <2>2. /\ consumerIndex \in Consumer
        /\ p.mac = consumer[consumerIndex].mac_address
    <3>1. pduBatch \in Seq(PduOf(consumer[consumerIndex].mac_address))
      BY <1>0, <2>1 DEF Placed, BatchPlaced, Processing
    <3>2. p \in PduOf(consumer[consumerIndex].mac_address)
      BY <1>5, <3>1, RangeOfSeq
    <3> QED BY <1>0, <2>1, <3>2 DEF PduOf, Processing, TypeOK, SecOK
  <2>3. \A i \in Consumer : consumer[i].mac_address = p.mac =>
                                 i = consumerIndex
    BY <1>0, <2>2, TrafficAssumption DEF Placed, QueuesPlaced
  <2>4. p \notin Range(consumer[consumerIndex].deferredQueue)
    BY <1>1, <1>5, <2>1 DEF InLine, Processing, Before
  <2>5. \A x \in Range(notified[p.mac]) : <<x, p>> \in Differ
    BY <1>0, <1>5, <2>1, <2>2 DEF InLine, Before
  <2> QED BY <1>1, <2>3, <2>4, <2>5
<1>6. ~ (inDeferred /\ delivered)
  <2>1. \A i \in Consumer : consumer[i].mac_address = p.mac =>
            \A x \in Range(notified[p.mac]) :
                \A y \in Range(consumer[i].deferredQueue) : <<x, y>> \in Differ
    BY <1>0 DEF InLine, Before
  <2> QED BY <1>1, <2>1
<1> QED BY <1>3, <1>4, <1>5, <1>6 DEF Ahead

LEMMA OnceFromLine == OrderInv /\ InLine(Differ) => NoPduTwice
<1> SUFFICES ASSUME OrderInv, InLine(Differ), NEW p \in Pdu
             PROVE  LET i == IndexForMac(p.mac)
                        deferred == IF i = -1 THEN 0
                                    ELSE Copies(consumer[i].deferredQueue, p)
                        delivered == Cardinality(
                            {k \in DOMAIN notified[p.mac] :
                                 notified[p.mac][k].no = p.no})
                    IN  Copies(processingQueue, p) + Copies(pduBatch, p)
                            + deferred + delivered <= 1
  BY DEF NoPduTwice
<1> DEFINE i == IndexForMac(p.mac)
           K == {k \in DOMAIN notified[p.mac] : notified[p.mac][k].no = p.no}
           a == Copies(processingQueue, p)
           b == Copies(pduBatch, p)
           d == IF i = -1 THEN 0 ELSE Copies(consumer[i].deferredQueue, p)
           e == Cardinality(K)
<1>1. /\ a \in {0, 1} /\ (a # 0 => p \in Range(processingQueue))
      /\ b \in {0, 1} /\ (b # 0 => p \in Range(pduBatch))
  BY PlacesOnce
<1>2. /\ d \in {0, 1}
      /\ d # 0 => \E j \in Consumer : /\ consumer[j].mac_address = p.mac
                                      /\ p \in Range(consumer[j].deferredQueue)
  BY PlacesOnce, MacIndex
<1>3. /\ e \in {0, 1}
      /\ e # 0 => \E x \in Range(notified[p.mac]) : x \in Got /\ x.no = p.no
  BY DeliveredOnce
<1> HIDE DEF a, b, d, e
<1>4. /\ ~ (a # 0 /\ b # 0) /\ ~ (a # 0 /\ d # 0) /\ ~ (a # 0 /\ e # 0)
      /\ ~ (b # 0 /\ d # 0) /\ ~ (b # 0 /\ e # 0) /\ ~ (d # 0 /\ e # 0)
  BY <1>1, <1>2, <1>3, PlacesApart
<1>5. a + b + d + e <= 1
  BY <1>1, <1>2, <1>3, <1>4
<1> QED BY <1>5 DEF a, b, d, e

\* No PDU is ever in two of the places it passes through, and none is
\* delivered twice.
THEOREM PdusOnce == Spec => []NoPduTwice
<1>1. Init => InLine(Differ)
  BY LineInit
<1> QED BY <1>1, OrderInit, OrderNext, DifferNext, OnceFromLine, PTL DEF Spec

----------------------------------------------------------------------------
\* The newest PDU a consumer has seen.

\* What waits at a consumer for its key or for its turn.
Waiting(i) == Range(consumer[i].deferredQueue)
                  \cup IF Processing /\ i = consumerIndex
                       THEN Range(pduBatch) ELSE {}

\* last_pdu_key_id is the identifier of a PDU of the sender that was broadcast
\* and is no older than any that waits.
NewestInv ==
    \A i \in Consumer :
        Waiting(i) # {} =>
            \E m \in PduOf(consumer[i].mac_address) :
                /\ consumer[i].last_pdu_key_id = KeyId(m)
                /\ m.no <= sent[m.mac]
                /\ \A q \in Waiting(i) : q.no <= m.no

LEMMA SentGrows ==
    ASSUME TypeOK, [Next]_vars
    PROVE  \A s \in Sender : /\ sent[s] \in Nat /\ sent'[s] \in Nat
                             /\ sent[s] <= sent'[s]
<1>1. sent \in [Sender -> Nat]
  BY DEF TypeOK, SenderOK
<1>2. CASE UNCHANGED sent
  BY <1>1, <1>2
<1>3. ASSUME NEW t \in Sender, sent' = [sent EXCEPT ![t] = @ + 1]
      PROVE  \A s \in Sender : /\ sent[s] \in Nat /\ sent'[s] \in Nat
                               /\ sent[s] <= sent'[s]
  BY <1>1, <1>3
<1> QED BY <1>2, <1>3
    DEF Next, Environment, EnqueuePduForProcessing, LosePdu,
        SecProcessingMain, SecWait, SecNewPdu, SecDeferred, SecCollect,
        SecCollected, SecAddConsumer, SecSkipPdu, SecDataPdu,
        SecKeyFragmentPdu, SecSendFragment, SecSendTimeout, SecBatchDone,
        SecNextConsumer, SecDeferredDone, SecTakeDeferred, SecTakenDeferred,
        SecRedoPdu, SecRedoDone, ReconstructorMain, RecWait, RecCollect,
        RecCollected, RecFragment, RecBatchDone, RecKeyComplete, RecCallback,
        RecAddKey, RecFindLru, RecRemoveLru, RecRequestDeferred, RecSignal,
        RecRemoveKey, vars, airVars

\* The PDU under way is the newest of its sender that a consumer saw.
Seen(j) == /\ SecDataPdu \/ SecKeyFragmentPdu
           /\ j = IndexForMac(Head(pduBatch).mac)

LEMMA LastStep ==
    ASSUME TypeOK, [Next]_vars, NEW j \in Consumer, ~ SecAddConsumer
    PROVE  IF Seen(j)
           THEN /\ Head(pduBatch) \in PduOf(consumer[j].mac_address)
                /\ consumer'[j].last_pdu_key_id = KeyId(Head(pduBatch))
           ELSE consumer'[j].last_pdu_key_id = consumer[j].last_pdu_key_id
<1>1. CASE SecDataPdu \/ SecKeyFragmentPdu
  <2> DEFINE p == Head(pduBatch)
             i == IndexForMac(p.mac)
  <2>1. OnlyConsumer(i) /\ PduStep(consumer[i], consumer'[i], p)
    BY <1>1, DataPduStep, KeyFragmentStep
  <2> QED BY <1>1, <2>1 DEF OnlyConsumer, PduStep, Seen, PduOf
<1>2. CASE SecTakeDeferred \/ SecRedoPdu \/ SecRedoDone
  <2>1. /\ OnlyConsumer(consumerIndex)
        /\ consumer'[consumerIndex].last_pdu_key_id =
               consumer[consumerIndex].last_pdu_key_id
    BY <1>2, TakeStep, RedoStep, RedoDoneStep
  <2>2. ~ Seen(j)
    BY <1>2 DEF SecTakeDeferred, SecRedoPdu, SecRedoDone, Seen, SecDataPdu,
                SecKeyFragmentPdu
  <2> QED BY <2>1, <2>2 DEF OnlyConsumer
<1>3. CASE /\ RecAddKey \/ RecRemoveLru \/ RecRequestDeferred
           /\ ~ SecDataPdu /\ ~ SecKeyFragmentPdu
  <2>1. RecStep(consumer[RecConsumer], consumer'[RecConsumer])
    BY <1>3, AddKeyStep, RemoveLruStep, RequestStep
  <2> QED BY <1>3, <2>1 DEF RecStep, OnlyConsumer, Seen
<1>4. CASE ~ ConsumerChanges
  BY <1>4, ConsumerFrame DEF Seen, ConsumerChanges
<1> QED BY <1>1, <1>2, <1>3, <1>4 DEF ConsumerChanges

\* What a step adds to the batch of a round over a deferred queue.
LEMMA ProcessingStep ==
    ASSUME TypeOK, Placed, [Next]_vars, Processing'
    PROVE  \/ Range(pduBatch') = {}
           \/ /\ Processing /\ consumerIndex' = consumerIndex
              /\ ~ SecDataPdu /\ ~ SecAddConsumer
              /\ \/ Range(pduBatch') \subseteq Range(pduBatch)
                 \/ /\ SecTakeDeferred
                    /\ Range(pduBatch') = Range(pduBatch) \cup
                           {Head(consumer[consumerIndex].deferredQueue)}
<1>0. pduBatch \in Seq(Pdu)
  BY DEF TypeOK, SecOK
<1>1. CASE SecTakeDeferred
  <2>1. /\ pduBatch' = Append(pduBatch,
                              Head(consumer[consumerIndex].deferredQueue))
        /\ Head(consumer[consumerIndex].deferredQueue) \in Pdu
    BY <1>1, TakeStep
  <2>2. Processing /\ consumerIndex' = consumerIndex
        /\ ~ SecDataPdu /\ ~ SecAddConsumer
    BY <1>1 DEF SecTakeDeferred, SecDataPdu, SecAddConsumer, Processing
  <2> QED BY <1>0, <1>1, <2>1, <2>2, AppendRange
<1>2. CASE SecNextConsumer
  BY <1>2, EmptyChain DEF SecNextConsumer, Placed, QueuesPlaced
<1>3. CASE ~ SecTakeDeferred /\ ~ SecNextConsumer
  <2>1. /\ Processing /\ consumerIndex' = consumerIndex
        /\ ~ SecDataPdu /\ ~ SecAddConsumer
        /\ \/ pduBatch' = pduBatch
           \/ pduBatch # << >> /\ pduBatch' = Tail(pduBatch)
    BY <1>3
       DEF Next, Environment, EnqueuePduForProcessing, LosePdu,
           SecProcessingMain, SecWait, SecNewPdu, SecDeferred, SecCollect,
           SecCollected, SecAddConsumer, SecSkipPdu, SecDataPdu,
           SecKeyFragmentPdu, SecSendFragment, SecSendTimeout,
           SecBatchDone, SecDeferredDone, SecTakenDeferred, SecRedoPdu,
           SecRedoDone, ReconstructorMain, RecWait, RecCollect,
           RecCollected, RecFragment, RecBatchDone, RecKeyComplete,
           RecCallback, RecAddKey, RecFindLru, RecRemoveLru,
           RecRequestDeferred, RecSignal, RecRemoveKey, vars, secVars,
           Processing
  <2> QED BY <1>0, <2>1, TailRange
<1> QED BY <1>1, <1>2, <1>3

\* A step adds to what waits at a consumer the PDU under way, if any.
LEMMA WaitingStep ==
    ASSUME OrderInv, [Next]_vars, NEW j \in Consumer, Waiting(j)' # {}
    PROVE  /\ ~ SecAddConsumer \/ consumer'[j].mac_address =
                                      consumer[j].mac_address
           /\ \/ Waiting(j)' \subseteq Waiting(j)
              \/ Seen(j) /\ Waiting(j)' \subseteq Waiting(j) \cup {Head(pduBatch)}
<1> DEFINE c == consumer[j]
           d == consumer'[j]
           p == Head(pduBatch)
<1>0. TypeOK /\ Placed
  BY DEF OrderInv
<1>1. \A x : x \in Waiting(j)' =>
          \/ x \in Range(d.deferredQueue)
          \/ Processing' /\ j = consumerIndex' /\ x \in Range(pduBatch')
  BY DEF Waiting
<1>2. ASSUME Processing', j = consumerIndex', NEW x \in Range(pduBatch')
      PROVE  x \in Waiting(j) /\ ~ SecDataPdu /\ ~ SecAddConsumer
  <2>1. /\ Processing /\ consumerIndex' = consumerIndex
        /\ ~ SecDataPdu /\ ~ SecAddConsumer
        /\ \/ x \in Range(pduBatch)
           \/ SecTakeDeferred /\ x = Head(consumer[consumerIndex].deferredQueue)
    BY <1>0, <1>2, ProcessingStep
  <2>2. SecTakeDeferred => Head(c.deferredQueue) \in Range(c.deferredQueue)
    <3>1. CASE SecTakeDeferred
      <4>1. c.deferredQueue \in Seq(Pdu) /\ c.deferredQueue # << >>
        BY <1>0, <1>2, <2>1, <3>1, TakeStep
      <4> QED BY <4>1, TailRange
    <3> QED BY <3>1
  <2> QED BY <1>2, <2>1, <2>2 DEF Waiting
<1>3. ASSUME NEW x \in Range(d.deferredQueue)
      PROVE  /\ x \in Waiting(j) \/ (Seen(j) /\ x = p)
             /\ SecAddConsumer => d.deferredQueue = c.deferredQueue
  <2>1. CASE d.deferredQueue = c.deferredQueue
    BY <1>3, <2>1 DEF Waiting
  <2>2. CASE d.deferredQueue = << >>
    BY <1>3, <2>2, EmptyChain
  <2>3. CASE Range(d.deferredQueue) \subseteq Range(c.deferredQueue)
             /\ ~ SecAddConsumer
    BY <1>3, <2>3 DEF Waiting
  <2>4. CASE /\ SecDataPdu /\ j = IndexForMac(p.mac)
             /\ Range(d.deferredQueue) = Range(c.deferredQueue) \cup {p}
    <3>1. ~ SecAddConsumer
      <4>1. SecDataPdu => IndexForMac(Head(pduBatch).mac) # -1
        BY DEF SecDataPdu
      <4>2. SecAddConsumer => IndexForMac(Head(pduBatch).mac) = -1
        BY DEF SecAddConsumer
      <4> QED BY <2>4, <4>1, <4>2
    <3> QED BY <1>3, <2>4, <3>1 DEF Waiting, Seen
  <2>5. CASE /\ SecRedoPdu /\ j = consumerIndex
             /\ Range(d.deferredQueue) = Range(c.deferredQueue) \cup {p}
    <3>1. pduBatch \in Seq(Pdu) /\ pduBatch # << >> /\ Processing
          /\ ~ SecAddConsumer
      BY <1>0, <2>5
         DEF TypeOK, SecOK, SecRedoPdu, Processing, SecAddConsumer
    <3>2. p \in Range(pduBatch)
      BY <3>1, TailRange
    <3> QED BY <1>3, <2>5, <3>1, <3>2 DEF Waiting
  <2>6. SecTakeDeferred => ~ SecAddConsumer
    BY DEF SecTakeDeferred, SecAddConsumer
  <2> QED BY <1>0, <2>1, <2>2, <2>3, <2>4, <2>5, <2>6, DeferredRange
<1>4. ~ SecAddConsumer \/ d.mac_address = c.mac_address
  <2>1. CASE SecAddConsumer
    <3>1. PICK x \in Range(d.deferredQueue) : TRUE
      BY <1>1, <1>2, <2>1
    <3>2. d.deferredQueue = c.deferredQueue /\ d.deferredQueue # << >>
      BY <1>3, <2>1, <3>1, EmptyChain
    <3> QED BY <1>0, <2>1, <3>2, AddConsumerStep DEF OnlyConsumer
  <2> QED BY <2>1
<1>5. Waiting(j)' \subseteq Waiting(j) \cup (IF Seen(j) THEN {p} ELSE {})
  BY <1>1, <1>2, <1>3
<1> QED BY <1>4, <1>5

LEMMA NewestNext ==
    ASSUME OrderInv, NewestInv, [Next]_vars
    PROVE  NewestInv'
<1> SUFFICES ASSUME NEW j \in Consumer, Waiting(j)' # {}
             PROVE  \E m \in PduOf(consumer'[j].mac_address) :
                        /\ consumer'[j].last_pdu_key_id = KeyId(m)
                        /\ m.no <= sent'[m.mac]
                        /\ \A q \in Waiting(j)' : q.no <= m.no
  BY DEF NewestInv, PduOf, Pdu, KeyId, Content
<1>0. TypeOK /\ Placed /\ BehindInv
  BY DEF OrderInv
<1>1. consumer'[j].mac_address = consumer[j].mac_address
  BY <1>0, WaitingStep, MacStep
<1>2. CASE /\ Seen(j)
           /\ Waiting(j)' \subseteq Waiting(j) \cup {Head(pduBatch)}
  <2>1. PICK p : p = Head(pduBatch)
    OBVIOUS
  <2>2. /\ p \in PduOf(consumer[j].mac_address)
        /\ consumer'[j].last_pdu_key_id = KeyId(p)
    <3>1. ~ SecAddConsumer
      <4>1. SecDataPdu \/ SecKeyFragmentPdu =>
                IndexForMac(Head(pduBatch).mac) # -1
        BY DEF SecDataPdu, SecKeyFragmentPdu
      <4>2. SecAddConsumer => IndexForMac(Head(pduBatch).mac) = -1
        BY DEF SecAddConsumer
      <4> QED BY <1>2, <4>1, <4>2 DEF Seen
    <3> QED BY <1>0, <1>2, <2>1, <3>1, LastStep
  <2>3. p \in Ahead /\ ~ Processing
    <3>1. /\ secPc = "pdu" /\ pduBatch # << >> /\ pduBatch \in Seq(Pdu)
      BY <1>0, <1>2 DEF Seen, SecDataPdu, SecKeyFragmentPdu, TypeOK, SecOK
    <3> QED BY <2>1, <3>1, TailRange DEF Ahead, PduMode, Processing
  <2>4. ASSUME NEW q \in Waiting(j) PROVE q.no <= p.no
    <3>1. q \in Range(consumer[j].deferredQueue)
      BY <2>3, <2>4 DEF Waiting
    <3>2. q \in Passed
      BY <1>0, <3>1 DEF BehindInv
    <3>3. q \in PduOf(consumer[j].mac_address)
      BY <1>0, <3>1, RangeOfSeq DEF Placed, QueuesPlaced
    <3>4. q.no < p.no /\ q \in Pdu
      BY <2>2, <2>3, <3>2, <3>3 DEF Passed, Behind, PduOf
    <3> QED BY <2>2, <3>4, PduNo DEF PduOf
  <2>5. p.no <= p.no /\ p.no <= sent'[p.mac]
    <3>1. p.no <= sent[p.mac] /\ p.no \in Nat /\ p.mac \in Sender
      BY <2>2, <2>3, PduNo DEF PduOf, OrderInv, AirInv
    <3> QED BY <1>0, <3>1, SentGrows
  <2> QED BY <1>1, <1>2, <2>1, <2>2, <2>4, <2>5
<1>3. CASE Waiting(j)' \subseteq Waiting(j) /\ ~ Seen(j)
  <2>1. consumer'[j].last_pdu_key_id = consumer[j].last_pdu_key_id
    <3>1. CASE ~ SecAddConsumer
      BY <1>0, <1>3, <3>1, LastStep
    <3>2. CASE SecAddConsumer
      <4>1. consumer[j].mac_address # Head(pduBatch).mac
            /\ \/ j # FreeConsumer
               \/ consumer'[j].mac_address = Head(pduBatch).mac
        BY <1>0, <3>2, AddConsumerStep
      <4>2. consumer'[j] = consumer[j]
        BY <1>0, <1>1, <3>2, <4>1, AddConsumerStep DEF OnlyConsumer
      <4> QED BY <4>2
    <3> QED BY <3>1, <3>2
  <2>2. PICK m \in PduOf(consumer[j].mac_address) :
            /\ consumer[j].last_pdu_key_id = KeyId(m)
            /\ m.no <= sent[m.mac]
            /\ \A q \in Waiting(j) : q.no <= m.no
    BY <1>3 DEF NewestInv
  <2>3. m.no <= sent'[m.mac]
    BY <1>0, <2>2, SentGrows, PduNo DEF PduOf
  <2> QED BY <1>1, <1>3, <2>1, <2>2, <2>3
<1> QED BY <1>0, <1>2, <1>3, WaitingStep

----------------------------------------------------------------------------
\* The order of delivery.

\* A sender that came back to an identifier has done so for good.
LEMMA ReturnStays == ASSUME TypeOK, [Next]_vars, IdReturned PROVE IdReturned'
<1>1. PICK s \in Sender : \E i, j, k \in 1 .. sent[s] :
          /\ i < j /\ j < k
          /\ SessionKeyId[Traffic[s][i].session] =
                 SessionKeyId[Traffic[s][k].session]
          /\ SessionKeyId[Traffic[s][j].session] #
                 SessionKeyId[Traffic[s][i].session]
  BY DEF IdReturned
<1>2. 1 .. sent[s] \subseteq 1 .. sent'[s]
  BY SentGrows
<1> QED BY <1>1, <1>2 DEF IdReturned

\* When a PDU of a round waits again, the key of none that follows is there.
Keyless ==
    secPc = "redo" /\ consumer[consumerIndex].deferredQueue # << >> =>
        \A q \in Range(pduBatch) : ~ HasKeyFor(consumer[consumerIndex], q)

\* Until a deferred queue outgrows a batch or an identifier comes back the
\* line is in the order of the broadcasts.
InOrderInv == overflowed \/ IdReturned \/ (InLine(Earlier) /\ Keyless)

\* The PDUs behind one of the newest session are of that session too.
LEMMA RestOfSession ==
    ASSUME ~ IdReturned, OrderInv, NewestInv, InLine(Earlier),
           secPc = "redo", pduBatch # << >>, NEW p, p = Head(pduBatch),
           KeyId(p) = consumer[consumerIndex].last_pdu_key_id,
           NEW q \in Range(Tail(pduBatch))
    PROVE  KeyId(q) = KeyId(p)
<1>1. PICK i : i = consumerIndex
  OBVIOUS
<1>2. /\ i \in Consumer /\ Processing
      /\ pduBatch \in Seq(PduOf(consumer[i].mac_address))
  BY <1>1 DEF OrderInv, TypeOK, SecOK, Placed, BatchPlaced, Processing
<1>3. /\ Range(pduBatch) = {p} \cup Range(Tail(pduBatch))
      /\ Before({p}, Range(Tail(pduBatch)), Earlier)
      /\ Range(pduBatch) \subseteq PduOf(consumer[i].mac_address)
  BY <1>2, TailRange, TailChain, RangeOfSeq DEF InLine
<1>4. /\ q \in PduOf(consumer[i].mac_address)
      /\ p \in PduOf(consumer[i].mac_address)
      /\ q \in Waiting(i)
      /\ p.no < q.no
  BY <1>1, <1>2, <1>3 DEF Waiting, Before, Earlier
<1>5. PICK m \in PduOf(consumer[i].mac_address) :
          /\ consumer[i].last_pdu_key_id = KeyId(m)
          /\ m.no <= sent[m.mac] /\ q.no <= m.no
  BY <1>2, <1>4 DEF NewestInv
<1>6. PICK s \in Sender : s = p.mac /\ s = q.mac /\ s = m.mac
  BY <1>4, <1>5, PduNo DEF PduOf
<1>7. /\ p.no \in 1 .. sent[s] /\ q.no \in 1 .. sent[s]
      /\ m.no \in 1 .. sent[s]
  <2>1. /\ p.no \in Nat \ {0} /\ q.no \in Nat \ {0} /\ m.no \in Nat \ {0}
    BY <1>4, <1>5 DEF PduOf, Pdu
  <2>2. sent[s] \in Nat
    BY DEF OrderInv, TypeOK, SenderOK
  <2> QED BY <1>4, <1>5, <1>6, <2>1, <2>2
<1> DEFINE id(n) == SessionKeyId[Traffic[s][n].session]
<1>8. KeyId(p) = id(p.no) /\ KeyId(q) = id(q.no) /\ KeyId(m) = id(m.no)
  BY <1>6 DEF KeyId, Content
<1>9. id(p.no) = id(m.no)
  BY <1>1, <1>5, <1>8
<1> HIDE DEF id
<1>10. ASSUME id(q.no) # id(p.no) PROVE IdReturned
  <2>1. q.no # m.no
    BY <1>9, <1>10
  <2>2. q.no < m.no
    BY <1>5, <1>7, <2>1
  <2> QED BY <1>4, <1>7, <1>9, <1>10, <2>2 DEF IdReturned, id
<1> QED BY <1>8, <1>10

LEMMA KeylessNext ==
    ASSUME ~ IdReturned, OrderInv, NewestInv, InLine(Earlier),
           Keyless, [Next]_vars, ~ overflowed'
    PROVE  Keyless'
<1> SUFFICES ASSUME secPc' = "redo",
                    consumer'[consumerIndex'].deferredQueue # << >>
             PROVE  \A q \in Range(pduBatch') :
                        ~ HasKeyFor(consumer'[consumerIndex'], q)
  BY DEF Keyless, HasKeyFor, KeyId, Content
<1>0. TypeOK /\ Placed
  BY DEF OrderInv
<1>1. CASE SecTakenDeferred
  BY <1>1 DEF SecTakenDeferred
<1>2. CASE SecRedoPdu
  <2>1. PICK p : p = Head(pduBatch)
    OBVIOUS
  <2>2. PICK i : i = consumerIndex
    OBVIOUS
  <2> DEFINE c == consumer[i]
             d == consumer'[i]
  <2>3. /\ secPc = "redo" /\ consumerIndex' = consumerIndex
        /\ p \in Pdu /\ pduBatch # << >> /\ pduBatch' = Tail(pduBatch)
        /\ \/ HasKeyFor(c, p) /\ d.deferredQueue = c.deferredQueue
           \/ /\ ~ HasKeyFor(c, p) /\ d.key_cache = c.key_cache
              /\ d.deferredQueue = c.deferredQueue
           \/ /\ ~ HasKeyFor(c, p) /\ d.key_cache = c.key_cache
              /\ c.last_pdu_key_id = KeyId(p)
    BY <1>0, <1>2, <2>1, <2>2, RedoStep DEF SecRedoPdu
  <2>4. Range(pduBatch) = {p} \cup Range(pduBatch')
    <3>1. pduBatch \in Seq(Pdu)
      BY <1>0 DEF TypeOK, SecOK
    <3> QED BY <2>1, <2>3, <3>1, TailRange
  <2>5. CASE d.deferredQueue = c.deferredQueue
    BY <2>2, <2>3, <2>4, <2>5 DEF Keyless, HasKeyFor
  <2>6. CASE /\ ~ HasKeyFor(c, p) /\ d.key_cache = c.key_cache
             /\ c.last_pdu_key_id = KeyId(p)
    <3>1. ASSUME NEW q \in Range(pduBatch') PROVE KeyId(q) = KeyId(p)
      BY <2>1, <2>2, <2>3, <2>6, <3>1, RestOfSession
    <3> QED BY <2>2, <2>3, <2>6, <3>1 DEF HasKeyFor
  <2> QED BY <2>3, <2>5, <2>6
<1>3. CASE ~ SecTakenDeferred /\ ~ SecRedoPdu
  <2>1. /\ secPc = "redo" /\ ~ SecBlocked
        /\ UNCHANGED <<consumerIndex, pduBatch>>
        /\ ~ SecProcessingMain
    BY <1>3
       DEF Next, Environment, EnqueuePduForProcessing, LosePdu,
           SecProcessingMain, SecWait, SecNewPdu, SecDeferred, SecCollect,
           SecCollected, SecAddConsumer, SecSkipPdu, SecDataPdu,
           SecKeyFragmentPdu, SecSendFragment, SecSendTimeout,
           SecBatchDone, SecNextConsumer, SecDeferredDone, SecTakeDeferred,
           SecRedoDone, ReconstructorMain, RecWait, RecCollect,
           RecCollected, RecFragment, RecBatchDone, RecKeyComplete,
           RecCallback, RecAddKey, RecFindLru, RecRemoveLru,
           RecRequestDeferred, RecSignal, RecRemoveKey, vars, secVars,
           SecBlocked
  <2>2. consumer' = consumer
    BY <2>1 DEF Next, Environment, EnqueuePduForProcessing, LosePdu,
                ReconstructorMain, vars, sharedVars, outVars
  <2> QED BY <2>1, <2>2 DEF Keyless
<1> QED BY <1>1, <1>2, <1>3

LEMMA InOrderNext ==
    ASSUME OrderInv, NewestInv, InOrderInv, [Next]_vars
    PROVE  InOrderInv'
<1> SUFFICES ASSUME ~ overflowed', ~ IdReturned'
             PROVE  InLine(Earlier)' /\ Keyless'
  BY DEF InOrderInv
<1>0. ~ IdReturned
  BY ReturnStays DEF OrderInv
<1>1. ~ overflowed
  <2>1. CASE SecTakenDeferred
    BY <2>1 DEF SecTakenDeferred
  <2>2. CASE ~ SecTakenDeferred
    BY <2>2
       DEF Next, Environment, EnqueuePduForProcessing, LosePdu,
           SecProcessingMain, SecWait, SecNewPdu, SecDeferred, SecCollect,
           SecCollected, SecAddConsumer, SecSkipPdu, SecDataPdu,
           SecKeyFragmentPdu, SecSendFragment, SecSendTimeout,
           SecBatchDone, SecNextConsumer, SecDeferredDone, SecTakeDeferred,
           SecRedoPdu, SecRedoDone, ReconstructorMain, RecWait, RecCollect,
           RecCollected, RecFragment, RecBatchDone, RecKeyComplete,
           RecCallback, RecAddKey, RecFindLru, RecRemoveLru,
           RecRequestDeferred, RecSignal, RecRemoveKey, vars, sharedVars,
           outVars
  <2> QED BY <2>1, <2>2
<1>2. InLine(Earlier) /\ Keyless /\ Earlier \in {Differ, Earlier}
  BY <1>0, <1>1 DEF InOrderInv
<1>3. Keyless'
  BY <1>0, <1>2, KeylessNext
<1>4. CASE SecDataPdu
  BY <1>2, <1>3, <1>4, LineData
<1>5. CASE SecTakeDeferred
  BY <1>2, <1>3, <1>5, LineTake
<1>6. CASE SecTakenDeferred
  <2>1. consumer[consumerIndex].deferredQueue = << >>
    BY <1>6 DEF SecTakenDeferred
  <2> QED BY <1>2, <1>3, <1>6, <2>1, LineTaken
<1>7. CASE SecRedoPdu
  <2>1. \/ ~ HasKeyFor(consumer[consumerIndex], Head(pduBatch))
        \/ consumer[consumerIndex].deferredQueue = << >>
    <3>1. /\ secPc = "redo" /\ pduBatch # << >> /\ pduBatch \in Seq(Pdu)
      BY <1>7 DEF SecRedoPdu, OrderInv, TypeOK, SecOK
    <3>2. Head(pduBatch) \in Range(pduBatch)
      BY <3>1, TailRange
    <3> QED BY <1>2, <3>1, <3>2 DEF Keyless
  <2> QED BY <1>2, <1>3, <1>7, <2>1, LineRedo
<1>8. CASE ~ SecDataPdu /\ ~ SecTakeDeferred /\ ~ SecTakenDeferred
           /\ ~ SecRedoPdu
  BY <1>2, <1>3, <1>8, LineKept
<1> QED BY <1>3, <1>4, <1>5, <1>6, <1>7, <1>8

LEMMA InOrderFromLine == TypeOK /\ InOrderInv => InOrder
<1> SUFFICES ASSUME TypeOK, NEW s \in Sender, InLine(Earlier)
             PROVE  \A j, k \in DOMAIN notified[s] :
                        j < k => notified[s][j].no < notified[s][k].no
  BY DEF InOrder, InOrderInv
<1> QED BY DEF InLine, Chain, Earlier

\* The observers get the PDUs of a sender in the order it broadcast them, as
\* long as no deferred queue outgrew a batch and no sender came back to a
\* session identifier after another: until then last_pdu_key_id tells which
\* PDUs without a key may wait on (sec_pdu_processing.c:186, 309).
THEOREM DeliveredInOrder == Spec => []InOrder
<1>1. Init => NewestInv /\ InOrderInv
  <2> SUFFICES ASSUME Init PROVE NewestInv /\ InOrderInv
    OBVIOUS
  <2>1. /\ pduBatch = << >> /\ secPc = "wait"
        /\ \A i \in Consumer : consumer[i].deferredQueue = << >>
    BY DEF Init, ZeroConsumer
  <2>2. NewestInv
    BY <2>1, EmptyChain DEF NewestInv, Waiting
  <2>3. Keyless /\ InLine(Earlier)
    BY <2>1, LineInit DEF Keyless
  <2> QED BY <2>2, <2>3 DEF InOrderInv
<1>2. OrderInv /\ NewestInv /\ InOrderInv /\ [Next]_vars =>
          OrderInv' /\ NewestInv' /\ InOrderInv'
  BY OrderNext, NewestNext, InOrderNext
<1>3. OrderInv /\ InOrderInv => InOrder
  BY InOrderFromLine DEF OrderInv
<1> QED BY <1>1, <1>2, <1>3, OrderInit, PTL DEF Spec

----------------------------------------------------------------------------
\* Requests for deferred PDUs whose key is there.

\* The queue of consumer i is marked for processing, or about to be.
Asked(i) == \/ consumer[i].request_pending
            \/ recPc = "pending" /\ RecConsumer = i

\* The sessions whose own key consumer c caches under their identifier.
Cached(c) ==
    {k \in Session : \E i \in Slot :
        /\ c.key_cache.map[i].key_id = Id8(SessionKeyId[k])
        /\ c.key_cache.map[i].key_id # FREE
        /\ c.key_cache.map[i].key = FullKey(k)}

\* A PDU of consumer c's sender, of session k.
Carries(c, m, k) == m \in PduOf(c.mac_address) /\ Content(m).session = k

\* The key at hand has the fragment at hand.
HandInv == recPc \in RecInCallback =>
               reconstructedKey[Content(RecPdu).fragment] =
                   Content(RecPdu).session

\* The sender has broadcast PDUs of every session its cache has the key of;
\* and if no request stands, none that waits is of such a session, or older.
AskInv ==
    \A i \in Consumer :
        LET c == consumer[i]
        IN  /\ \A k \in Cached(c) : \E m \in Passed : Carries(c, m, k)
            /\ ~ Asked(i) =>
                   \A q \in Range(c.deferredQueue) :
                       /\ Content(q).session \notin Cached(c)
                       /\ \A k \in Cached(c) :
                              \E m \in Pdu : Carries(c, m, k) /\ m.no < q.no

LEMMA HandNext ==
    ASSUME TypeOK, OneComplete, HandInv, [Next]_vars PROVE HandInv'
<1>1. CASE RecFragment
  <2> DEFINE f == Content(RecPdu).fragment
             v == Content(RecPdu).session
             e == KeyIndex(Taken, RecMac, RecId)
             k == AddFragment(Taken, RecMac, RecId, f, v)
  <2>1. CASE recPc' = "callback" /\ UNCHANGED keyFragmentBatch
    <3>1. /\ IsKeyAvailable(keyCollection', RecMac, RecId)
          /\ reconstructedKey' = ReconstructKey(keyCollection', RecMac, RecId)
          /\ keyCollection' = IF Stores THEN k ELSE Taken
          /\ f \in Fragment
      BY <1>1, <2>1, FragmentStep DEF RecInCallback
    <3>2. /\ Taken \in Collection(Sender, Session)
          /\ \A x \in Entry : Incomplete(Taken[x])
      BY <1>1, TakenIncomplete
    <3>3. Stores /\ e \in Entry
      <4>1. ~ IsKeyAvailable(Taken, RecMac, RecId)
        <5>1. NUM_FRAGMENTS \in Nat
          BY CollectionAssumption
        <5>2. \A x \in Entry : Taken[x].no_collected_key_fragments # NUM_FRAGMENTS
          BY <3>2, <5>1 DEF Incomplete, Collection, EntryType
        <5> QED BY <5>2, KeyIndexHit DEF IsKeyAvailable
      <4>2. Stores
        BY <3>1, <4>1
      <4>3. e \in Entry \cup {-1}
        BY KeyIndexType
      <4>4. ASSUME e = -1 PROVE FALSE
        <5>1. k = Taken
          BY <4>4 DEF AddFragment
        <5> QED BY <3>1, <4>1, <4>2, <5>1
      <4> QED BY <4>2, <4>3, <4>4
    <3>4. KeyIndex(k, RecMac, RecId) = e
      BY <3>1, <3>2, AddFragmentIndex
    <3>5. k[e].key_fragments[f] = v
      <4> DEFINE y == [Taken[e] EXCEPT !.key_fragments[f] = v,
                                       !.decrypted_key_fragments[f] = TRUE,
                                       !.no_collected_key_fragments = @ + 1]
      <4>1. y.key_fragments[f] = v
        BY <3>1, <3>2, <3>3 DEF Collection, EntryType
      <4>2. k = [Taken EXCEPT ![e] = y]
        BY <3>3 DEF AddFragment, Entry
      <4> HIDE DEF y, e
      <4> QED BY <3>2, <3>3, <4>1, <4>2 DEF Collection
    <3>6. reconstructedKey'[f] = v
      BY <3>1, <3>3, <3>4, <3>5 DEF ReconstructKey
    <3> QED BY <2>1, <3>6 DEF HandInv, RecPdu, Content
  <2>2. CASE recPc' = "fragment"
    BY <2>2 DEF HandInv, RecInCallback
  <2> QED BY <1>1, <2>1, <2>2, FragmentStep
<1>2. CASE ~ RecFragment
  <2>1. recPc' \in RecInCallback =>
            recPc \in RecInCallback /\ UNCHANGED <<keyFragmentBatch,
                                                   reconstructedKey>>
    BY <1>2
       DEF Next, Environment, EnqueuePduForProcessing, LosePdu,
           SecProcessingMain, SecWait, SecNewPdu, SecDeferred, SecCollect,
           SecCollected, SecAddConsumer, SecSkipPdu, SecDataPdu,
           SecKeyFragmentPdu, SecSendFragment, SecSendTimeout, SecBatchDone,
           SecNextConsumer, SecDeferredDone, SecTakeDeferred,
           SecTakenDeferred, SecRedoPdu, SecRedoDone, ReconstructorMain,
           RecWait, RecCollect, RecCollected, RecBatchDone, RecKeyComplete,
           RecCallback, RecAddKey, RecFindLru, RecRemoveLru,
           RecRequestDeferred, RecSignal, RecRemoveKey, vars, recVars,
           RecInCallback
  <2> QED BY <2>1 DEF HandInv, RecPdu, Content
<1> QED BY <1>1, <1>2

LEMMA CachedKey ==
    ASSUME TypeOK, OwnShortcuts, NEW i \in Consumer, NEW p,
           Id8(KeyId(p)) # FREE
    PROVE  HasKeyFor(consumer[i], p) <=>
               Id8(KeyId(p)) \in CachedIds(consumer[i].key_cache)
BY CacheTypes, LookupFinds DEF OwnShortcuts, HasKeyFor

\* A session's key comes into a cache with its last fragment only.
LEMMA CachedStep ==
    ASSUME OrderInv, OwnShortcuts, HandInv, [Next]_vars, NEW j \in Consumer,
           NEW k \in Cached(consumer'[j])
    PROVE  \/ /\ k \in Cached(consumer[j])
              /\ consumer'[j].mac_address = consumer[j].mac_address
           \/ /\ k = Content(RecPdu).session
              /\ consumer'[j].mac_address = RecMac
              /\ recPc \in RecInCallback /\ recPc' = "pending"
              /\ UNCHANGED keyFragmentBatch
<1> DEFINE d == consumer'[j]
<1>1. CacheStep(consumer[j], d)
  BY CacheNext DEF OrderInv, OwnShortcuts
<1>2. PICK i \in Slot : /\ d.key_cache.map[i].key_id = Id8(SessionKeyId[k])
                        /\ d.key_cache.map[i].key_id # FREE
                        /\ d.key_cache.map[i].key = FullKey(k)
  BY DEF Cached
<1>3. SlotStep(consumer[j], d, i)
  BY <1>1 DEF CacheStep
<1>4. d.key_cache.map[i] # ZeroSlot
  BY <1>2 DEF ZeroSlot
<1>5. k \in Session
  BY DEF Cached
<1>6. CASE /\ d.key_cache.map[i] = consumer[j].key_cache.map[i]
           /\ d.mac_address = consumer[j].mac_address
  BY <1>2, <1>5, <1>6 DEF Cached
<1>7. CASE /\ d.key_cache.map[i] = [key_id |-> RecId, key |-> reconstructedKey]
           /\ recPc \in RecInCallback
  <2>1. reconstructedKey = FullKey(k)
    <3>1. d.key_cache.map[i].key = reconstructedKey
      BY <1>7
    <3> QED BY <1>2, <3>1
  <2>2. RecPdu \in Pdu
    BY <1>7, HeadTailProperties DEF OrderInv, TypeOK, RecOK, RecPdu
  <2>3. Content(RecPdu).fragment \in Fragment
    BY <2>2, PduType DEF PduContent
  <2>4. k = Content(RecPdu).session
    BY <1>7, <2>1, <2>3 DEF HandInv, FullKey
  <2> QED BY <1>3, <1>4, <1>6, <1>7, <2>4 DEF SlotStep
<1> QED BY <1>3, <1>4, <1>6, <1>7 DEF SlotStep

\* A session is one stretch of its sender's PDUs.
LEMMA SessionStretch ==
    ASSUME NEW m \in Pdu, NEW q \in Pdu, NEW p \in Pdu,
           m.mac = q.mac, q.mac = p.mac, m.no <= q.no, q.no <= p.no,
           Content(m).session = Content(p).session
    PROVE  Content(q).session = Content(p).session
<1>1. PICK s \in Sender : s = m.mac /\ s = q.mac /\ s = p.mac
  BY PduNo
<1>2. m.no \in DOMAIN Traffic[s] /\ q.no \in DOMAIN Traffic[s]
      /\ p.no \in DOMAIN Traffic[s]
  <2>1. \A x \in Pdu : x.no \in 1 .. Len(Traffic[x.mac])
    BY DEF Pdu
  <2>2. Traffic[s] \in Seq(PduContent)
    BY TrafficAssumption
  <2> QED BY <1>1, <2>1, <2>2
<1> QED BY <1>1, <1>2, TrafficAssumption DEF SessionsAreStretches, Content

\* The consumer of the fragment at hand is its sender's, and stays so.
LEMMA RecConsumerIs ==
    ASSUME OrderInv, [Next]_vars, recPc \in RecInCallback, NEW j \in Consumer,
           UNCHANGED keyFragmentBatch
    PROVE  /\ consumer'[j].mac_address = RecMac => RecConsumer' = j
           /\ RecConsumer = j => consumer[j].mac_address = RecMac
<1>1. RecMac \in Sender /\ RecMac' = RecMac
  <2>1. Head(keyFragmentBatch) \in Pdu
    BY HeadTailProperties DEF OrderInv, TypeOK, RecOK
  <2> QED BY <2>1, PduNo DEF RecMac
<1>2. RecMac # NoAddress
  BY <1>1, TrafficAssumption
<1>3. Placed'
  BY OrderNext DEF OrderInv
<1>4. RecConsumer = j => consumer[j].mac_address = RecMac
  BY MacIndex DEF RecConsumer, Consumer
<1>5. ASSUME consumer'[j].mac_address = RecMac PROVE RecConsumer' = j
  <2>1. PICK mac : mac = RecMac
    OBVIOUS
  <2>2. RecConsumer' = FirstOf({i \in Consumer : consumer'[i].mac_address = mac})
    BY <1>1, <2>1 DEF RecConsumer, IndexForMac
  <2>3. {i \in Consumer : consumer'[i].mac_address = mac} = {j}
    BY <1>2, <1>3, <1>5, <2>1 DEF Placed, QueuesPlaced
  <2>4. FirstOf({j}) = j
    <3>1. {j} \in SUBSET (0 .. MAX_BLE_CONSUMERS - 1)
      BY DEF Consumer
    <3>2. FirstOf({j}) \in {j} \cup {-1} /\ (FirstOf({j}) = -1 <=> {j} = {})
      BY <3>1, FirstOfArray, QueueAssumption
    <3> QED BY <3>2
  <2> QED BY <2>2, <2>3, <2>4
<1> QED BY <1>4, <1>5

\* A request ends when nothing waits any more.
LEMMA AskedStep ==
    ASSUME OrderInv, [Next]_vars, NEW j \in Consumer, Asked(j), ~ Asked(j)'
    PROVE  consumer'[j].deferredQueue = << >>
<1> DEFINE c == consumer[j]
           d == consumer'[j]
<1>0. /\ TypeOK /\ QueueCounts
      /\ \A i : OnlyConsumer(i) /\ j # i => d = c
      /\ c.deferredQueue \in Seq(Pdu)
  BY CacheTypes DEF OrderInv, OnlyConsumer, ConsumerType
<1>1. CASE SecAddConsumer /\ d.deferredQueue # << >>
  <2>1. d = c /\ ~ c.request_pending
    BY <1>0, <1>1, AddConsumerStep DEF Asked
  <2>2. recPc = "pending" /\ RecConsumer = j /\ recPc' = recPc
        /\ keyFragmentBatch' = keyFragmentBatch
    BY <1>1, <2>1 DEF Asked, SecAddConsumer, recVars
  <2>3. RecConsumer' = j
    BY <2>1, <2>2, RecConsumerIs DEF RecInCallback
  <2> QED BY <2>2, <2>3 DEF Asked
<1>2. CASE SecRedoDone /\ j = consumerIndex /\ c.deferred_queue_count = 0
  <2>1. d.deferredQueue = c.deferredQueue /\ Len(c.deferredQueue) = 0
    BY <1>0, <1>2, RedoDoneStep DEF SameQueue, QueueCounts
  <2> QED BY <1>0, <2>1, EmptySeq
<1>3. ASSUME ~ SecAddConsumer,
             ~ (SecRedoDone /\ j = consumerIndex /\ c.deferred_queue_count = 0)
      PROVE  c.request_pending => d.request_pending
  <2>1. CASE SecDataPdu \/ SecKeyFragmentPdu
    BY <1>0, <2>1, DataPduStep, KeyFragmentStep DEF PduStep, SameSender
  <2>2. CASE SecTakeDeferred \/ SecRedoPdu
    BY <1>0, <2>2, TakeStep, RedoStep DEF SameSender
  <2>3. CASE SecRedoDone
    BY <1>0, <1>3, <2>3, RedoDoneStep DEF SameSender
  <2>4. CASE RecAddKey \/ RecRemoveLru
    BY <1>0, <2>4, AddKeyStep, RemoveLruStep DEF RecStep, SameSender
  <2>5. CASE RecRequestDeferred
    BY <1>0, <2>5, RequestStep DEF RecStep
  <2>6. CASE ~ ConsumerChanges
    BY <2>6, ConsumerFrame
  <2> QED BY <1>3, <2>1, <2>2, <2>3, <2>4, <2>5, <2>6 DEF ConsumerChanges
<1>4. CASE ~ SecAddConsumer /\ ~ c.request_pending
  <2>1. recPc = "pending" /\ RecConsumer = j
    BY <1>4 DEF Asked
  <2>2. CASE RecRequestDeferred
    <3>1. d.request_pending
      BY <2>1, <2>2, RequestStep, <1>0 DEF RecStep
    <3> QED BY <3>1 DEF Asked
  <2>3. CASE ~ RecRequestDeferred
    <3>1. recPc' = recPc /\ keyFragmentBatch' = keyFragmentBatch
      BY <2>1, <2>3
         DEF Next, Environment, EnqueuePduForProcessing, LosePdu,
             SecProcessingMain, SecWait, SecNewPdu, SecDeferred, SecCollect,
             SecCollected, SecAddConsumer, SecSkipPdu, SecDataPdu,
             SecKeyFragmentPdu, SecSendFragment, SecSendTimeout,
             SecBatchDone, SecNextConsumer, SecDeferredDone,
             SecTakeDeferred, SecTakenDeferred, SecRedoPdu, SecRedoDone,
             ReconstructorMain, RecWait, RecCollect, RecCollected,
             RecFragment, RecBatchDone, RecKeyComplete, RecCallback,
             RecAddKey, RecFindLru, RecRemoveLru, RecSignal, RecRemoveKey,
             vars, recVars
    <3>2. consumer[j].mac_address = RecMac
      BY <2>1, <3>1, RecConsumerIs DEF RecInCallback
    <3>3. consumer'[j].mac_address = RecMac
      BY <1>0, <1>4, <3>2, MacStep
    <3>4. RecConsumer' = j
      BY <2>1, <3>1, <3>3, RecConsumerIs DEF RecInCallback
    <3> QED BY <2>1, <3>1, <3>4 DEF Asked
  <2> QED BY <2>2, <2>3
<1>5. c.request_pending /\ ~ SecAddConsumer => d.request_pending \/
          (SecRedoDone /\ j = consumerIndex /\ c.deferred_queue_count = 0)
  BY <1>3
<1>6. ~ d.request_pending
  BY DEF Asked
<1> QED BY <1>1, <1>2, <1>4, <1>5, <1>6

\* A PDU that is deferred under no request: the key of its session is not
\* there, and the sessions of all that are were broadcast before it.
LEMMA AskData ==
    ASSUME OrderInv, OwnShortcuts, AskInv, [Next]_vars, SecDataPdu,
           NEW p, p = Head(pduBatch),
           NEW j \in Consumer, j = IndexForMac(p.mac), ~ Asked(j),
           ~ HasKeyFor(consumer[j], p) \/ consumer[j].deferred_queue_count # 0
    PROVE  /\ Content(p).session \notin Cached(consumer[j])
           /\ \A k \in Cached(consumer[j]) :
                  \E m \in Pdu : Carries(consumer[j], m, k) /\ m.no < p.no
<1> DEFINE c == consumer[j]
           v == Content(p).session
<1>1. /\ TypeOK /\ p \in Pdu /\ p \in Ahead /\ c.mac_address = p.mac
      /\ p.no \in Nat
  BY DataPduStep, PduPasses, PduNo DEF OrderInv, PduStep
<1>2. ASSUME NEW k \in Cached(c)
      PROVE  \E m \in Pdu : Carries(c, m, k) /\ m.no < p.no
  <2>1. PICK m \in Passed : Carries(c, m, k)
    BY DEF AskInv
  <2>2. m \in Pdu /\ m.mac = p.mac /\ m.no < p.no
    BY <1>1, <2>1 DEF Carries, PduOf, Passed, Behind
  <2> QED BY <2>1, <2>2
<1>3. ASSUME v \in Cached(c) PROVE FALSE
  <2>1. HasKeyFor(c, p)
    <3>1. Id8(KeyId(p)) # FREE /\ Id8(KeyId(p)) \in CachedIds(c.key_cache)
      BY <1>3 DEF Cached, CachedIds, KeyId
    <3> QED BY <1>1, <3>1, CachedKey
  <2>2. c.deferredQueue \in Seq(Pdu) /\ c.deferredQueue # << >>
        /\ c.deferredQueue \in Seq(PduOf(c.mac_address))
    <3>1. c.deferred_queue_count = Len(c.deferredQueue)
          /\ c.deferred_queue_count # 0
      BY <2>1 DEF OrderInv, QueueCounts
    <3>2. Len(<< >>) = 0
      BY EmptySeq
    <3> QED BY <1>1, <3>1, <3>2, CacheTypes
            DEF OrderInv, Placed, QueuesPlaced, ConsumerType
  <2>3. PICK q : q = Head(c.deferredQueue)
    OBVIOUS
  <2>4. q \in Range(c.deferredQueue) /\ q \in PduOf(c.mac_address)
    BY <2>2, <2>3, TailRange, HeadTailProperties
  <2>5. /\ Content(q).session \notin Cached(c)
        /\ \E m \in Pdu : Carries(c, m, v) /\ m.no < q.no
    BY <1>3, <2>4 DEF AskInv
  <2>6. PICK m \in Pdu : Carries(c, m, v) /\ m.no < q.no
    BY <2>5
  <2>7. q \in Pdu /\ q.mac = p.mac /\ m.mac = p.mac
        /\ Content(m).session = v
    BY <1>1, <2>4, <2>6 DEF Carries, PduOf
  <2>8. q.no < p.no
    <3>1. q \in Passed
      BY <2>4 DEF OrderInv, BehindInv
    <3> QED BY <1>1, <2>7, <3>1 DEF Passed, Behind
  <2>9. m.no <= q.no /\ q.no <= p.no
    BY <1>1, <2>6, <2>7, <2>8, PduNo
  <2>10. Content(q).session = v
    BY <1>1, <2>6, <2>7, <2>9, SessionStretch
  <2> QED BY <1>3, <2>5, <2>10
<1> QED BY <1>2, <1>3

LEMMA AskNext ==
    ASSUME OrderInv, OwnShortcuts, HandInv, AskInv, [Next]_vars
    PROVE  AskInv'
<1>0. TypeOK /\ Placed /\ BehindInv /\ Passed \subseteq Passed'
  BY PassedStays DEF OrderInv
<1> SUFFICES ASSUME NEW j \in Consumer
             PROVE  LET d == consumer'[j]
                    IN  /\ \A k \in Cached(d) :
                               \E m \in Passed' : Carries(d, m, k)
                        /\ ~ Asked(j)' =>
                               \A q \in Range(d.deferredQueue) :
                                   /\ Content(q).session \notin Cached(d)
                                   /\ \A k \in Cached(d) :
                                          \E m \in Pdu : /\ Carries(d, m, k)
                                                         /\ m.no < q.no
  BY DEF AskInv, Pdu, PduOf, Carries, Cached, Range, Content, Id8, FullKey
<1> DEFINE c == consumer[j]
           d == consumer'[j]
<1>1. ASSUME NEW k \in Cached(d)
      PROVE  \E m \in Passed' : Carries(d, m, k)
  <2>1. CASE k \in Cached(c) /\ d.mac_address = c.mac_address
    BY <1>0, <2>1 DEF AskInv, Carries
  <2>2. CASE /\ k = Content(RecPdu).session /\ d.mac_address = RecMac
             /\ recPc \in RecInCallback
    <3>1. PICK m : m = RecPdu
      OBVIOUS
    <3>2. m \in Range(keyFragmentBatch)
      <4>1. keyFragmentBatch \in Seq(Pdu) /\ keyFragmentBatch # << >>
        BY <1>0, <2>2 DEF TypeOK, RecOK
      <4> QED BY <3>1, <4>1, TailRange DEF RecPdu
    <3>3. m \in Passed
      BY <1>0, <3>2 DEF BehindInv
    <3>4. Carries(d, m, k)
      BY <2>2, <3>1, <3>3 DEF Carries, PduOf, Passed, RecMac, RecPdu
    <3> QED BY <1>0, <3>3, <3>4
  <2> QED BY <1>1, <2>1, <2>2, CachedStep
<1>2. ASSUME ~ Asked(j)', NEW q \in Range(d.deferredQueue)
      PROVE  /\ Content(q).session \notin Cached(d)
             /\ \A k \in Cached(d) :
                    \E m \in Pdu : Carries(d, m, k) /\ m.no < q.no
  <2>1. ~ Asked(j)
    BY <1>2, AskedStep, EmptyChain
  <2>2. ASSUME NEW k \in Cached(d)
        PROVE  k \in Cached(c) /\ d.mac_address = c.mac_address
    <3>1. CASE /\ d.mac_address = RecMac /\ recPc \in RecInCallback
               /\ recPc' = "pending" /\ UNCHANGED keyFragmentBatch
      <4>1. RecConsumer' = j
        BY <3>1, RecConsumerIs
      <4> QED BY <1>2, <3>1, <4>1 DEF Asked
    <3> QED BY <2>2, <3>1, CachedStep
  <2>3. /\ Content(q).session \notin Cached(c)
        /\ \A k \in Cached(c) :
               \E m \in Pdu : Carries(c, m, k) /\ m.no < q.no
    <3>1. CASE q \in Range(c.deferredQueue)
      BY <2>1, <3>1 DEF AskInv
    <3>2. CASE SecDataPdu /\ j = IndexForMac(Head(pduBatch).mac)
               /\ q = Head(pduBatch)
      <4>1. \/ d.deferredQueue = c.deferredQueue
            \/ ~ HasKeyFor(c, q) \/ c.deferred_queue_count # 0
        BY <1>0, <3>2, DataPduStep
      <4> QED BY <1>2, <2>1, <3>1, <3>2, <4>1, AskData
    <3>3. ~ (SecRedoPdu /\ j = consumerIndex)
      BY <1>0, <2>1 DEF Asked, SecRedoPdu, Placed, BatchPlaced
    <3>4. d.deferredQueue # << >>
      BY <1>2, EmptyChain
    <3> QED BY <1>0, <1>2, <3>1, <3>2, <3>3, <3>4, DeferredRange
  <2> QED BY <2>2, <2>3 DEF Carries
<1> QED BY <1>1, <1>2

LEMMA RequestedFromAsk ==
    ASSUME OrderInv, OwnShortcuts, AskInv
    PROVE  KeyedPduRequested
<1> SUFFICES ASSUME NEW i \in Consumer, ~ Asked(i),
                    NEW n \in DOMAIN consumer[i].deferredQueue
             PROVE  ~ HasOwnKeyFor(consumer[i], consumer[i].deferredQueue[n])
  BY DEF KeyedPduRequested, Asked
<1> DEFINE c == consumer[i]
<1>1. PICK q : q = c.deferredQueue[n]
  OBVIOUS
<1>2. q \in Range(c.deferredQueue)
  BY <1>1 DEF Range
<1>3. q \in Pdu
  BY <1>2 DEF OrderInv, BehindInv, Passed
<1>4. Content(q).session \notin Cached(c)
  BY <1>2 DEF AskInv
<1>5. ASSUME HasOwnKeyFor(c, q) PROVE FALSE
  <2> DEFINE id == Id8(KeyId(q))
             x == LookupIndex(c.key_cache, id)
  <2>1. /\ id # FREE /\ IsKeyInCache(c.key_cache, id)
        /\ c.key_cache.map[x].key = FullKey(Content(q).session)
    BY <1>5 DEF HasOwnKeyFor, HasKeyFor, KeyFor, GetKey
  <2>2. c.key_cache \in CacheType(KeyValue) /\ OwnShortcut(c.key_cache)
    BY CacheTypes DEF OrderInv, OwnShortcuts
  <2>3. x \in Slot /\ c.key_cache.map[x].key_id = id
    <3> HIDE DEF id
    <3> QED BY <2>1, <2>2, LookupFinds
  <2>4. Content(q).session \in Session
    BY <1>3, PduType DEF PduContent
  <2>5. id = Id8(SessionKeyId[Content(q).session])
    BY DEF KeyId
  <2> HIDE DEF id, x
  <2> QED BY <1>4, <2>1, <2>3, <2>4, <2>5 DEF Cached
<1> QED BY <1>1, <1>5

\* Whenever the key of a deferred PDU's own session is in the cache, the
\* deferred queue is marked for processing, or the call-back that brought the
\* key is about to mark it (key_reconstruction_complete): a PDU that is
\* deferred to keep the order, or put back by a round, is otherwise of a
\* younger session than every one whose key is in the cache.
THEOREM KeyedPdusRequested == Spec => []KeyedPduRequested
<1>1. Init => AskInv /\ HandInv
  <2> SUFFICES ASSUME Init PROVE AskInv /\ HandInv
    OBVIOUS
  <2>1. ASSUME NEW i \in Consumer
        PROVE  /\ consumer[i].deferredQueue = << >>
               /\ Cached(consumer[i]) = {}
    BY DEF Init, ZeroConsumer, EmptyCache, Cached, ZeroSlot
  <2>2. HandInv
    BY DEF Init, HandInv, RecInCallback
  <2> QED BY <2>1, <2>2, EmptyChain DEF AskInv
<1>2. /\ OrderInv /\ OwnShortcuts /\ OneComplete /\ HandInv /\ AskInv
      /\ [Next]_vars
      => OrderInv' /\ OwnShortcuts' /\ OneComplete' /\ HandInv' /\ AskInv'
  BY OrderNext, ShortcutsNext, OneCompleteNext, HandNext, AskNext
     DEF OrderInv
<1>3. OrderInv /\ OwnShortcuts /\ AskInv => KeyedPduRequested
  BY RequestedFromAsk
<1> QED BY <1>1, <1>2, <1>3, OrderInit, ShortcutsInit, OneCompleteInit, PTL
        DEF Spec
============================================================================
