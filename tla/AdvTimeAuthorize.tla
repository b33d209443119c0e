-------------------------- MODULE AdvTimeAuthorize --------------------------
(***************************************************************************)
(* The authorisation of received PDUs by their timing                      *)
(* (adv_time_authorize.c).                                                 *)
(*                                                                         *)
(* The scan call-back, run by the Bluetooth host's task on the other core, *)
(* filters what was heard before and puts the rest in the sender's private *)
(* queue; once a queue holds enough it wakes the authorisation task.  That *)
(* task takes a batch from the queue of each active sender and passes on   *)
(* every PDU whose successor came when the interval of the session says it *)
(* should.  The mutex of the module is never taken: the two tasks meet in  *)
(* the queues, the event bit and the addresses alone.                      *)
(***************************************************************************)
EXTENDS AdvInterval, Sequences, FiniteSets

CONSTANTS
    Sender,                        \* MAC addresses of senders in range
    NoAddress,                     \* zero_address_init
    Air,                           \* what can be heard of each sender
    MAX_BLE_CONSUMERS,             \* 2 in the code
    CONSUMER_PRIVATE_QUEUE_SIZE,   \* 50
    MAX_PDU_PROCESS_PER_CONSUMER,  \* 6
    NO_PDU_IN_QUEUE_FOR_PROCESS    \* 6

ASSUME SizeAssumption ==
    /\ MAX_BLE_CONSUMERS \in Nat \ {0}
    /\ CONSUMER_PRIVATE_QUEUE_SIZE \in Nat \ {0}
    /\ MAX_PDU_PROCESS_PER_CONSUMER \in Nat \ {0}
    /\ NO_PDU_IN_QUEUE_FOR_PROCESS \in Nat \ {0}

MAX_PDU_NO == 65535    \* pdu_no is a uint16_t

\* A reception: scan_pdu without its payload, and who it came from.
ScanPdu == [mac : Sender, key_id : 0 .. MAX_KEY_ID_VAL,
            pdu_no : 0 .. MAX_PDU_NO, timestamp_us : Nat \ {0}]

ASSUME AirAssumption ==
    /\ NoAddress \notin Sender
    /\ Air \in [Sender -> Seq(ScanPdu)]
    /\ \A s \in Sender : \A k \in DOMAIN Air[s] : Air[s][k].mac = s

Consumer == 0 .. MAX_BLE_CONSUMERS - 1

\* A scan_pdu that was never written: its timestamp is zero.
NoPdu == [mac |-> NoAddress, key_id |-> 0, pdu_no |-> 0, timestamp_us |-> 0]

VARIABLES
    heard,       \* how far into Air[s] each sender is
    consumers,   \* ao_control_structure.consumers
    authorizeEvent, \* EVENT_AUTHORIZE_PACKETS is set
    scanPc,      \* where scan_complete_callback is
    scanPdu,     \* its pdu
    scanIndex,   \* its consumer_index
    authPc,      \* where adv_authorize_main is
    authIndex,   \* its i
    pdus,        \* what is left of pdus of process_authorization_...
    lastScanPdu, \* its last_scan_pdu
    accepted,    \* history: what entered the private queue of a consumer
    authorized   \* history: the calls of enqueue_pdu_for_processing

scanVars == <<heard, scanPc, scanPdu, scanIndex>>
authVars == <<authPc, authIndex, pdus, lastScanPdu>>
vars == <<scanVars, authVars, consumers, authorizeEvent, accepted, authorized>>

Init ==
    /\ heard = [s \in Sender |-> 0]
    /\ consumers = [i \in Consumer |-> [consumer_addr |-> NoAddress,
                                        last_processed_pdu |-> NoPdu,
                                        privateQueue |-> << >>,
                                        last_pdu_no |-> 0,
                                        last_pdu_key_id |-> 0,
                                        active |-> FALSE]]
    /\ authorizeEvent = FALSE
    /\ scanPc = "idle"
    /\ scanPdu = NoPdu
    /\ scanIndex = 0
    /\ authPc = "wait"
    /\ authIndex = 0
    /\ pdus = << >>
    /\ lastScanPdu = NoPdu
    /\ accepted = [i \in Consumer |-> << >>]
    /\ authorized = [i \in Consumer |-> << >>]

----------------------------------------------------------------------------
\* The scan call-back.

\* A look-up that forgets to write the address of a new sender.
ConsumerIndexForAddr_NoMatch(mac) ==
    LET free == {i \in Consumer : consumers[i].consumer_addr = NoAddress}
    IN  IF free # {} THEN CHOOSE i \in free : \A j \in free : j <= i
        ELSE IF mac \in Sender THEN 0 ELSE -1

\* get_consumer_index_for_addr: the consumer of the sender, or else the last
\* free one, or else -1.
ConsumerIndexForAddr(mac) ==
    LET mine == {i \in Consumer : consumers[i].consumer_addr = mac}
        free == {i \in Consumer : consumers[i].consumer_addr = NoAddress}
    IN  IF mine # {} THEN CHOOSE i \in mine : \A j \in mine : i <= j
        ELSE IF free # {} THEN CHOOSE i \in free : \A j \in free : j <= i
        ELSE -1

\* A filter that lets a repeated PDU pass.
IsNewPdu_OrSame(pdu) ==
    \/ consumers[0].last_pdu_key_id # pdu.key_id
    \/ pdu.pdu_no >= consumers[0].last_pdu_no

\* What has been heard is remembered in the first consumer, whoever sent it:
\* the code writes ao_control_structure.consumers-> for consumers[...].
IsNewPdu(pdu) ==
    \/ consumers[0].last_pdu_key_id # pdu.key_id
    \/ pdu.pdu_no > consumers[0].last_pdu_no

\* scan_complete_callback up to the send: the sender gets a consumer if one
\* is left, and a PDU that is new is about to enter its queue.
ScanComplete(s) ==
    /\ scanPc = "idle"
    /\ heard[s] < Len(Air[s])
    /\ heard' = [heard EXCEPT ![s] = @ + 1]
    /\ LET pdu == Air[s][heard[s] + 1]
           i == ConsumerIndexForAddr(s)
       IN  IF i = -1
           THEN UNCHANGED <<scanPc, scanPdu, scanIndex, consumers>>
           ELSE /\ consumers' = [consumers EXCEPT ![i].consumer_addr = s,
                                                  ![i].active = TRUE]
                /\ IF IsNewPdu(pdu)
                   THEN /\ scanPc' = "send"
                        /\ scanPdu' = pdu
                        /\ scanIndex' = i
                   ELSE UNCHANGED <<scanPc, scanPdu, scanIndex>>
    /\ UNCHANGED <<authVars, authorizeEvent, accepted, authorized>>

\* Something a sender broadcast is not received.
ScanMiss(s) ==
    /\ heard[s] < Len(Air[s])
    /\ heard' = [heard EXCEPT ![s] = @ + 1]
    /\ UNCHANGED <<scanPc, scanPdu, scanIndex, authVars, consumers,
                   authorizeEvent, accepted, authorized>>

\* What the filter remembers, in either branch.
Remembered(c) == [c EXCEPT ![0].last_pdu_no = scanPdu.pdu_no,
                           ![0].last_pdu_key_id = scanPdu.key_id]

\* A send into a queue that is never full.
ScanSend_NoLimit ==
    /\ scanPc = "send"
    /\ consumers' = Remembered([consumers EXCEPT
                        ![scanIndex].privateQueue = Append(@, scanPdu)])
    /\ accepted' = [accepted EXCEPT ![scanIndex] = Append(@, scanPdu)]
    /\ scanPc' = "signal"
    /\ UNCHANGED <<heard, scanPdu, scanIndex, authVars, authorizeEvent,
                   authorized>>

\* The send, when there is room,
ScanSend ==
    /\ scanPc = "send"
    /\ Len(consumers[scanIndex].privateQueue) < CONSUMER_PRIVATE_QUEUE_SIZE
    /\ consumers' = Remembered([consumers EXCEPT
                        ![scanIndex].privateQueue = Append(@, scanPdu)])
    /\ accepted' = [accepted EXCEPT ![scanIndex] = Append(@, scanPdu)]
    /\ scanPc' = "signal"
    /\ UNCHANGED <<heard, scanPdu, scanIndex, authVars, authorizeEvent,
                   authorized>>

\* or the time-out: the PDU is lost, and remembered all the same.
ScanSendTimeout ==
    /\ scanPc = "send"
    /\ Len(consumers[scanIndex].privateQueue) = CONSUMER_PRIVATE_QUEUE_SIZE
    /\ consumers' = Remembered(consumers)
    /\ scanPc' = "signal"
    /\ UNCHANGED <<heard, scanPdu, scanIndex, authVars, authorizeEvent,
                   accepted, authorized>>

\* A wake-up for more than the threshold.
ScanSignal_Above ==
    /\ scanPc = "signal"
    /\ authorizeEvent' =
           (authorizeEvent \/ Len(consumers[scanIndex].privateQueue)
                                  > NO_PDU_IN_QUEUE_FOR_PROCESS)
    /\ scanPc' = "idle"
    /\ UNCHANGED <<heard, scanPdu, scanIndex, authVars, consumers, accepted,
                   authorized>>

\* The wake-up, if the queue holds enough by now.
ScanSignal ==
    /\ scanPc = "signal"
    /\ authorizeEvent' =
           (authorizeEvent \/ Len(consumers[scanIndex].privateQueue)
                                  >= NO_PDU_IN_QUEUE_FOR_PROCESS)
    /\ scanPc' = "idle"
    /\ UNCHANGED <<heard, scanPdu, scanIndex, authVars, consumers, accepted,
                   authorized>>

----------------------------------------------------------------------------
\* The authorisation task.

\* adv_authorize_main: the wait clears the bit.
AuthWait ==
    /\ authPc = "wait"
    /\ authorizeEvent
    /\ authorizeEvent' = FALSE
    /\ authPc' = "next"
    /\ authIndex' = 0
    /\ UNCHANGED <<scanVars, pdus, lastScanPdu, consumers, accepted,
                   authorized>>

\* The loop over the consumers; the inactive ones are passed over.
AuthNext ==
    /\ authPc = "next"
    /\ authIndex < MAX_BLE_CONSUMERS
    /\ LET active == consumers[authIndex].active
       IN  /\ authPc' = IF active THEN "receive" ELSE "next"
           /\ authIndex' = IF active THEN authIndex ELSE authIndex + 1
    /\ UNCHANGED <<scanVars, pdus, lastScanPdu, consumers, authorizeEvent,
                   accepted, authorized>>

AuthRoundDone ==
    /\ authPc = "next"
    /\ authIndex = MAX_BLE_CONSUMERS
    /\ authPc' = "wait"
    /\ UNCHANGED <<scanVars, authIndex, pdus, lastScanPdu, consumers,
                   authorizeEvent, accepted, authorized>>

\* process_authorization_for_consumer, the receive loop: another PDU ...
AuthReceive ==
    /\ authPc = "receive"
    /\ Len(pdus) < MAX_PDU_PROCESS_PER_CONSUMER
    /\ LET q == consumers[authIndex].privateQueue
       IN  /\ q # << >>
           /\ pdus' = Append(pdus, Head(q))
           /\ consumers' = [consumers EXCEPT
                                ![authIndex].privateQueue = Tail(q)]
    /\ UNCHANGED <<scanVars, authPc, authIndex, lastScanPdu, authorizeEvent,
                   accepted, authorized>>

\* A batch whose first PDU is never the one to start from.
AuthReceived_Resume ==
    /\ authPc = "receive"
    /\ \/ Len(pdus) = MAX_PDU_PROCESS_PER_CONSUMER
       \/ consumers[authIndex].privateQueue = << >>
    /\ LET first == pdus # << >>
       IN  /\ lastScanPdu' = IF first THEN Head(pdus)
                             ELSE consumers[authIndex].last_processed_pdu
           /\ pdus' = IF first THEN Tail(pdus) ELSE pdus
    /\ authPc' = "authorize"
    /\ UNCHANGED <<scanVars, authIndex, consumers, authorizeEvent, accepted,
                   authorized>>

\* ... until the batch is full or a receive times out on the empty queue.
\* The comparison starts from the PDU the last batch ended with, if any.
AuthReceived ==
    /\ authPc = "receive"
    /\ \/ Len(pdus) = MAX_PDU_PROCESS_PER_CONSUMER
       \/ consumers[authIndex].privateQueue = << >>
    /\ LET last == consumers[authIndex].last_processed_pdu
           first == last.timestamp_us = 0 /\ pdus # << >>
       IN  /\ lastScanPdu' = IF first THEN Head(pdus) ELSE last
           /\ pdus' = IF first THEN Tail(pdus) ELSE pdus
    /\ authPc' = "authorize"
    /\ UNCHANGED <<scanVars, authIndex, consumers, authorizeEvent, accepted,
                   authorized>>

\* PDU q came as long after p as their numbers and their session say.
InTime(p, q) ==
    LET interval == GetAdvIntervalFromKeyId(q.key_id)
        timestamp_diff_ms == (q.timestamp_us - p.timestamp_us) \div 1000
        timestamp_diff_from_pdus == (q.pdu_no - p.pdu_no) * interval
        difference == timestamp_diff_from_pdus - timestamp_diff_ms
        tolerance == ToleranceWindow(interval)
    IN  p.key_id = q.key_id /\ difference \in -tolerance .. tolerance

\* The loop over the batch: the previous PDU is passed on if this one came
\* in time after it.  The call blocks while the processing queue is full
\* and gives up after a time-out; either way nothing here depends on it.
AuthPdu ==
    /\ authPc = "authorize"
    /\ pdus # << >>
    /\ authorized' = IF InTime(lastScanPdu, Head(pdus))
                     THEN [authorized EXCEPT ![authIndex] =
                               Append(@, lastScanPdu)]
                     ELSE authorized
    /\ lastScanPdu' = Head(pdus)
    /\ pdus' = Tail(pdus)
    /\ UNCHANGED <<scanVars, authPc, authIndex, consumers, authorizeEvent,
                   accepted>>

\* save_last_scanned_pdu, then on to the next consumer.
AuthSave ==
    /\ authPc = "authorize"
    /\ pdus = << >>
    /\ consumers' = [consumers EXCEPT
                         ![authIndex].last_processed_pdu = lastScanPdu]
    /\ authIndex' = authIndex + 1
    /\ authPc' = "next"
    /\ UNCHANGED <<scanVars, pdus, lastScanPdu, authorizeEvent, accepted,
                   authorized>>

----------------------------------------------------------------------------
Scan == \/ \E s \in Sender : ScanComplete(s) \/ ScanMiss(s)
        \/ ScanSend \/ ScanSendTimeout \/ ScanSignal

AdvAuthorizeMain == \/ AuthWait \/ AuthNext \/ AuthRoundDone \/ AuthReceive
                    \/ AuthReceived \/ AuthPdu \/ AuthSave

Next == Scan \/ AdvAuthorizeMain

Spec == Init /\ [][Next]_vars

\* Both tasks run: they are on different cores, and nothing on the
\* authorisation task's core has a higher priority.
FairSpec == Spec /\ WF_vars(Scan) /\ WF_vars(AdvAuthorizeMain)

----------------------------------------------------------------------------
\* Properties.

AnyPdu == ScanPdu \cup {NoPdu}

ConsumerType == [consumer_addr : Sender \cup {NoAddress},
                 last_processed_pdu : AnyPdu,
                 privateQueue : Seq(ScanPdu),
                 last_pdu_no : Nat,
                 last_pdu_key_id : Nat,
                 active : BOOLEAN]

\* The types of the variables, and the bounds of the queues and of the batch.
TypeOK ==
    /\ heard \in [Sender -> Nat]
    /\ consumers \in [Consumer -> ConsumerType]
    /\ authorizeEvent \in BOOLEAN
    /\ scanPc \in {"idle", "send", "signal"}
    /\ scanPdu \in AnyPdu
    /\ scanPc # "idle" => scanPdu \in ScanPdu
    /\ scanIndex \in Consumer
    /\ authPc \in {"wait", "next", "receive", "authorize"}
    /\ authIndex \in 0 .. MAX_BLE_CONSUMERS
    /\ authPc \in {"receive", "authorize"} => authIndex \in Consumer
    /\ pdus \in Seq(ScanPdu)
    /\ Len(pdus) <= MAX_PDU_PROCESS_PER_CONSUMER
    /\ lastScanPdu \in AnyPdu
    /\ accepted \in [Consumer -> Seq(ScanPdu)]
    /\ authorized \in [Consumer -> Seq(AnyPdu)]
    /\ \A i \in Consumer :
           Len(consumers[i].privateQueue) <= CONSUMER_PRIVATE_QUEUE_SIZE

\* Every sender has a queue of its own, and a PDU is compared only with PDUs
\* of the same sender (adv_time_authorize.c:137-162, 196-262).
OwnQueue ==
    /\ \A i, j \in Consumer :
           /\ consumers[i].consumer_addr = consumers[j].consumer_addr
           /\ consumers[i].active
           => i = j
    /\ \A i \in Consumer : \A k \in DOMAIN accepted[i] :
           accepted[i][k].mac = consumers[i].consumer_addr

\* The PDU the next one will be compared with.
InHand(i) == IF authPc = "authorize" /\ authIndex = i THEN lastScanPdu
             ELSE consumers[i].last_processed_pdu

Batch(i) == IF authPc \in {"receive", "authorize"} /\ authIndex = i
            THEN pdus ELSE << >>

\* How many of the PDUs a consumer got have been compared.
Compared(i) == Len(accepted[i]) - Len(consumers[i].privateQueue)
                                - Len(Batch(i))

\* For each k, which of the first k PDUs of q had a successor in time.
InTimeUpto(q) ==
    LET Upto[k \in 0 .. Len(q)] ==
            IF k < 2 THEN << >>
            ELSE IF InTime(q[k - 1], q[k]) THEN Append(Upto[k - 1], q[k - 1])
            ELSE Upto[k - 1]
    IN  Upto

PassedOn(i) == InTimeUpto(accepted[i])[Compared(i)]

\* Which PDUs are passed on does not depend on how the queue was cut into
\* batches or on when the wake-ups came: they are those whose successor in
\* the queue came in time, in order, each once, also where the successor
\* opens the next batch (adv_time_authorize.c:209-260).
BatchesInvisible ==
    \A i \in Consumer :
        /\ InHand(i) = IF Compared(i) = 0 THEN NoPdu
                       ELSE accepted[i][Compared(i)]
        /\ authorized[i] = PassedOn(i)

\* What one batch leaves of a full queue.
Unserved ==
    LET left == CONSUMER_PRIVATE_QUEUE_SIZE - MAX_PDU_PROCESS_PER_CONSUMER
    IN  IF left >= NO_PDU_IN_QUEUE_FOR_PROCESS THEN left
        ELSE NO_PDU_IN_QUEUE_FOR_PROCESS - 1

\* The task does not sleep on more PDUs than that, unless the call-back is
\* about to wake it.  It may sleep on more than the threshold, because one
\* batch need not empty a queue (adv_time_authorize.c:180, 202, 323, 340).
SleepBound ==
    authPc = "wait" /\ ~ authorizeEvent =>
        \A i \in Consumer :
            \/ Len(consumers[i].privateQueue) <= Unserved
            \/ scanPc = "signal" /\ scanIndex = i

\* Of the first n PDUs of a sender, one of session key_id comes after one of
\* another session that came after one of session key_id.
CameBack(s, n, key_id) ==
    \E j, k, l \in 1 .. n :
        /\ j < k /\ k < l
        /\ Air[s][j].key_id = key_id
        /\ Air[s][k].key_id # key_id
        /\ Air[s][l].key_id = key_id

\* As long as one sender alone was heard, no PDU is passed on twice, however
\* often it is heard, and those of a session go in order: only a session the
\* sender left and came back to is forgotten, because the filter keeps the
\* last PDU alone (adv_time_authorize.c:311-319).
PassedOnOnce ==
    (\A s, t \in Sender : heard[s] > 0 /\ heard[t] > 0 => s = t) =>
        \A i \in Consumer : \A j, k \in DOMAIN authorized[i] :
            j < k => \/ authorized[i][j].key_id # authorized[i][k].key_id
                     \/ authorized[i][j].pdu_no < authorized[i][k].pdu_no
                     \/ \E s \in Sender :
                            CameBack(s, heard[s], authorized[i][j].key_id)

\* "Process the remaining packets" (docs/test_procedure.plantuml:16): when
\* the senders have finished, what is left in the queues is authorised.
RemainingProcessed ==
    \A i \in Consumer :
        (scanPc = "idle" /\ \A s \in Sender : heard[s] = Len(Air[s])) ~>
            (consumers[i].privateQueue = << >>)
============================================================================
