---------------------- MODULE AdvTimeAuthorize_proofs ----------------------
(***************************************************************************)
(* The authorisation of PDUs by their timing, for every number of senders  *)
(* and consumers, every size of queue and batch, and whatever is heard.    *)
(***************************************************************************)
EXTENDS AdvTimeAuthorize, ArrayScan_proofs, SequenceTheorems

----------------------------------------------------------------------------
\* Look-ups.

LEMMA ConsumerInt ==
    /\ Consumer \subseteq Int
    /\ \A S \in SUBSET Consumer : IsFiniteSet(S)
    /\ 0 \in Consumer
    /\ MAX_BLE_CONSUMERS \in Nat /\ MAX_BLE_CONSUMERS > 0
<1>1. MAX_BLE_CONSUMERS \in Nat /\ MAX_BLE_CONSUMERS > 0
  BY SizeAssumption
<1>2. IsFiniteSet(Consumer)
  BY <1>1, FS_Interval, 0 \in Int, MAX_BLE_CONSUMERS - 1 \in Int DEF Consumer
<1>3. \A S \in SUBSET Consumer : IsFiniteSet(S)
  BY <1>2, FS_Subset
<1>4. Consumer \subseteq Int /\ 0 \in Consumer
  BY <1>1 DEF Consumer
<1> QED BY <1>1, <1>3, <1>4

\* A set of consumers has a first and a last.
LEMMA FirstAndLast ==
    ASSUME NEW S \in SUBSET Consumer, S # {}
    PROVE  /\ \E i \in S : \A j \in S : i <= j
           /\ \E i \in S : \A j \in S : j <= i
<1>1. S \subseteq Int /\ IsFiniteSet(S)
  BY ConsumerInt
<1>2. \E i \in S : \A j \in S : i <= j
  BY <1>1, LeastElement
<1>3. \E i \in S : \A j \in S : j <= i
  <2> DEFINE T == {-i : i \in S}
  <2>1. T \subseteq Int /\ T # {} /\ IsFiniteSet(T)
    <3>1. T \subseteq -MAX_BLE_CONSUMERS .. 0
      BY ConsumerInt DEF Consumer
    <3>2. IsFiniteSet(-MAX_BLE_CONSUMERS .. 0)
      BY FS_Interval, ConsumerInt, -MAX_BLE_CONSUMERS \in Int, 0 \in Int
    <3>3. IsFiniteSet(T)
      <4> HIDE DEF T
      <4> QED BY <3>1, <3>2, FS_Subset
    <3>4. T # {}
      OBVIOUS
    <3>5. T \subseteq Int
      BY <1>1
    <3> QED BY <3>3, <3>4, <3>5
  <2>2. Min(T) \in T /\ \A y \in T : Min(T) <= y
    BY <2>1, LeastElement
  <2>3. PICK i \in S : Min(T) = -i
    BY <2>2
  <2>4. \A j \in S : -i <= -j
    BY <2>2, <2>3
  <2> QED BY <1>1, <2>4
<1> QED BY <1>2, <1>3

\* The consumer a sender is given is its own, or a free one if it has none.
LEMMA ConsumerFound ==
    ASSUME NEW s \in Sender
    PROVE  LET i == ConsumerIndexForAddr(s)
           IN  i # -1 =>
                   /\ i \in Consumer
                   /\ \/ consumers[i].consumer_addr = s
                      \/ /\ consumers[i].consumer_addr = NoAddress
                         /\ \A j \in Consumer : consumers[j].consumer_addr # s
<1> DEFINE mine == {i \in Consumer : consumers[i].consumer_addr = s}
           free == {i \in Consumer : consumers[i].consumer_addr = NoAddress}
<1>1. CASE mine # {}
  <2>1. \E i \in mine : \A j \in mine : i <= j
    BY <1>1, FirstAndLast
  <2>2. ConsumerIndexForAddr(s) = CHOOSE i \in mine : \A j \in mine : i <= j
    BY <1>1 DEF ConsumerIndexForAddr
  <2>3. ConsumerIndexForAddr(s) \in mine
    <3> HIDE DEF mine
    <3> QED BY <2>1, <2>2
  <2> QED BY <2>3
<1>2. CASE mine = {} /\ free # {}
  <2>1. \E i \in free : \A j \in free : j <= i
    BY <1>2, FirstAndLast
  <2>2. ConsumerIndexForAddr(s) = CHOOSE i \in free : \A j \in free : j <= i
    BY <1>2 DEF ConsumerIndexForAddr
  <2>3. ConsumerIndexForAddr(s) \in free
    <3> HIDE DEF free
    <3> QED BY <2>1, <2>2
  <2> QED BY <1>2, <2>3
<1>3. CASE mine = {} /\ free = {}
  BY <1>3 DEF ConsumerIndexForAddr
<1> QED BY <1>1, <1>2, <1>3

----------------------------------------------------------------------------
\* Types, and who a queue belongs to.

\* Each sender has one consumer at most; a consumer without a sender has
\* nothing; the PDU the call-back is about to send goes to its sender's
\* consumer; and between two consumers no batch is open.
Owned ==
    /\ \A i, j \in Consumer :
           /\ consumers[i].consumer_addr = consumers[j].consumer_addr
           /\ consumers[i].consumer_addr # NoAddress
           => i = j
    /\ \A i \in Consumer :
           /\ consumers[i].active <=> consumers[i].consumer_addr # NoAddress
           /\ ~ consumers[i].active =>
                  accepted[i] = << >> /\ consumers[i].privateQueue = << >>
    /\ \A i \in Consumer : \A k \in DOMAIN accepted[i] :
           accepted[i][k].mac = consumers[i].consumer_addr
    /\ scanPc = "send" => scanPdu.mac = consumers[scanIndex].consumer_addr
    /\ authPc \in {"wait", "next"} => pdus = << >>

Inv == TypeOK /\ Owned

LEMMA NoPduType == NoPdu \in AnyPdu
BY DEF AnyPdu

LEMMA ScanPduFacts ==
    ASSUME NEW p \in ScanPdu
    PROVE  /\ p.mac \in Sender /\ p.mac # NoAddress
           /\ p \in AnyPdu
           /\ p.key_id \in Nat /\ p.pdu_no \in Nat
           /\ p.timestamp_us \in Nat \ {0}
<1>1. p.mac \in Sender /\ p.timestamp_us \in Nat \ {0}
  BY DEF ScanPdu
<1>2. p.key_id \in Nat /\ p.pdu_no \in Nat
  <2>1. MAX_KEY_ID_VAL \in Nat /\ MAX_PDU_NO \in Nat
    BY DEF MAX_KEY_ID_VAL, MAX_PDU_NO
  <2> QED BY <2>1 DEF ScanPdu
<1>3. NoAddress \notin Sender
  BY AirAssumption
<1> QED BY <1>1, <1>2, <1>3 DEF AnyPdu

\* What the filter writes leaves everything else of the consumers as it was.
LEMMA RememberedKeeps ==
    ASSUME NEW c \in [Consumer -> ConsumerType], scanPdu \in ScanPdu
    PROVE  /\ Remembered(c) \in [Consumer -> ConsumerType]
           /\ \A i \in Consumer :
                  /\ Remembered(c)[i].consumer_addr = c[i].consumer_addr
                  /\ Remembered(c)[i].last_processed_pdu
                         = c[i].last_processed_pdu
                  /\ Remembered(c)[i].privateQueue = c[i].privateQueue
                  /\ Remembered(c)[i].active = c[i].active
<1>1. scanPdu.key_id \in Nat /\ scanPdu.pdu_no \in Nat /\ 0 \in Consumer
  BY ScanPduFacts, ConsumerInt
<1>2. [c[0] EXCEPT !.last_pdu_no = scanPdu.pdu_no,
                   !.last_pdu_key_id = scanPdu.key_id] \in ConsumerType
  BY <1>1 DEF ConsumerType
<1>3. Remembered(c) =
          [c EXCEPT ![0] = [c[0] EXCEPT !.last_pdu_no = scanPdu.pdu_no,
                                        !.last_pdu_key_id = scanPdu.key_id]]
  BY <1>1 DEF Remembered
<1>4. Remembered(c) \in [Consumer -> ConsumerType]
  BY <1>1, <1>2, <1>3
<1>5. ASSUME NEW i \in Consumer
      PROVE  /\ Remembered(c)[i].consumer_addr = c[i].consumer_addr
             /\ Remembered(c)[i].last_processed_pdu = c[i].last_processed_pdu
             /\ Remembered(c)[i].privateQueue = c[i].privateQueue
             /\ Remembered(c)[i].active = c[i].active
  BY <1>1, <1>3 DEF ConsumerType
<1> QED BY <1>4, <1>5

LEMMA InvInit == Init => Inv
<1> SUFFICES ASSUME Init PROVE Inv
  OBVIOUS
<1>1. << >> \in Seq(ScanPdu) /\ << >> \in Seq(AnyPdu) /\ Len(<< >>) = 0
  BY EmptySeq
<1>2. NoAddress \in Sender \cup {NoAddress} /\ NoPdu \in AnyPdu
  BY NoPduType
<1>3. consumers \in [Consumer -> ConsumerType]
  BY <1>1, <1>2 DEF Init, ConsumerType
<1>4. /\ MAX_PDU_PROCESS_PER_CONSUMER \in Nat
      /\ CONSUMER_PRIVATE_QUEUE_SIZE \in Nat
  BY SizeAssumption
<1>5. TypeOK
  <2>1. /\ heard \in [Sender -> Nat]
        /\ accepted \in [Consumer -> Seq(ScanPdu)]
        /\ authorized \in [Consumer -> Seq(AnyPdu)]
    BY <1>1 DEF Init
  <2>2. /\ scanIndex \in Consumer /\ authIndex \in 0 .. MAX_BLE_CONSUMERS
    BY ConsumerInt DEF Init
  <2>3. /\ pdus \in Seq(ScanPdu) /\ Len(pdus) <= MAX_PDU_PROCESS_PER_CONSUMER
        /\ \A i \in Consumer :
               Len(consumers[i].privateQueue) <= CONSUMER_PRIVATE_QUEUE_SIZE
    BY <1>1, <1>4 DEF Init
  <2>4. /\ authorizeEvent = FALSE /\ scanPc = "idle" /\ authPc = "wait"
        /\ scanPdu \in AnyPdu /\ lastScanPdu \in AnyPdu
    BY <1>2 DEF Init
  <2> QED BY <1>3, <2>1, <2>2, <2>3, <2>4 DEF TypeOK
<1>6. Owned
  BY DEF Init, Owned
<1> QED BY <1>5, <1>6 DEF Inv

\* The part of Inv about the consumers and what they were given.
ConsumersOK ==
    /\ consumers \in [Consumer -> ConsumerType]
    /\ accepted \in [Consumer -> Seq(ScanPdu)]
    /\ \A i \in Consumer :
           Len(consumers[i].privateQueue) <= CONSUMER_PRIVATE_QUEUE_SIZE
    /\ \A i, j \in Consumer :
           /\ consumers[i].consumer_addr = consumers[j].consumer_addr
           /\ consumers[i].consumer_addr # NoAddress
           => i = j
    /\ \A i \in Consumer :
           /\ consumers[i].active <=> consumers[i].consumer_addr # NoAddress
           /\ ~ consumers[i].active =>
                  accepted[i] = << >> /\ consumers[i].privateQueue = << >>
    /\ \A i \in Consumer : \A k \in DOMAIN accepted[i] :
           accepted[i][k].mac = consumers[i].consumer_addr

LEMMA InvConsumers == Inv => ConsumersOK
BY DEF Inv, TypeOK, Owned, ConsumersOK

\* A step that leaves the owners, the queues and their past alone.
LEMMA SameQueues ==
    ASSUME ConsumersOK, consumers' \in [Consumer -> ConsumerType],
           UNCHANGED accepted,
           \A i \in Consumer :
               /\ consumers'[i].consumer_addr = consumers[i].consumer_addr
               /\ consumers'[i].privateQueue = consumers[i].privateQueue
               /\ consumers'[i].active = consumers[i].active
    PROVE  ConsumersOK'
<1>1. /\ accepted' \in [Consumer -> Seq(ScanPdu)]
      /\ \A i \in Consumer :
             Len(consumers'[i].privateQueue) <= CONSUMER_PRIVATE_QUEUE_SIZE
  BY DEF ConsumersOK
<1>2. \A i, j \in Consumer :
          /\ consumers'[i].consumer_addr = consumers'[j].consumer_addr
          /\ consumers'[i].consumer_addr # NoAddress
          => i = j
  <2> SUFFICES ASSUME NEW i \in Consumer, NEW j \in Consumer,
                      consumers'[i].consumer_addr = consumers'[j].consumer_addr,
                      consumers'[i].consumer_addr # NoAddress
               PROVE  i = j
    OBVIOUS
  <2>1. /\ consumers[i].consumer_addr = consumers[j].consumer_addr
        /\ consumers[i].consumer_addr # NoAddress
    OBVIOUS
  <2> QED BY <2>1 DEF ConsumersOK
<1>3. \A i \in Consumer :
          /\ consumers'[i].active <=> consumers'[i].consumer_addr # NoAddress
          /\ ~ consumers'[i].active =>
                 accepted'[i] = << >> /\ consumers'[i].privateQueue = << >>
  BY DEF ConsumersOK
<1>4. \A i \in Consumer : \A k \in DOMAIN accepted'[i] :
          accepted'[i][k].mac = consumers'[i].consumer_addr
  BY DEF ConsumersOK
<1> QED BY <1>1, <1>2, <1>3, <1>4 DEF ConsumersOK

LEMMA ScanCompleteInv ==
    ASSUME Inv, NEW s \in Sender, ScanComplete(s)
    PROVE  Inv'
<1> DEFINE pdu == Air[s][heard[s] + 1]
           i == ConsumerIndexForAddr(s)
<1>1. heard' \in [Sender -> Nat]
  BY DEF ScanComplete, Inv, TypeOK
<1>2. pdu \in ScanPdu /\ pdu.mac = s
  <2>1. Air[s] \in Seq(ScanPdu) /\ heard[s] \in Nat /\ heard[s] < Len(Air[s])
    BY AirAssumption DEF ScanComplete, Inv, TypeOK
  <2>2. heard[s] + 1 \in DOMAIN Air[s] /\ heard[s] + 1 \in 1 .. Len(Air[s])
    BY <2>1, LenProperties
  <2> QED BY <2>1, <2>2, ElementOfSeq, AirAssumption
<1>3. /\ scanPc = "idle" /\ authPc' = authPc /\ pdus' = pdus
      /\ UNCHANGED <<authVars, authorizeEvent, accepted, authorized>>
  BY DEF ScanComplete, authVars
<1>4. CASE i = -1
  <2>1. UNCHANGED <<scanPc, scanPdu, scanIndex, consumers>>
    BY <1>4 DEF ScanComplete
  <2> QED BY <1>1, <1>3, <2>1 DEF Inv, TypeOK, Owned, authVars
<1>5. CASE i # -1
  <2>1. /\ i \in Consumer
        /\ \/ consumers[i].consumer_addr = s
           \/ /\ consumers[i].consumer_addr = NoAddress
              /\ \A j \in Consumer : consumers[j].consumer_addr # s
    BY <1>5, ConsumerFound
  <2>2. /\ consumers' = [consumers EXCEPT ![i].consumer_addr = s,
                                          ![i].active = TRUE]
        /\ \/ scanPc' = "send" /\ scanPdu' = pdu /\ scanIndex' = i
           \/ UNCHANGED <<scanPc, scanPdu, scanIndex>>
    BY <1>5 DEF ScanComplete
  <2> HIDE DEF i, pdu
  <2>3. s # NoAddress
    BY AirAssumption
  <2>4. ConsumersOK
    BY InvConsumers
  <2>5. /\ consumers'[i].consumer_addr = s /\ consumers'[i].active = TRUE
        /\ consumers'[i].privateQueue = consumers[i].privateQueue
        /\ \A j \in Consumer : j # i => consumers'[j] = consumers[j]
        /\ consumers' \in [Consumer -> ConsumerType]
    <3>1. consumers[i] \in ConsumerType
      BY <2>1, <2>4 DEF ConsumersOK
    <3>2. [consumers[i] EXCEPT !.consumer_addr = s, !.active = TRUE]
              \in ConsumerType
      BY <3>1 DEF ConsumerType
    <3>3. consumers' = [consumers EXCEPT ![i] =
              [consumers[i] EXCEPT !.consumer_addr = s, !.active = TRUE]]
      BY <2>2
    <3> QED BY <2>1, <2>4, <3>1, <3>2, <3>3 DEF ConsumersOK, ConsumerType
  <2>6. ConsumersOK'
    <3>1. \A j \in Consumer : \A k \in DOMAIN accepted[j] :
              accepted[j][k].mac = consumers'[j].consumer_addr
      <4> SUFFICES ASSUME NEW j \in Consumer, NEW k \in DOMAIN accepted[j]
                   PROVE  accepted[j][k].mac = consumers'[j].consumer_addr
        OBVIOUS
      <4>1. accepted[j][k].mac = consumers[j].consumer_addr
        BY <2>4 DEF ConsumersOK
      <4>2. CASE consumers[i].consumer_addr = NoAddress /\ j = i
        <5>1. accepted[j] = << >>
          BY <2>4, <4>2 DEF ConsumersOK
        <5> QED BY <5>1
      <4> QED BY <2>1, <2>5, <4>1, <4>2
    <3>2. \A j, k \in Consumer :
              /\ consumers'[j].consumer_addr = consumers'[k].consumer_addr
              /\ consumers'[j].consumer_addr # NoAddress
              => j = k
      <4> SUFFICES ASSUME NEW j \in Consumer, NEW k \in Consumer,
                          consumers'[j].consumer_addr
                              = consumers'[k].consumer_addr,
                          consumers'[j].consumer_addr # NoAddress
                   PROVE  j = k
        OBVIOUS
      <4>1. CASE j # i /\ k # i
        BY <2>4, <2>5, <4>1 DEF ConsumersOK
      <4>2. CASE j = i \/ k = i
        <5>1. ASSUME NEW l \in Consumer, l # i PROVE consumers[l].consumer_addr # s
          BY <2>1, <2>3, <2>4, <5>1 DEF ConsumersOK
        <5> QED BY <2>5, <4>2, <5>1
      <4> QED BY <4>1, <4>2
    <3>3. \A j \in Consumer :
              /\ consumers'[j].active <=> consumers'[j].consumer_addr # NoAddress
              /\ ~ consumers'[j].active => accepted[j] = << >>
                                    /\ consumers'[j].privateQueue = << >>
      BY <2>3, <2>4, <2>5 DEF ConsumersOK
    <3>4. \A j \in Consumer :
              Len(consumers'[j].privateQueue) <= CONSUMER_PRIVATE_QUEUE_SIZE
      BY <2>4, <2>5 DEF ConsumersOK
    <3> QED BY <1>3, <2>4, <2>5, <3>1, <3>2, <3>3, <3>4 DEF ConsumersOK
  <2>7. /\ scanPc' \in {"idle", "send", "signal"}
        /\ scanPdu' \in AnyPdu /\ (scanPc' # "idle" => scanPdu' \in ScanPdu)
        /\ scanIndex' \in Consumer
        /\ scanPc' = "send" =>
               scanPdu'.mac = consumers'[scanIndex'].consumer_addr
    BY <1>2, <1>3, <2>1, <2>2, <2>5, ScanPduFacts DEF Inv, TypeOK
  <2> QED BY <1>1, <1>3, <2>6, <2>7
             DEF Inv, TypeOK, Owned, authVars, ConsumersOK
<1> QED BY <1>4, <1>5

LEMMA ScanMissInv ==
    ASSUME Inv, NEW s \in Sender, ScanMiss(s)
    PROVE  Inv'
<1>1. heard' \in [Sender -> Nat]
  BY DEF ScanMiss, Inv, TypeOK
<1> QED BY <1>1 DEF ScanMiss, authVars, Inv, TypeOK, Owned

\* What the send does to the queue and to its past.
LEMMA SendEffect ==
    ASSUME Inv, ScanSend
    PROVE  LET i == scanIndex
               q == consumers[i].privateQueue
           IN  /\ i \in Consumer /\ scanPdu \in ScanPdu
               /\ consumers[i].active
               /\ scanPdu.mac = consumers[i].consumer_addr
               /\ consumers' \in [Consumer -> ConsumerType]
               /\ \A j \in Consumer :
                      /\ consumers'[j].consumer_addr = consumers[j].consumer_addr
                      /\ consumers'[j].active = consumers[j].active
                      /\ consumers'[j].last_processed_pdu =
                             consumers[j].last_processed_pdu
                      /\ j # i => consumers'[j].privateQueue =
                                      consumers[j].privateQueue
               /\ consumers'[i].privateQueue = Append(q, scanPdu)
               /\ accepted' = [accepted EXCEPT ![i] = Append(@, scanPdu)]
<1> DEFINE i == scanIndex
           q == consumers[i].privateQueue
           c == [consumers EXCEPT ![i].privateQueue = Append(@, scanPdu)]
<1>1. /\ i \in Consumer /\ scanPdu \in ScanPdu
      /\ scanPdu.mac = consumers[i].consumer_addr
      /\ consumers \in [Consumer -> ConsumerType]
  BY DEF ScanSend, Inv, TypeOK, Owned
<1>2. consumers[i].active
  BY <1>1, ScanPduFacts DEF Inv, Owned
<1>3. consumers[i] \in ConsumerType /\ Append(q, scanPdu) \in Seq(ScanPdu)
  BY <1>1, AppendProperties DEF ConsumerType
<1>4. [consumers[i] EXCEPT !.privateQueue = Append(@, scanPdu)] \in ConsumerType
  BY <1>3 DEF ConsumerType
<1>5. /\ c \in [Consumer -> ConsumerType]
      /\ c[i].privateQueue = Append(q, scanPdu)
      /\ \A j \in Consumer :
             /\ c[j].consumer_addr = consumers[j].consumer_addr
             /\ c[j].active = consumers[j].active
             /\ c[j].last_processed_pdu = consumers[j].last_processed_pdu
             /\ j # i => c[j].privateQueue = consumers[j].privateQueue
  BY <1>1, <1>3, <1>4 DEF ConsumerType
<1>6. consumers' = Remembered(c)
  BY DEF ScanSend
<1>7. accepted' = [accepted EXCEPT ![i] = Append(@, scanPdu)]
  BY DEF ScanSend
<1> HIDE DEF c
<1> QED BY <1>1, <1>2, <1>5, <1>6, <1>7, RememberedKeeps

LEMMA ScanSendInv ==
    ASSUME Inv, ScanSend
    PROVE  Inv'
<1> DEFINE i == scanIndex
<1>1. ConsumersOK
  BY InvConsumers
<1>2. ConsumersOK'
  <2>1. accepted[i] \in Seq(ScanPdu) /\ accepted' \in [Consumer -> Seq(ScanPdu)]
    <3>1. accepted \in [Consumer -> Seq(ScanPdu)] /\ i \in Consumer
      BY <1>1, SendEffect DEF ConsumersOK
    <3>2. Append(accepted[i], scanPdu) \in Seq(ScanPdu)
      BY <3>1, SendEffect, AppendProperties
    <3>3. accepted' = [accepted EXCEPT ![i] = Append(@, scanPdu)]
      BY SendEffect
    <3> QED BY <3>1, <3>2, <3>3
  <2>2. Len(consumers'[i].privateQueue) <= CONSUMER_PRIVATE_QUEUE_SIZE
    <3>1. consumers[i].privateQueue \in Seq(ScanPdu)
      BY <1>1, SendEffect DEF ConsumersOK, ConsumerType
    <3>2. Len(consumers[i].privateQueue) < CONSUMER_PRIVATE_QUEUE_SIZE
      BY DEF ScanSend
    <3> QED BY <3>1, <3>2, SendEffect, AppendProperties, LenProperties,
               SizeAssumption
  <2>3. \A j \in Consumer :
            Len(consumers'[j].privateQueue) <= CONSUMER_PRIVATE_QUEUE_SIZE
    BY <1>1, <2>2, SendEffect DEF ConsumersOK
  <2>4. \A j \in Consumer : \A k \in DOMAIN accepted'[j] :
            accepted'[j][k].mac = consumers'[j].consumer_addr
    <3> SUFFICES ASSUME NEW j \in Consumer, NEW k \in DOMAIN accepted'[j]
                 PROVE  accepted'[j][k].mac = consumers[j].consumer_addr
      BY SendEffect
    <3>1. CASE j # i
      BY <1>1, <3>1, SendEffect DEF ConsumersOK
    <3>2. CASE j = i
      <4>1. accepted'[i] = Append(accepted[i], scanPdu)
        BY <1>1, SendEffect DEF ConsumersOK
      <4>2. k \in 1 .. Len(accepted[i]) + 1 /\ Len(accepted[i]) \in Nat
            /\ DOMAIN accepted[i] = 1 .. Len(accepted[i])
        BY <2>1, <3>2, <4>1, SendEffect, AppendProperties, LenProperties
      <4>3. accepted'[i][k] = IF k = Len(accepted[i]) + 1 THEN scanPdu
                              ELSE accepted[i][k]
        BY <2>1, <4>1, <4>2, SendEffect, AppendProperties
      <4> QED BY <1>1, <3>2, <4>2, <4>3, SendEffect DEF ConsumersOK
    <3> QED BY <3>1, <3>2
  <2>5. \A j, k \in Consumer :
            /\ consumers'[j].consumer_addr = consumers'[k].consumer_addr
            /\ consumers'[j].consumer_addr # NoAddress
            => j = k
    BY <1>1, SendEffect DEF ConsumersOK
  <2>6. \A j \in Consumer :
            /\ consumers'[j].active <=> consumers'[j].consumer_addr # NoAddress
            /\ ~ consumers'[j].active => accepted'[j] = << >>
                                  /\ consumers'[j].privateQueue = << >>
    <3> SUFFICES ASSUME NEW j \in Consumer
                 PROVE  /\ consumers'[j].active <=>
                               consumers'[j].consumer_addr # NoAddress
                        /\ ~ consumers'[j].active => accepted'[j] = << >>
                                  /\ consumers'[j].privateQueue = << >>
      OBVIOUS
    <3>1. CASE j = i
      BY <1>1, <3>1, SendEffect DEF ConsumersOK
    <3>2. CASE j # i
      BY <1>1, <3>2, SendEffect DEF ConsumersOK
    <3> QED BY <3>1, <3>2
  <2> QED BY <2>1, <2>3, <2>4, <2>5, <2>6, SendEffect DEF ConsumersOK
<1>3. /\ scanPc' = "signal" /\ scanPdu' = scanPdu /\ scanIndex' = scanIndex
      /\ UNCHANGED <<heard, authVars, authorizeEvent, authorized>>
  BY DEF ScanSend
<1> QED BY <1>2, <1>3, SendEffect DEF Inv, TypeOK, Owned, ConsumersOK, authVars

LEMMA TimeoutEffect ==
    ASSUME Inv, ScanSendTimeout
    PROVE  /\ consumers' \in [Consumer -> ConsumerType]
           /\ \A j \in Consumer :
                  /\ consumers'[j].consumer_addr = consumers[j].consumer_addr
                  /\ consumers'[j].active = consumers[j].active
                  /\ consumers'[j].last_processed_pdu =
                         consumers[j].last_processed_pdu
                  /\ consumers'[j].privateQueue = consumers[j].privateQueue
<1>1. scanPdu \in ScanPdu /\ consumers \in [Consumer -> ConsumerType]
  BY DEF ScanSendTimeout, Inv, TypeOK
<1>2. consumers' = Remembered(consumers)
  BY DEF ScanSendTimeout
<1> QED BY <1>1, <1>2, RememberedKeeps

LEMMA ScanSendTimeoutInv ==
    ASSUME Inv, ScanSendTimeout
    PROVE  Inv'
<1>1. /\ scanPc = "send" /\ scanPc' = "signal"
      /\ UNCHANGED <<heard, scanPdu, scanIndex, authVars, authorizeEvent,
                     accepted, authorized>>
  BY DEF ScanSendTimeout
<1>2. ConsumersOK'
  BY <1>1, InvConsumers, TimeoutEffect, SameQueues
<1> QED BY <1>1, <1>2 DEF Inv, TypeOK, Owned, ConsumersOK, authVars

LEMMA ScanSignalInv ==
    ASSUME Inv, ScanSignal
    PROVE  Inv'
<1>1. authorizeEvent' \in BOOLEAN
  BY DEF ScanSignal, Inv, TypeOK
<1> QED BY <1>1 DEF ScanSignal, authVars, Inv, TypeOK, Owned

LEMMA AuthWaitInv ==
    ASSUME Inv, AuthWait
    PROVE  Inv'
<1>1. authIndex' \in 0 .. MAX_BLE_CONSUMERS
  BY ConsumerInt DEF AuthWait
<1> QED BY <1>1 DEF AuthWait, scanVars, Inv, TypeOK, Owned

LEMMA AuthNextInv ==
    ASSUME Inv, AuthNext
    PROVE  Inv'
<1>1. /\ authIndex \in Consumer
      /\ authIndex' \in 0 .. MAX_BLE_CONSUMERS
      /\ authPc' \in {"next", "receive"}
      /\ authPc' = "receive" => authIndex' = authIndex
  BY ConsumerInt DEF AuthNext, Inv, TypeOK, Consumer
<1> QED BY <1>1 DEF AuthNext, scanVars, Inv, TypeOK, Owned

LEMMA AuthRoundDoneInv ==
    ASSUME Inv, AuthRoundDone
    PROVE  Inv'
BY DEF AuthRoundDone, scanVars, Inv, TypeOK, Owned

\* What taking a PDU does to the queue.
LEMMA ReceiveEffect ==
    ASSUME Inv, AuthReceive
    PROVE  LET i == authIndex
               q == consumers[i].privateQueue
           IN  /\ i \in Consumer /\ q \in Seq(ScanPdu) /\ q # << >>
               /\ Head(q) \in ScanPdu
               /\ consumers' \in [Consumer -> ConsumerType]
               /\ \A j \in Consumer :
                      /\ consumers'[j].consumer_addr = consumers[j].consumer_addr
                      /\ consumers'[j].active = consumers[j].active
                      /\ consumers'[j].last_processed_pdu =
                             consumers[j].last_processed_pdu
                      /\ j # i => consumers'[j].privateQueue =
                                      consumers[j].privateQueue
               /\ consumers'[i].privateQueue = Tail(q)
               /\ pdus' = Append(pdus, Head(q))
<1> DEFINE i == authIndex
           q == consumers[i].privateQueue
<1>1. i \in Consumer /\ consumers \in [Consumer -> ConsumerType]
  BY DEF AuthReceive, Inv, TypeOK
<1>2. /\ q # << >> /\ pdus' = Append(pdus, Head(q))
      /\ consumers' = [consumers EXCEPT ![i].privateQueue = Tail(q)]
  BY DEF AuthReceive
<1>3. q \in Seq(ScanPdu) /\ consumers[i] \in ConsumerType
  BY <1>1 DEF ConsumerType
<1>4. Head(q) \in ScanPdu /\ Tail(q) \in Seq(ScanPdu)
  BY <1>2, <1>3, HeadTailProperties
<1> HIDE DEF q
<1>5. [consumers[i] EXCEPT !.privateQueue = Tail(q)] \in ConsumerType
  BY <1>3, <1>4 DEF ConsumerType
<1>6. consumers' = [consumers EXCEPT ![i] =
                        [consumers[i] EXCEPT !.privateQueue = Tail(q)]]
  BY <1>2
<1>7. /\ consumers' \in [Consumer -> ConsumerType]
      /\ consumers'[i].privateQueue = Tail(q)
  BY <1>1, <1>3, <1>5, <1>6 DEF ConsumerType
<1>8. ASSUME NEW j \in Consumer
      PROVE  /\ consumers'[j].consumer_addr = consumers[j].consumer_addr
             /\ consumers'[j].active = consumers[j].active
             /\ consumers'[j].last_processed_pdu =
                    consumers[j].last_processed_pdu
             /\ j # i => consumers'[j].privateQueue = consumers[j].privateQueue
  BY <1>1, <1>3, <1>6 DEF ConsumerType
<1> QED BY <1>1, <1>2, <1>3, <1>4, <1>7, <1>8 DEF q

LEMMA AuthReceiveInv ==
    ASSUME Inv, AuthReceive
    PROVE  Inv'
<1> DEFINE i == authIndex
           q == consumers[i].privateQueue
<1>1. ConsumersOK /\ UNCHANGED accepted
  BY InvConsumers DEF AuthReceive
<1>2. \A j \in Consumer :
          Len(consumers'[j].privateQueue) <= CONSUMER_PRIVATE_QUEUE_SIZE
  <2>1. Len(q) \in Nat /\ Len(Tail(q)) = Len(q) - 1
    BY ReceiveEffect, LenProperties, HeadTailProperties
  <2>2. Len(consumers'[i].privateQueue) <= CONSUMER_PRIVATE_QUEUE_SIZE
    <3>1. Len(q) <= CONSUMER_PRIVATE_QUEUE_SIZE
      BY <1>1, ReceiveEffect DEF ConsumersOK
    <3>2. consumers'[i].privateQueue = Tail(q)
      BY ReceiveEffect
    <3> HIDE DEF q
    <3> QED BY <2>1, <3>1, <3>2, SizeAssumption
  <2> QED BY <1>1, <2>2, ReceiveEffect DEF ConsumersOK
<1>3. \A j, k \in Consumer :
          /\ consumers'[j].consumer_addr = consumers'[k].consumer_addr
          /\ consumers'[j].consumer_addr # NoAddress
          => j = k
  BY <1>1, ReceiveEffect DEF ConsumersOK
<1>4. \A j \in Consumer :
          /\ consumers'[j].active <=> consumers'[j].consumer_addr # NoAddress
          /\ ~ consumers'[j].active => accepted'[j] = << >>
                                /\ consumers'[j].privateQueue = << >>
  <2> SUFFICES ASSUME NEW j \in Consumer
               PROVE  /\ consumers'[j].active <=>
                             consumers'[j].consumer_addr # NoAddress
                      /\ ~ consumers'[j].active => accepted'[j] = << >>
                                /\ consumers'[j].privateQueue = << >>
    OBVIOUS
  <2>1. CASE j = i
    BY <1>1, <2>1, ReceiveEffect DEF ConsumersOK
  <2>2. CASE j # i
    BY <1>1, <2>2, ReceiveEffect DEF ConsumersOK
  <2> QED BY <2>1, <2>2
<1>5. \A j \in Consumer : \A k \in DOMAIN accepted'[j] :
          accepted'[j][k].mac = consumers'[j].consumer_addr
  BY <1>1, ReceiveEffect DEF ConsumersOK
<1>6. pdus' \in Seq(ScanPdu) /\ Len(pdus') <= MAX_PDU_PROCESS_PER_CONSUMER
  <2>1. pdus \in Seq(ScanPdu) /\ Len(pdus) < MAX_PDU_PROCESS_PER_CONSUMER
    BY DEF AuthReceive, Inv, TypeOK
  <2>2. pdus' \in Seq(ScanPdu) /\ Len(pdus') = Len(pdus) + 1
        /\ Len(pdus) \in Nat
    BY <2>1, ReceiveEffect, AppendProperties, LenProperties
  <2> QED BY <2>1, <2>2, SizeAssumption
<1>7. scanPc = "send" => scanPdu.mac = consumers'[scanIndex].consumer_addr
  BY ReceiveEffect DEF Inv, TypeOK, Owned
<1>8. /\ authPc = "receive"
      /\ UNCHANGED <<scanVars, authPc, authIndex, lastScanPdu, authorizeEvent,
                     authorized>>
  BY DEF AuthReceive
<1> QED BY <1>1, <1>2, <1>3, <1>4, <1>5, <1>6, <1>7, <1>8, ReceiveEffect
           DEF Inv, TypeOK, Owned, ConsumersOK, scanVars

LEMMA AuthReceivedInv ==
    ASSUME Inv, AuthReceived
    PROVE  Inv'
<1>1. /\ authIndex \in Consumer /\ consumers \in [Consumer -> ConsumerType]
      /\ pdus \in Seq(ScanPdu) /\ Len(pdus) <= MAX_PDU_PROCESS_PER_CONSUMER
  BY DEF AuthReceived, Inv, TypeOK
<1>2. consumers[authIndex].last_processed_pdu \in AnyPdu
  BY <1>1 DEF ConsumerType
<1>3. pdus # << >> =>
          /\ Head(pdus) \in AnyPdu /\ Tail(pdus) \in Seq(ScanPdu)
          /\ Len(Tail(pdus)) <= MAX_PDU_PROCESS_PER_CONSUMER
  <2> SUFFICES ASSUME pdus # << >>
               PROVE  /\ Head(pdus) \in AnyPdu /\ Tail(pdus) \in Seq(ScanPdu)
                      /\ Len(Tail(pdus)) <= MAX_PDU_PROCESS_PER_CONSUMER
    OBVIOUS
  <2>1. /\ Head(pdus) \in ScanPdu /\ Tail(pdus) \in Seq(ScanPdu)
        /\ Len(Tail(pdus)) = Len(pdus) - 1 /\ Len(pdus) \in Nat
    BY <1>1, HeadTailProperties, LenProperties
  <2> QED BY <1>1, <2>1, ScanPduFacts, SizeAssumption
<1>4. /\ lastScanPdu' \in AnyPdu /\ pdus' \in Seq(ScanPdu)
      /\ Len(pdus') <= MAX_PDU_PROCESS_PER_CONSUMER
  BY <1>1, <1>2, <1>3 DEF AuthReceived
<1>5. authPc = "receive" /\ authPc' = "authorize"
      /\ UNCHANGED <<scanVars, authIndex, consumers, authorizeEvent, accepted,
                     authorized>>
  BY DEF AuthReceived
<1> QED BY <1>4, <1>5 DEF Inv, TypeOK, Owned, scanVars

LEMMA AuthPduInv ==
    ASSUME Inv, AuthPdu
    PROVE  Inv'
<1>1. /\ authIndex \in Consumer /\ authPc = "authorize"
      /\ pdus \in Seq(ScanPdu) /\ pdus # << >>
      /\ Len(pdus) <= MAX_PDU_PROCESS_PER_CONSUMER
      /\ authorized \in [Consumer -> Seq(AnyPdu)] /\ lastScanPdu \in AnyPdu
  BY DEF AuthPdu, Inv, TypeOK
<1>2. /\ Head(pdus) \in AnyPdu /\ Tail(pdus) \in Seq(ScanPdu)
      /\ Len(Tail(pdus)) <= MAX_PDU_PROCESS_PER_CONSUMER
  <2>1. /\ Head(pdus) \in ScanPdu /\ Tail(pdus) \in Seq(ScanPdu)
        /\ Len(Tail(pdus)) = Len(pdus) - 1 /\ Len(pdus) \in Nat
    BY <1>1, HeadTailProperties, LenProperties
  <2> QED BY <1>1, <2>1, ScanPduFacts, SizeAssumption
<1>3. Append(authorized[authIndex], lastScanPdu) \in Seq(AnyPdu)
  BY <1>1, AppendProperties
<1>4. authorized' \in [Consumer -> Seq(AnyPdu)]
  <2>1. \/ authorized' = authorized
        \/ authorized' = [authorized EXCEPT ![authIndex] =
                              Append(@, lastScanPdu)]
    BY DEF AuthPdu
  <2> QED BY <1>1, <1>3, <2>1
<1>5. /\ lastScanPdu' \in AnyPdu /\ pdus' \in Seq(ScanPdu)
      /\ Len(pdus') <= MAX_PDU_PROCESS_PER_CONSUMER
      /\ UNCHANGED <<scanVars, authPc, authIndex, consumers, authorizeEvent,
                     accepted>>
  BY <1>2 DEF AuthPdu
<1> QED BY <1>1, <1>4, <1>5 DEF Inv, TypeOK, Owned, scanVars

\* What saving the last PDU does to the consumers.
LEMMA SaveEffect ==
    ASSUME Inv, AuthSave
    PROVE  LET i == authIndex
           IN  /\ i \in Consumer
               /\ consumers' \in [Consumer -> ConsumerType]
               /\ \A j \in Consumer :
                      /\ consumers'[j].consumer_addr = consumers[j].consumer_addr
                      /\ consumers'[j].active = consumers[j].active
                      /\ consumers'[j].privateQueue = consumers[j].privateQueue
                      /\ j # i => consumers'[j].last_processed_pdu =
                                      consumers[j].last_processed_pdu
               /\ consumers'[i].last_processed_pdu = lastScanPdu
<1> DEFINE i == authIndex
<1>1. /\ i \in Consumer /\ consumers \in [Consumer -> ConsumerType]
      /\ lastScanPdu \in AnyPdu
  BY DEF AuthSave, Inv, TypeOK
<1>2. [consumers[i] EXCEPT !.last_processed_pdu = lastScanPdu] \in ConsumerType
  BY <1>1 DEF ConsumerType
<1>3. consumers' = [consumers EXCEPT ![i] =
                 [consumers[i] EXCEPT !.last_processed_pdu = lastScanPdu]]
  BY DEF AuthSave
<1> QED BY <1>1, <1>2, <1>3 DEF ConsumerType

LEMMA AuthSaveInv ==
    ASSUME Inv, AuthSave
    PROVE  Inv'
<1>1. /\ authPc = "authorize" /\ pdus = << >> /\ authPc' = "next"
      /\ UNCHANGED <<scanVars, pdus, lastScanPdu, authorizeEvent, accepted,
                     authorized>>
  BY DEF AuthSave
<1>2. ConsumersOK'
  BY <1>1, InvConsumers, SaveEffect, SameQueues
<1>3. authIndex' \in 0 .. MAX_BLE_CONSUMERS
  BY ConsumerInt, SaveEffect DEF AuthSave, Consumer
<1>4. scanPc = "send" => scanPdu.mac = consumers'[scanIndex].consumer_addr
  BY SaveEffect DEF Inv, TypeOK, Owned
<1> QED BY <1>1, <1>2, <1>3, <1>4 DEF Inv, TypeOK, Owned, ConsumersOK, scanVars

LEMMA InvNext == Inv /\ [Next]_vars => Inv'
<1> SUFFICES ASSUME Inv, [Next]_vars PROVE Inv'
  OBVIOUS
<1>1. CASE Scan
  BY <1>1, ScanCompleteInv, ScanMissInv, ScanSendInv, ScanSendTimeoutInv,
     ScanSignalInv DEF Scan
<1>2. CASE AdvAuthorizeMain
  BY <1>2, AuthWaitInv, AuthNextInv, AuthRoundDoneInv, AuthReceiveInv,
     AuthReceivedInv, AuthPduInv, AuthSaveInv DEF AdvAuthorizeMain
<1>3. CASE UNCHANGED vars
  BY <1>3 DEF vars, scanVars, authVars, Inv, TypeOK, Owned
<1> QED BY <1>1, <1>2, <1>3 DEF Next

LEMMA InvAlways == Spec => []Inv
<1>1. Init => Inv
  BY InvInit
<1>2. Inv /\ [Next]_vars => Inv'
  BY InvNext
<1> QED BY <1>1, <1>2, PTL DEF Spec

\* The variables of the call-back and of the task keep their types, the
\* queues their size and the batches theirs.
THEOREM TypeCorrect == Spec => []TypeOK
<1>1. Inv => TypeOK
  BY DEF Inv
<1> QED BY <1>1, InvAlways, PTL

\* Every sender has a queue of its own, and no PDU of another ever enters
\* it.
THEOREM QueuesOwned == Spec => []OwnQueue
<1>1. Inv => OwnQueue
  BY DEF Inv, Owned, OwnQueue
<1> QED BY <1>1, InvAlways, PTL

----------------------------------------------------------------------------
\* What the task sleeps on.

\* The task need not come back to a consumer: what it left is little enough,
\* or the call-back is about to wake it.
Asleep(i) ==
    \/ Len(consumers[i].privateQueue) <= Unserved
    \/ scanPc = "signal" /\ scanIndex = i

\* A batch being taken: what it has and what is left fitted into the queue,
\* or too little is left to matter.
BeingServed(i) ==
    \/ Len(pdus) + Len(consumers[i].privateQueue) <= CONSUMER_PRIVATE_QUEUE_SIZE
    \/ Len(consumers[i].privateQueue) < NO_PDU_IN_QUEUE_FOR_PROCESS
    \/ scanPc = "signal" /\ scanIndex = i

Served(i) == \/ authPc = "wait"
             \/ i < authIndex
             \/ i = authIndex /\ authPc = "authorize"

SleepInv ==
    ~ authorizeEvent =>
        \A i \in Consumer :
            /\ Served(i) => Asleep(i)
            /\ authPc = "receive" /\ authIndex = i => BeingServed(i)

LEMMA UnservedBounds ==
    /\ Unserved \in Nat
    /\ CONSUMER_PRIVATE_QUEUE_SIZE - MAX_PDU_PROCESS_PER_CONSUMER <= Unserved
    /\ \A n \in Nat : n < NO_PDU_IN_QUEUE_FOR_PROCESS => n <= Unserved
BY SizeAssumption DEF Unserved

LEMMA QueueLen ==
    ASSUME Inv, NEW i \in Consumer
    PROVE  /\ consumers[i].privateQueue \in Seq(ScanPdu)
           /\ Len(consumers[i].privateQueue) \in Nat
           /\ Len(consumers[i].privateQueue) <= CONSUMER_PRIVATE_QUEUE_SIZE
           /\ pdus \in Seq(ScanPdu) /\ Len(pdus) \in Nat
<1>1. consumers[i].privateQueue \in Seq(ScanPdu) /\ pdus \in Seq(ScanPdu)
  BY DEF Inv, TypeOK, ConsumerType
<1> QED BY <1>1, LenProperties DEF Inv, TypeOK

\* A step that neither fills a queue, nor serves one, nor is the wake-up.
LEMMA SleepFrame ==
    ASSUME Inv, SleepInv, scanPc # "signal",
           UNCHANGED <<authorizeEvent, authPc, authIndex, pdus>>,
           \A i \in Consumer :
               Len(consumers'[i].privateQueue) = Len(consumers[i].privateQueue)
    PROVE  SleepInv'
BY DEF SleepInv, Served, Asleep, BeingServed, Unserved

LEMMA SleepScanComplete ==
    ASSUME Inv, SleepInv, NEW s \in Sender, ScanComplete(s)
    PROVE  SleepInv'
<1> DEFINE i == ConsumerIndexForAddr(s)
<1>1. \/ consumers' = consumers
      \/ consumers' = [consumers EXCEPT ![i].consumer_addr = s,
                                        ![i].active = TRUE]
  BY DEF ScanComplete
<1>2. \A j \in Consumer :
          consumers'[j].privateQueue = consumers[j].privateQueue
  <2> HIDE DEF i
  <2>1. CASE consumers' = consumers
    BY <2>1
  <2>2. CASE consumers' = [consumers EXCEPT ![i].consumer_addr = s,
                                            ![i].active = TRUE]
    <3>1. consumers' = [consumers EXCEPT ![i] =
              [consumers[i] EXCEPT !.consumer_addr = s, !.active = TRUE]]
      BY <2>2
    <3>2. consumers \in [Consumer -> ConsumerType]
      BY DEF Inv, TypeOK
    <3> QED BY <3>1, <3>2 DEF ConsumerType
  <2> QED BY <1>1, <2>1, <2>2
<1> QED BY <1>2, SleepFrame DEF ScanComplete, authVars

LEMMA SleepScanMiss ==
    ASSUME Inv, SleepInv, NEW s \in Sender, ScanMiss(s)
    PROVE  SleepInv'
BY DEF ScanMiss, authVars, SleepInv, Served, Asleep, BeingServed, Unserved

\* After the send the call-back is about to look at the queue it filled, and
\* the others are as they were.
LEMMA SleepScanSend ==
    ASSUME Inv, SleepInv, ScanSend \/ ScanSendTimeout
    PROVE  SleepInv'
<1>1. /\ scanPc = "send" /\ scanPc' = "signal" /\ scanIndex' = scanIndex
      /\ UNCHANGED <<authPc, authIndex, pdus, authorizeEvent>>
  BY DEF ScanSend, ScanSendTimeout, authVars
<1>2. \A j \in Consumer : j # scanIndex =>
          consumers'[j].privateQueue = consumers[j].privateQueue
  BY SendEffect, TimeoutEffect
<1> QED BY <1>1, <1>2 DEF SleepInv, Served, Asleep, BeingServed, Unserved

\* The wake-up: if there is none, the queue holds less than the threshold.
LEMMA SleepScanSignal ==
    ASSUME Inv, SleepInv, ScanSignal
    PROVE  SleepInv'
<1>1. /\ scanPc' = "idle"
      /\ UNCHANGED <<scanIndex, authPc, authIndex, pdus, consumers>>
      /\ ~ authorizeEvent' =>
             /\ ~ authorizeEvent
             /\ ~ (Len(consumers[scanIndex].privateQueue)
                       >= NO_PDU_IN_QUEUE_FOR_PROCESS)
      /\ scanIndex \in Consumer
  BY DEF ScanSignal, authVars, Inv, TypeOK
<1>2. ~ authorizeEvent' =>
          /\ Len(consumers[scanIndex].privateQueue) < NO_PDU_IN_QUEUE_FOR_PROCESS
          /\ Len(consumers[scanIndex].privateQueue) <= Unserved
  BY <1>1, QueueLen, UnservedBounds, SizeAssumption
<1> QED BY <1>1, <1>2 DEF SleepInv, Served, Asleep, BeingServed, Unserved

LEMMA SleepAuthWait ==
    ASSUME Inv, SleepInv, AuthWait
    PROVE  SleepInv'
<1>1. \A i \in Consumer : ~ (i < 0)
  BY DEF Consumer
<1> QED BY <1>1 DEF AuthWait, SleepInv, Served

LEMMA SleepAuthNext ==
    ASSUME Inv, SleepInv, AuthNext
    PROVE  SleepInv'
<1> DEFINE k == authIndex
<1>1. /\ k \in Consumer /\ pdus = << >> /\ authPc = "next"
      /\ UNCHANGED <<scanPc, scanIndex, pdus, consumers, authorizeEvent>>
      /\ \/ consumers[k].active /\ authPc' = "receive" /\ authIndex' = k
         \/ ~ consumers[k].active /\ authPc' = "next" /\ authIndex' = k + 1
  <2>1. k \in Consumer /\ pdus = << >>
    BY ConsumerInt DEF AuthNext, Inv, TypeOK, Owned, Consumer
  <2> QED BY <2>1 DEF AuthNext, scanVars
<1>2. CASE consumers[k].active
  <2>1. Len(pdus) + Len(consumers[k].privateQueue)
            <= CONSUMER_PRIVATE_QUEUE_SIZE
    BY <1>1, QueueLen, EmptySeq
  <2> QED BY <1>1, <1>2, <2>1
          DEF SleepInv, Served, Asleep, BeingServed, Unserved
<1>3. CASE ~ consumers[k].active
  <2>1. Len(consumers[k].privateQueue) <= Unserved
    BY <1>1, <1>3, UnservedBounds, EmptySeq DEF Inv, Owned
  <2>2. \A i \in Consumer : i < k + 1 => i < k \/ i = k
    BY <1>1 DEF Consumer
  <2> QED BY <1>1, <1>3, <2>1, <2>2
          DEF SleepInv, Served, Asleep, BeingServed, Unserved
<1> QED BY <1>2, <1>3

LEMMA SleepAuthRoundDone ==
    ASSUME Inv, SleepInv, AuthRoundDone
    PROVE  SleepInv'
<1>1. \A i \in Consumer : i < authIndex
  BY ConsumerInt DEF AuthRoundDone, Consumer
<1> QED BY <1>1 DEF AuthRoundDone, scanVars, SleepInv, Served, Asleep,
                    BeingServed, Unserved

LEMMA SleepAuthReceive ==
    ASSUME Inv, SleepInv, AuthReceive
    PROVE  SleepInv'
<1> DEFINE k == authIndex
           q == consumers[k].privateQueue
<1>1. /\ k \in Consumer /\ q \in Seq(ScanPdu) /\ q # << >>
      /\ Head(q) \in ScanPdu /\ pdus' = Append(pdus, Head(q))
      /\ consumers'[k].privateQueue = Tail(q)
      /\ \A j \in Consumer : j # k =>
             consumers'[j].privateQueue = consumers[j].privateQueue
  BY ReceiveEffect
<1>2. /\ Len(q) \in Nat /\ Len(Tail(q)) = Len(q) - 1
      /\ Len(pdus) \in Nat /\ Len(pdus') = Len(pdus) + 1
  BY <1>1, QueueLen, HeadTailProperties, AppendProperties, LenProperties
<1>3. /\ authPc = "receive"
      /\ UNCHANGED <<scanPc, scanIndex, authPc, authIndex, authorizeEvent>>
  BY DEF AuthReceive, scanVars
<1>4. ~ authorizeEvent => BeingServed(k)
  BY <1>1, <1>3 DEF SleepInv
<1>5. ~ authorizeEvent' => BeingServed(k)'
  <2>1. Len(pdus') + Len(Tail(q)) = Len(pdus) + Len(q)
    <3>1. \A m, n \in Nat : (m + 1) + (n - 1) = m + n
      OBVIOUS
    <3> HIDE DEF q
    <3> QED BY <1>2, <3>1
  <2>2. Len(q) < NO_PDU_IN_QUEUE_FOR_PROCESS =>
            Len(Tail(q)) < NO_PDU_IN_QUEUE_FOR_PROCESS
    <3> HIDE DEF q
    <3> QED BY <1>2, SizeAssumption
  <2> QED BY <1>1, <1>3, <1>4, <2>1, <2>2 DEF BeingServed
<1>6. ASSUME NEW j \in Consumer, ~ authorizeEvent', Served(j)'
      PROVE  Asleep(j)'
  <2>1. j < k /\ j # k
    BY <1>1, <1>3, <1>6 DEF Served, Consumer
  <2> QED BY <1>1, <1>3, <1>6, <2>1 DEF SleepInv, Served, Asleep, Unserved
<1> QED BY <1>3, <1>5, <1>6 DEF SleepInv

LEMMA SleepAuthReceived ==
    ASSUME Inv, SleepInv, AuthReceived
    PROVE  SleepInv'
<1> DEFINE k == authIndex
           q == consumers[k].privateQueue
<1>1. /\ k \in Consumer /\ authPc = "receive" /\ authPc' = "authorize"
      /\ Len(pdus) = MAX_PDU_PROCESS_PER_CONSUMER \/ q = << >>
      /\ UNCHANGED <<scanPc, scanIndex, authIndex, consumers, authorizeEvent>>
  BY DEF AuthReceived, scanVars, Inv, TypeOK
<1>2. ~ authorizeEvent => Asleep(k)
  <2> SUFFICES ASSUME ~ authorizeEvent PROVE Asleep(k)
    OBVIOUS
  <2>1. BeingServed(k)
    BY <1>1 DEF SleepInv
  <2>2. Len(q) \in Nat /\ Len(pdus) \in Nat
    BY <1>1, QueueLen
  <2>3. CASE Len(pdus) + Len(q) <= CONSUMER_PRIVATE_QUEUE_SIZE
    <3>1. Len(q) <= Unserved
      <4>1. CASE q = << >>
        BY <4>1, UnservedBounds, EmptySeq
      <4>2. CASE Len(pdus) = MAX_PDU_PROCESS_PER_CONSUMER
        BY <2>2, <2>3, <4>2, UnservedBounds, SizeAssumption
      <4> QED BY <1>1, <4>1, <4>2
    <3> QED BY <3>1 DEF Asleep
  <2>4. CASE Len(q) < NO_PDU_IN_QUEUE_FOR_PROCESS
    BY <2>2, <2>4, UnservedBounds DEF Asleep
  <2>5. CASE scanPc = "signal" /\ scanIndex = k
    BY <2>5 DEF Asleep
  <2> QED BY <2>1, <2>3, <2>4, <2>5 DEF BeingServed
<1> QED BY <1>1, <1>2 DEF SleepInv, Served, Asleep, Unserved

LEMMA SleepAuthPdu ==
    ASSUME Inv, SleepInv, AuthPdu
    PROVE  SleepInv'
BY DEF AuthPdu, scanVars, SleepInv, Served, Asleep, BeingServed, Unserved

LEMMA SleepAuthSave ==
    ASSUME Inv, SleepInv, AuthSave
    PROVE  SleepInv'
<1>1. /\ authIndex \in Consumer /\ authPc = "authorize" /\ authPc' = "next"
      /\ authIndex' = authIndex + 1
      /\ UNCHANGED <<scanPc, scanIndex, authorizeEvent>>
  BY DEF AuthSave, scanVars, Inv, TypeOK
<1>2. \A j \in Consumer :
          /\ consumers'[j].privateQueue = consumers[j].privateQueue
          /\ j < authIndex + 1 => j < authIndex \/ j = authIndex
  BY <1>1, SaveEffect DEF Consumer
<1> QED BY <1>1, <1>2 DEF SleepInv, Served, Asleep, Unserved

LEMMA SleepNext == Inv /\ SleepInv /\ [Next]_vars => SleepInv'
<1> SUFFICES ASSUME Inv, SleepInv, [Next]_vars PROVE SleepInv'
  OBVIOUS
<1>1. CASE Scan
  BY <1>1, SleepScanComplete, SleepScanMiss, SleepScanSend, SleepScanSignal
     DEF Scan
<1>2. CASE AdvAuthorizeMain
  BY <1>2, SleepAuthWait, SleepAuthNext, SleepAuthRoundDone, SleepAuthReceive,
     SleepAuthReceived, SleepAuthPdu, SleepAuthSave DEF AdvAuthorizeMain
<1>3. CASE UNCHANGED vars
  BY <1>3 DEF vars, scanVars, authVars, SleepInv, Served, Asleep, BeingServed,
              Unserved
<1> QED BY <1>1, <1>2, <1>3 DEF Next

\* The task never sleeps on more than one batch leaves of a full queue,
\* unless the call-back is about to wake it, whatever the sizes of queue,
\* batch and threshold.
THEOREM SleepBounded == Spec => []SleepBound
<1>1. Init => SleepInv
  <2> SUFFICES ASSUME Init PROVE SleepInv
    OBVIOUS
  <2>1. \A i \in Consumer : Len(consumers[i].privateQueue) <= Unserved
    BY UnservedBounds, EmptySeq DEF Init
  <2> QED BY <2>1 DEF Init, SleepInv, Asleep
<1>2. Inv /\ SleepInv /\ [Next]_vars => SleepInv'
  BY SleepNext
<1>3. SleepInv => SleepBound
  BY DEF SleepInv, SleepBound, Served, Asleep
<1> QED BY <1>1, <1>2, <1>3, InvAlways, PTL DEF Spec

----------------------------------------------------------------------------
\* What the batches are.

\* Which of the first k PDUs had a successor in time, given which of the
\* first k - 1 had.
Extended(q, k, upto) ==
    IF k < 2 THEN << >>
    ELSE IF InTime(q[k - 1], q[k]) THEN Append(upto, q[k - 1]) ELSE upto

\* InTimeUpto is a function that satisfies its recursive definition.  The
\* functions on 0 .. n exist for each n: one step extends that for n - 1.
LEMMA InTimeUptoDef ==
    ASSUME NEW q, NEW n \in Nat, Len(q) = n
    PROVE  /\ DOMAIN InTimeUpto(q) = 0 .. n
           /\ \A k \in 0 .. n :
                  InTimeUpto(q)[k] = Extended(q, k, InTimeUpto(q)[k - 1])
<1> DEFINE Solution(m, g) == g = [k \in 0 .. m |-> Extended(q, k, g[k - 1])]
           Bad == {m \in 0 .. n : ~ \E g : Solution(m, g)}
<1>1. Bad = {}
  <2> SUFFICES ASSUME Bad # {} PROVE FALSE
    OBVIOUS
  <2>1. Bad \subseteq Int /\ IsFiniteSet(Bad)
    <3>1. IsFiniteSet(0 .. n)
      BY FS_Interval, 0 \in Int, n \in Int
    <3> QED BY <3>1, FS_Subset
  <2> DEFINE m == Min(Bad)
  <2>2. m \in Bad /\ \A y \in Bad : m <= y
    BY <2>1, LeastElement
  <2>3. m \in 0 .. n /\ ~ \E g : Solution(m, g)
    BY <2>2
  <2> HIDE DEF m
  <2>4. CASE m = 0
    <3> DEFINE h == [k \in 0 .. 0 |-> << >>]
    <3>1. \A k \in 0 .. 0 : Extended(q, k, h[k - 1]) = << >>
      BY DEF Extended
    <3>2. h = [k \in 0 .. 0 |-> Extended(q, k, h[k - 1])]
      BY <3>1
    <3> QED BY <2>3, <2>4, <3>2
  <2>5. CASE m # 0
    <3>1. m - 1 \in 0 .. n /\ m - 1 \notin Bad
      BY <2>2, <2>3, <2>5
    <3>2. PICK g : g = [k \in 0 .. m - 1 |-> Extended(q, k, g[k - 1])]
      BY <3>1
    <3> DEFINE h == [k \in 0 .. m |-> IF k < m THEN g[k]
                                      ELSE Extended(q, m, g[m - 1])]
    <3>3. ASSUME NEW k \in 0 .. m
          PROVE  h[k] = Extended(q, k, h[k - 1])
      <4>1. CASE k = 0
        <5>1. h[k] = g[k] /\ k \in 0 .. m - 1
          BY <2>3, <2>5, <4>1
        <5>2. g[k] = Extended(q, k, g[k - 1])
          BY <3>2, <5>1
        <5>3. Extended(q, k, g[k - 1]) = << >> /\ Extended(q, k, h[k - 1]) = << >>
          BY <4>1 DEF Extended
        <5> QED BY <5>1, <5>2, <5>3
      <4>2. CASE k > 0 /\ k < m
        <5>1. h[k] = g[k] /\ k \in 0 .. m - 1 /\ k - 1 \in 0 .. m /\ k - 1 < m
          BY <2>3, <4>2
        <5>2. g[k] = Extended(q, k, g[k - 1])
          BY <3>2, <5>1
        <5>3. h[k - 1] = g[k - 1]
          BY <5>1
        <5> QED BY <5>1, <5>2, <5>3
      <4>3. CASE k = m
        <5>1. h[k] = Extended(q, m, g[m - 1])
          BY <2>3, <4>3
        <5>2. h[m - 1] = g[m - 1]
          BY <2>3, <2>5
        <5> HIDE DEF h
        <5> QED BY <4>3, <5>1, <5>2
      <4> QED BY <2>3, <4>1, <4>2, <4>3
    <3>4. h = [k \in 0 .. m |-> Extended(q, k, h[k - 1])]
      <4>1. h = [k \in 0 .. m |-> h[k]]
        OBVIOUS
      <4> HIDE DEF h
      <4> QED BY <3>3, <4>1
    <3>5. \E g1 : Solution(m, g1)
      <4> HIDE DEF h
      <4> QED BY <3>4
    <3> QED BY <2>3, <3>5
  <2> QED BY <2>4, <2>5
<1>2. PICK f : f = [k \in 0 .. n |-> Extended(q, k, f[k - 1])]
  BY <1>1
<1>3. InTimeUpto(q) = CHOOSE f1 : f1 = [k \in 0 .. n |->
                                           Extended(q, k, f1[k - 1])]
  BY DEF InTimeUpto, Extended
<1>4. InTimeUpto(q) = [k \in 0 .. n |-> Extended(q, k, InTimeUpto(q)[k - 1])]
  BY <1>2, <1>3
<1> HIDE DEF Bad
<1> QED BY <1>4

\* What is said of the first k PDUs does not change when one is added.
LEMMA InTimeUptoAppend ==
    ASSUME NEW q \in Seq(ScanPdu), NEW x \in ScanPdu, NEW k \in 0 .. Len(q)
    PROVE  InTimeUpto(Append(q, x))[k] = InTimeUpto(q)[k]
<1> DEFINE n == Len(q)
           r == Append(q, x)
           Bad == {m \in 0 .. n : InTimeUpto(r)[m] # InTimeUpto(q)[m]}
<1>1. n \in Nat /\ Len(r) = n + 1 /\ \A m \in 1 .. n : r[m] = q[m]
  BY LenProperties, AppendProperties
<1>2. SUFFICES ASSUME Bad # {} PROVE FALSE
  OBVIOUS
<1>3. Bad \subseteq Int /\ IsFiniteSet(Bad)
  <2>1. IsFiniteSet(0 .. n)
    BY <1>1, FS_Interval, 0 \in Int, n \in Int
  <2> QED BY <2>1, FS_Subset
<1> DEFINE m == Min(Bad)
<1>4. m \in Bad /\ \A y \in Bad : m <= y
  BY <1>2, <1>3, LeastElement
<1>5. m \in 0 .. n /\ InTimeUpto(r)[m] # InTimeUpto(q)[m]
  BY <1>4
<1>6. m - 1 \in 0 .. n => InTimeUpto(r)[m - 1] = InTimeUpto(q)[m - 1]
  <2> HIDE DEF m
  <2> QED BY <1>4, <1>5
<1> HIDE DEF m, r, n
<1>7. /\ InTimeUpto(r)[m] = Extended(r, m, InTimeUpto(r)[m - 1])
      /\ InTimeUpto(q)[m] = Extended(q, m, InTimeUpto(q)[m - 1])
  <2>1. m \in 0 .. n + 1 /\ n + 1 \in Nat
    BY <1>1, <1>5
  <2>2. Len(q) = n
    BY DEF n
  <2> QED BY <1>1, <1>5, <2>1, <2>2, InTimeUptoDef
<1>8. CASE m < 2
  BY <1>5, <1>7, <1>8 DEF Extended
<1>9. CASE m >= 2
  <2>1. m - 1 \in 0 .. n /\ m - 1 \in 1 .. n /\ m \in 1 .. n
    BY <1>1, <1>5, <1>9
  <2>2. r[m] = q[m] /\ r[m - 1] = q[m - 1]
    BY <1>1, <2>1
  <2> QED BY <1>5, <1>6, <1>7, <2>1, <2>2 DEF Extended
<1> QED BY <1>1, <1>5, <1>8, <1>9

\* A sequence of PDUs is cut in three: c that were compared, a batch, and a
\* queue.
Cut(acc, c, batch, queue) ==
    /\ c \in Nat
    /\ Len(acc) = c + Len(batch) + Len(queue)
    /\ \A k \in 1 .. Len(batch) : batch[k] = acc[c + k]
    /\ \A k \in 1 .. Len(queue) : queue[k] = acc[c + Len(batch) + k]

LEMMA CutSend ==
    ASSUME NEW acc \in Seq(ScanPdu), NEW c, NEW b \in Seq(ScanPdu),
           NEW q \in Seq(ScanPdu), NEW x \in ScanPdu, Cut(acc, c, b, q)
    PROVE  Cut(Append(acc, x), c, b, Append(q, x))
<1>1. /\ Len(acc) \in Nat /\ Len(b) \in Nat /\ Len(q) \in Nat /\ c \in Nat
      /\ Len(acc) = c + Len(b) + Len(q)
  BY LenProperties DEF Cut
<1>2. /\ Len(Append(acc, x)) = Len(acc) + 1 /\ Len(Append(q, x)) = Len(q) + 1
      /\ \A k \in 1 .. Len(acc) : Append(acc, x)[k] = acc[k]
      /\ Append(acc, x)[Len(acc) + 1] = x
      /\ \A k \in 1 .. Len(q) : Append(q, x)[k] = q[k]
      /\ Append(q, x)[Len(q) + 1] = x
  BY AppendProperties
<1> DEFINE r == Append(acc, x)
           s == Append(q, x)
<1> HIDE DEF r, s
<1>3. ASSUME NEW k \in 1 .. Len(b) PROVE b[k] = r[c + k]
  <2>1. c + k \in 1 .. Len(acc)
    BY <1>1
  <2> QED BY <1>2, <2>1 DEF Cut, r
<1>4. ASSUME NEW k \in 1 .. Len(s) PROVE s[k] = r[c + Len(b) + k]
  <2>1. CASE k = Len(q) + 1
    <3>1. c + Len(b) + k = Len(acc) + 1
      BY <1>1, <2>1
    <3> QED BY <1>2, <2>1, <3>1 DEF r, s
  <2>2. CASE k # Len(q) + 1
    <3>1. Len(s) = Len(q) + 1
      BY <1>2 DEF s
    <3>2. k \in 1 .. Len(q) /\ c + Len(b) + k \in 1 .. Len(acc)
      BY <1>1, <2>2, <3>1
    <3> QED BY <1>2, <3>2 DEF Cut, r, s
  <2> QED BY <2>1, <2>2
<1>5. Len(r) = c + Len(b) + Len(s)
  <2>1. Len(r) = Len(acc) + 1 /\ Len(s) = Len(q) + 1
    BY <1>2 DEF r, s
  <2> QED BY <1>1, <2>1
<1>6. Cut(r, c, b, s)
  BY <1>1, <1>3, <1>4, <1>5 DEF Cut
<1> QED BY <1>6 DEF r, s

LEMMA CutReceive ==
    ASSUME NEW acc \in Seq(ScanPdu), NEW c, NEW b \in Seq(ScanPdu),
           NEW q \in Seq(ScanPdu), q # << >>, Cut(acc, c, b, q)
    PROVE  Cut(acc, c, Append(b, Head(q)), Tail(q))
<1>1. /\ Len(acc) \in Nat /\ Len(b) \in Nat /\ Len(q) \in Nat /\ c \in Nat
      /\ Len(acc) = c + Len(b) + Len(q)
  BY LenProperties DEF Cut
<1>2. /\ Len(q) > 0 /\ Head(q) = q[1] /\ Head(q) \in ScanPdu
      /\ Len(Tail(q)) = Len(q) - 1
      /\ \A k \in 1 .. Len(Tail(q)) : Tail(q)[k] = q[k + 1]
  BY <1>1, HeadTailProperties, EmptySeq
<1>3. /\ Len(Append(b, Head(q))) = Len(b) + 1
      /\ \A k \in 1 .. Len(b) : Append(b, Head(q))[k] = b[k]
      /\ Append(b, Head(q))[Len(b) + 1] = Head(q)
  BY <1>2, AppendProperties
<1> DEFINE s == Append(b, Head(q))
           t == Tail(q)
<1> HIDE DEF s, t
<1>4. /\ Len(s) = Len(b) + 1 /\ Len(t) = Len(q) - 1
      /\ Len(acc) = c + Len(s) + Len(t)
  <2>1. Len(s) = Len(b) + 1 /\ Len(t) = Len(q) - 1
    BY <1>2, <1>3 DEF s, t
  <2> QED BY <1>1, <2>1
<1>5. ASSUME NEW k \in 1 .. Len(s) PROVE s[k] = acc[c + k]
  <2>1. CASE k = Len(b) + 1
    <3>1. q[1] = acc[c + Len(b) + 1] /\ c + k = c + Len(b) + 1
      BY <1>1, <1>2, <2>1 DEF Cut
    <3> QED BY <1>2, <1>3, <2>1, <3>1 DEF s
  <2>2. CASE k # Len(b) + 1
    <3>1. k \in 1 .. Len(b)
      BY <1>1, <1>4, <2>2
    <3> QED BY <1>3, <3>1 DEF Cut, s
  <2> QED BY <2>1, <2>2
<1>6. ASSUME NEW k \in 1 .. Len(t) PROVE t[k] = acc[c + Len(s) + k]
  <2>1. k + 1 \in 1 .. Len(q) /\ c + Len(s) + k = c + Len(b) + (k + 1)
    BY <1>1, <1>4
  <2>2. t[k] = q[k + 1]
    BY <1>2 DEF t
  <2> QED BY <2>1, <2>2 DEF Cut
<1>7. Cut(acc, c, s, t)
  BY <1>1, <1>4, <1>5, <1>6 DEF Cut
<1> QED BY <1>7 DEF s, t

LEMMA CutTake ==
    ASSUME NEW acc \in Seq(ScanPdu), NEW c, NEW b \in Seq(ScanPdu),
           NEW q \in Seq(ScanPdu), b # << >>, Cut(acc, c, b, q)
    PROVE  /\ Cut(acc, c + 1, Tail(b), q)
           /\ Head(b) = acc[c + 1]
           /\ c + 1 \in 1 .. Len(acc)
<1>1. /\ Len(acc) \in Nat /\ Len(b) \in Nat /\ Len(q) \in Nat /\ c \in Nat
      /\ Len(acc) = c + Len(b) + Len(q)
  BY LenProperties DEF Cut
<1>2. /\ Len(b) > 0 /\ Head(b) = b[1]
      /\ Len(Tail(b)) = Len(b) - 1
      /\ \A k \in 1 .. Len(Tail(b)) : Tail(b)[k] = b[k + 1]
  BY <1>1, HeadTailProperties, EmptySeq
<1> DEFINE t == Tail(b)
<1> HIDE DEF t
<1>3. Len(t) = Len(b) - 1 /\ Len(acc) = (c + 1) + Len(t) + Len(q)
  <2>1. Len(t) = Len(b) - 1
    BY <1>2 DEF t
  <2> QED BY <1>1, <2>1
<1>4. ASSUME NEW k \in 1 .. Len(t) PROVE t[k] = acc[(c + 1) + k]
  <2>1. k + 1 \in 1 .. Len(b) /\ (c + 1) + k = c + (k + 1)
    BY <1>1, <1>3
  <2>2. t[k] = b[k + 1]
    BY <1>2 DEF t
  <2> QED BY <2>1, <2>2 DEF Cut
<1>5. ASSUME NEW k \in 1 .. Len(q) PROVE q[k] = acc[(c + 1) + Len(t) + k]
  <2>1. (c + 1) + Len(t) + k = c + Len(b) + k
    BY <1>1, <1>3
  <2> QED BY <2>1 DEF Cut
<1>6. Cut(acc, c + 1, t, q)
  BY <1>1, <1>3, <1>4, <1>5 DEF Cut
<1>7. b[1] = acc[c + 1] /\ c + 1 \in 1 .. Len(acc)
  BY <1>1, <1>2 DEF Cut
<1> QED BY <1>2, <1>6, <1>7 DEF t

\* What each consumer was given is cut in what was compared, the batch and
\* the queue; the PDU in hand is the last that was compared, and what was
\* passed on follows from what was compared.  A batch goes on only when
\* there is a PDU in hand.
BatchInv(i) ==
    /\ Cut(accepted[i], Compared(i), Batch(i), consumers[i].privateQueue)
    /\ InHand(i) = IF Compared(i) = 0 THEN NoPdu ELSE accepted[i][Compared(i)]
    /\ authorized[i] = PassedOn(i)
    /\ authPc = "authorize" /\ authIndex = i /\ Compared(i) = 0 => pdus = << >>

\* A step that leaves one consumer's PDUs where they are.
LEMMA BatchFrame ==
    ASSUME NEW i \in Consumer, BatchInv(i),
           accepted'[i] = accepted[i], authorized'[i] = authorized[i],
           consumers'[i].privateQueue = consumers[i].privateQueue,
           Batch(i)' = Batch(i), InHand(i)' = InHand(i),
           authPc' = "authorize" /\ authIndex' = i =>
               \/ Batch(i) = << >>
               \/ authPc = "authorize" /\ authIndex = i
    PROVE  BatchInv(i)'
<1>1. Compared(i)' = Compared(i)
  BY DEF Compared
<1>2. PassedOn(i)' = PassedOn(i)
  BY <1>1 DEF PassedOn
<1>3. authPc' = "authorize" /\ authIndex' = i /\ Compared(i) = 0 =>
          pdus' = << >>
  BY DEF BatchInv, Batch
<1> QED BY <1>1, <1>2, <1>3 DEF BatchInv

\* The batch of a consumer is one of PDUs it was given.
LEMMA BatchTypes ==
    ASSUME Inv, NEW i \in Consumer
    PROVE  /\ accepted[i] \in Seq(ScanPdu) /\ Batch(i) \in Seq(ScanPdu)
           /\ consumers[i].privateQueue \in Seq(ScanPdu)
<1>1. << >> \in Seq(ScanPdu)
  BY EmptySeq
<1> QED BY <1>1, QueueLen DEF Inv, TypeOK, Batch

LEMMA ComparedIs ==
    ASSUME Inv, NEW i \in Consumer, NEW c,
           Cut(accepted[i], c, Batch(i), consumers[i].privateQueue)
    PROVE  Compared(i) = c
<1>1. /\ Len(accepted[i]) \in Nat /\ Len(Batch(i)) \in Nat
      /\ Len(consumers[i].privateQueue) \in Nat
  BY BatchTypes, LenProperties
<1> QED BY <1>1 DEF Compared, Cut

LEMMA BatchScanComplete ==
    ASSUME Inv, NEW s \in Sender, ScanComplete(s) \/ ScanMiss(s),
           NEW i \in Consumer, BatchInv(i)
    PROVE  BatchInv(i)'
<1> DEFINE j == ConsumerIndexForAddr(s)
<1>1. /\ \/ consumers' = consumers
         \/ consumers' = [consumers EXCEPT ![j].consumer_addr = s,
                                           ![j].active = TRUE]
      /\ UNCHANGED <<authPc, authIndex, pdus, lastScanPdu, accepted, authorized>>
  BY DEF ScanComplete, ScanMiss, authVars
<1> HIDE DEF j
<1>2. /\ consumers'[i].privateQueue = consumers[i].privateQueue
      /\ consumers'[i].last_processed_pdu = consumers[i].last_processed_pdu
  <2>1. CASE consumers' = consumers
    BY <2>1
  <2>2. CASE consumers' = [consumers EXCEPT ![j].consumer_addr = s,
                                            ![j].active = TRUE]
    <3>1. consumers' = [consumers EXCEPT ![j] =
              [consumers[j] EXCEPT !.consumer_addr = s, !.active = TRUE]]
      BY <2>2
    <3>2. consumers \in [Consumer -> ConsumerType]
      BY DEF Inv, TypeOK
    <3> QED BY <3>1, <3>2 DEF ConsumerType
  <2> QED BY <1>1, <2>1, <2>2
<1>3. Batch(i)' = Batch(i) /\ InHand(i)' = InHand(i)
  BY <1>1, <1>2 DEF Batch, InHand
<1> QED BY <1>1, <1>2, <1>3, BatchFrame DEF Batch

\* A PDU that enters the queue is added to the past as well.
LEMMA BatchScanSend ==
    ASSUME Inv, ScanSend, NEW i \in Consumer, BatchInv(i)
    PROVE  BatchInv(i)'
<1> DEFINE c == Compared(i)
           acc == accepted[i]
           q == consumers[i].privateQueue
<1>0. UNCHANGED <<authPc, authIndex, pdus, lastScanPdu, authorized>>
  BY DEF ScanSend, authVars
<1>1. /\ Batch(i)' = Batch(i)
      /\ consumers'[i].last_processed_pdu = consumers[i].last_processed_pdu
      /\ InHand(i)' = InHand(i)
  BY <1>0, SendEffect DEF Batch, InHand
<1>2. CASE i # scanIndex
  BY <1>0, <1>1, <1>2, SendEffect, BatchFrame DEF Batch, Inv, TypeOK
<1>3. CASE i = scanIndex
  <2>1. /\ scanPdu \in ScanPdu
        /\ accepted'[i] = Append(acc, scanPdu)
        /\ consumers'[i].privateQueue = Append(q, scanPdu)
    BY <1>3, SendEffect DEF Inv, TypeOK
  <2>2. acc \in Seq(ScanPdu) /\ q \in Seq(ScanPdu) /\ Batch(i) \in Seq(ScanPdu)
    BY BatchTypes
  <2>3. Cut(acc, c, Batch(i), q)
    BY DEF BatchInv
  <2>4. Cut(Append(acc, scanPdu), c, Batch(i), Append(q, scanPdu))
    BY <2>1, <2>2, <2>3, CutSend
  <2>6. Compared(i)' = c
    <3>1. c \in Nat /\ c + Len(Batch(i)) + Len(q) = Len(acc)
      BY <2>3 DEF Cut
    <3>2. /\ Len(accepted'[i]) = Len(acc) + 1 /\ Len(acc) \in Nat
          /\ Len(consumers'[i].privateQueue) = Len(q) + 1 /\ Len(q) \in Nat
          /\ Len(Batch(i)) \in Nat
      BY <2>1, <2>2, AppendProperties, LenProperties
    <3>3. \A k, l, m, n \in Nat :
              k + m + l = n => (n + 1) - (l + 1) - m = k
      OBVIOUS
    <3>4. Compared(i)' = Len(accepted'[i]) - Len(consumers'[i].privateQueue)
                             - Len(Batch(i))
      BY <1>1 DEF Compared
    <3> HIDE DEF c, acc, q
    <3> QED BY <3>1, <3>2, <3>3, <3>4
  <2>7. c \in 0 .. Len(acc)
    <3>1. Len(Batch(i)) \in Nat /\ Len(q) \in Nat
      BY <2>2, LenProperties
    <3> HIDE DEF c, acc, q
    <3> QED BY <2>3, <3>1 DEF Cut
  <2>8. PassedOn(i)' = PassedOn(i)
    <3>1. InTimeUpto(Append(acc, scanPdu))[c] = InTimeUpto(acc)[c]
      BY <2>1, <2>2, <2>7, InTimeUptoAppend
    <3>2. PassedOn(i)' = InTimeUpto(accepted'[i])[Compared(i)']
      BY DEF PassedOn
    <3> QED BY <2>1, <2>6, <3>1, <3>2 DEF PassedOn
  <2>9. c # 0 => accepted'[i][c] = acc[c]
    BY <2>1, <2>2, <2>7, AppendProperties, LenProperties
  <2> QED BY <1>0, <1>1, <2>4, <2>1, <2>6, <2>8, <2>9 DEF BatchInv
<1> QED BY <1>2, <1>3

LEMMA BatchSendTimeout ==
    ASSUME Inv, ScanSendTimeout \/ ScanSignal, NEW i \in Consumer, BatchInv(i)
    PROVE  BatchInv(i)'
<1>1. UNCHANGED <<authPc, authIndex, pdus, lastScanPdu, accepted, authorized>>
  BY DEF ScanSendTimeout, ScanSignal, authVars
<1>2. /\ consumers'[i].privateQueue = consumers[i].privateQueue
      /\ consumers'[i].last_processed_pdu = consumers[i].last_processed_pdu
  BY TimeoutEffect DEF ScanSignal
<1>3. Batch(i)' = Batch(i) /\ InHand(i)' = InHand(i)
  BY <1>1, <1>2 DEF Batch, InHand
<1> QED BY <1>1, <1>2, <1>3, BatchFrame DEF Batch

\* Between two consumers there is no batch.
LEMMA BatchRound ==
    ASSUME Inv, AuthWait \/ AuthNext \/ AuthRoundDone,
           NEW i \in Consumer, BatchInv(i)
    PROVE  BatchInv(i)'
<1>1. /\ authPc \in {"wait", "next"} /\ authPc' # "authorize" /\ pdus = << >>
      /\ UNCHANGED <<pdus, lastScanPdu, consumers, accepted, authorized>>
  BY DEF AuthWait, AuthNext, AuthRoundDone, Inv, Owned
<1>2. Batch(i)' = Batch(i) /\ InHand(i)' = InHand(i)
  BY <1>1 DEF Batch, InHand
<1> QED BY <1>1, <1>2, BatchFrame

\* A PDU goes from the queue to the batch.
LEMMA BatchReceive ==
    ASSUME Inv, AuthReceive, NEW i \in Consumer, BatchInv(i)
    PROVE  BatchInv(i)'
<1> DEFINE c == Compared(i)
           acc == accepted[i]
           q == consumers[i].privateQueue
<1>0. /\ authPc = "receive"
      /\ UNCHANGED <<authPc, authIndex, lastScanPdu, accepted, authorized>>
  BY DEF AuthReceive
<1>1. InHand(i)' = InHand(i)
  BY <1>0, ReceiveEffect DEF InHand
<1>2. CASE i # authIndex
  <2>1. Batch(i)' = Batch(i)
    BY <1>0, <1>2 DEF Batch
  <2> QED BY <1>0, <1>1, <1>2, <2>1, ReceiveEffect, BatchFrame
<1>3. CASE i = authIndex
  <2>1. /\ Batch(i) = pdus /\ Batch(i)' = Append(pdus, Head(q)) /\ q # << >>
        /\ consumers'[i].privateQueue = Tail(q)
    BY <1>0, <1>3, ReceiveEffect DEF Batch
  <2>2. acc \in Seq(ScanPdu) /\ q \in Seq(ScanPdu) /\ Batch(i) \in Seq(ScanPdu)
    BY BatchTypes
  <2>3. Cut(acc, c, Batch(i), q)
    BY DEF BatchInv
  <2>4. Cut(acc, c, Append(pdus, Head(q)), Tail(q))
    BY <2>1, <2>2, <2>3, CutReceive
  <2>5. Compared(i)' = c
    <3>1. Cut(acc, c, Batch(i)', consumers'[i].privateQueue)
      BY <2>1, <2>4
    <3>2. /\ Len(Batch(i)') \in Nat /\ Len(consumers'[i].privateQueue) \in Nat
      <4>1. /\ Append(pdus, Head(q)) \in Seq(ScanPdu)
            /\ Tail(q) \in Seq(ScanPdu)
        BY <2>1, <2>2, HeadTailProperties, AppendProperties
      <4> QED BY <2>1, <4>1, LenProperties
    <3>3. Compared(i)' = Len(acc) - Len(consumers'[i].privateQueue)
                             - Len(Batch(i)')
      BY <1>0 DEF Compared
    <3>4. c \in Nat /\ Len(acc) = c + Len(Batch(i)')
                                     + Len(consumers'[i].privateQueue)
      BY <3>1 DEF Cut
    <3>5. \A k, l, m, n : /\ k \in Nat /\ l \in Nat /\ m \in Nat
                          /\ n = k + m + l
                          => n - l - m = k
      OBVIOUS
    <3> HIDE DEF c, acc
    <3> QED BY <3>2, <3>3, <3>4, <3>5
  <2>6. PassedOn(i)' = PassedOn(i)
    BY <1>0, <2>5 DEF PassedOn
  <2> QED BY <1>0, <1>1, <2>1, <2>4, <2>5, <2>6 DEF BatchInv
<1> QED BY <1>2, <1>3

\* The first batch of a consumer gives the PDU the comparison starts from.
LEMMA BatchReceived ==
    ASSUME Inv, AuthReceived, NEW i \in Consumer, BatchInv(i)
    PROVE  BatchInv(i)'
<1> DEFINE c == Compared(i)
           acc == accepted[i]
           q == consumers[i].privateQueue
           last == consumers[i].last_processed_pdu
<1>0. /\ authPc = "receive" /\ authPc' = "authorize"
      /\ UNCHANGED <<authIndex, consumers, accepted, authorized>>
  BY DEF AuthReceived
<1>1. CASE i # authIndex
  <2>1. Batch(i)' = Batch(i) /\ InHand(i)' = InHand(i)
    BY <1>0, <1>1 DEF Batch, InHand
  <2> QED BY <1>0, <1>1, <2>1, BatchFrame
<1>2. CASE i = authIndex
  <2>1. /\ Batch(i) = pdus /\ Batch(i)' = pdus'
        /\ InHand(i) = last /\ InHand(i)' = lastScanPdu'
    BY <1>0, <1>2 DEF Batch, InHand
  <2>2. acc \in Seq(ScanPdu) /\ q \in Seq(ScanPdu) /\ pdus \in Seq(ScanPdu)
    BY <2>1, BatchTypes
  <2>3. Cut(acc, c, pdus, q) /\ last = IF c = 0 THEN NoPdu ELSE acc[c]
    BY <2>1 DEF BatchInv
  <2>4. c \in Nat /\ (c # 0 => c \in 1 .. Len(acc))
    <3>1. Len(pdus) \in Nat /\ Len(q) \in Nat /\ Len(acc) \in Nat
      BY <2>2, LenProperties
    <3> HIDE DEF c, acc, q
    <3> QED BY <2>3, <3>1 DEF Cut
  <2>5. last.timestamp_us = 0 <=> c = 0
    <3>1. NoPdu.timestamp_us = 0
      BY DEF NoPdu
    <3>2. c # 0 => acc[c].timestamp_us # 0
      BY <2>2, <2>4, ElementOfSeq, ScanPduFacts
    <3> QED BY <2>3, <3>1, <3>2
  <2>6. CASE c = 0 /\ pdus # << >>
    <3>1. lastScanPdu' = Head(pdus) /\ pdus' = Tail(pdus)
      BY <1>2, <2>5, <2>6 DEF AuthReceived
    <3>2. Cut(acc, 1, Tail(pdus), q) /\ Head(pdus) = acc[1] /\ 1 \in 1 .. Len(acc)
      <4>1. /\ Cut(acc, c + 1, Tail(pdus), q) /\ Head(pdus) = acc[c + 1]
            /\ c + 1 \in 1 .. Len(acc)
        BY <2>2, <2>3, <2>6, CutTake
      <4>2. c + 1 = 1
        BY <2>6
      <4> QED BY <4>1, <4>2
    <3>3. Compared(i)' = 1
      <4>1. Tail(pdus) \in Seq(ScanPdu)
        BY <2>2, <2>6, HeadTailProperties
      <4>2. /\ Len(Tail(pdus)) \in Nat /\ Len(q) \in Nat
            /\ Len(acc) = 1 + Len(Tail(pdus)) + Len(q)
        BY <2>2, <3>2, <4>1, LenProperties DEF Cut
      <4>3. Compared(i)' = Len(acc) - Len(q) - Len(Tail(pdus))
        BY <1>0, <2>1, <3>1 DEF Compared
      <4> HIDE DEF acc, q
      <4> QED BY <4>2, <4>3
    <3>4. PassedOn(i) = << >> /\ PassedOn(i)' = << >>
      <4>1. Len(acc) \in Nat /\ 0 \in 0 .. Len(acc) /\ 1 \in 0 .. Len(acc)
        BY <2>2, <3>2, LenProperties
      <4>2. InTimeUpto(acc)[0] = << >> /\ InTimeUpto(acc)[1] = << >>
        <5>1. /\ InTimeUpto(acc)[0] = Extended(acc, 0, InTimeUpto(acc)[0 - 1])
              /\ InTimeUpto(acc)[1] = Extended(acc, 1, InTimeUpto(acc)[1 - 1])
          BY <4>1, InTimeUptoDef
        <5> QED BY <5>1 DEF Extended
      <4> QED BY <1>0, <2>6, <3>3, <4>2 DEF PassedOn
    <3> QED BY <1>0, <2>1, <3>1, <3>2, <3>3, <3>4 DEF BatchInv
  <2>7. CASE ~ (c = 0 /\ pdus # << >>)
    <3>1. lastScanPdu' = last /\ pdus' = pdus
      BY <1>2, <2>5, <2>7 DEF AuthReceived
    <3>2. Compared(i)' = c
      BY <1>0, <2>1, <3>1 DEF Compared
    <3>3. PassedOn(i)' = PassedOn(i)
      BY <1>0, <3>2 DEF PassedOn
    <3> QED BY <1>0, <2>1, <2>3, <2>7, <3>1, <3>2, <3>3 DEF BatchInv
  <2> QED BY <2>6, <2>7
<1> QED BY <1>1, <1>2

\* One comparison.
LEMMA BatchPdu ==
    ASSUME Inv, AuthPdu, NEW i \in Consumer, BatchInv(i)
    PROVE  BatchInv(i)'
<1> DEFINE c == Compared(i)
           acc == accepted[i]
           q == consumers[i].privateQueue
<1>0. /\ authPc = "authorize" /\ pdus # << >>
      /\ lastScanPdu' = Head(pdus) /\ pdus' = Tail(pdus)
      /\ UNCHANGED <<authPc, authIndex, consumers, accepted>>
      /\ authorized \in [Consumer -> Seq(AnyPdu)]
  BY DEF AuthPdu, Inv, TypeOK
<1>1. CASE i # authIndex
  <2>1. Batch(i)' = Batch(i) /\ InHand(i)' = InHand(i)
    BY <1>0, <1>1 DEF Batch, InHand
  <2>2. authorized'[i] = authorized[i]
    BY <1>0, <1>1 DEF AuthPdu
  <2> QED BY <1>0, <1>1, <2>1, <2>2, BatchFrame
<1>2. CASE i = authIndex
  <2>1. /\ Batch(i) = pdus /\ Batch(i)' = Tail(pdus)
        /\ InHand(i) = lastScanPdu /\ InHand(i)' = Head(pdus)
    BY <1>0, <1>2 DEF Batch, InHand
  <2>2. acc \in Seq(ScanPdu) /\ q \in Seq(ScanPdu) /\ pdus \in Seq(ScanPdu)
    BY <2>1, BatchTypes
  <2>3. /\ Cut(acc, c, pdus, q) /\ c # 0 /\ c \in Nat /\ lastScanPdu = acc[c]
        /\ authorized[i] = InTimeUpto(acc)[c]
    BY <1>0, <1>2, <2>1 DEF BatchInv, PassedOn, Cut
  <2>4. /\ Cut(acc, c + 1, Tail(pdus), q) /\ Head(pdus) = acc[c + 1]
        /\ c + 1 \in 1 .. Len(acc)
    BY <1>0, <2>2, <2>3, CutTake
  <2>5. Compared(i)' = c + 1
    <3>1. Tail(pdus) \in Seq(ScanPdu)
      BY <1>0, <2>2, HeadTailProperties
    <3>2. /\ Len(Tail(pdus)) \in Nat /\ Len(q) \in Nat
          /\ Len(acc) = (c + 1) + Len(Tail(pdus)) + Len(q)
      BY <2>2, <2>4, <3>1, LenProperties DEF Cut
    <3>3. Compared(i)' = Len(acc) - Len(q) - Len(Tail(pdus))
      BY <1>0, <2>1 DEF Compared
    <3> HIDE DEF c, acc, q
    <3> QED BY <2>3, <3>2, <3>3
  <2>6. authorized'[i] = PassedOn(i)'
    <3>1. InTimeUpto(acc)[c + 1] = Extended(acc, c + 1, InTimeUpto(acc)[c])
      <4>1. Len(acc) \in Nat /\ c + 1 \in 0 .. Len(acc) /\ (c + 1) - 1 = c
        <5>1. Len(acc) \in Nat
          BY <2>2, LenProperties
        <5> HIDE DEF c, acc
        <5> QED BY <2>3, <2>4, <5>1
      <4> HIDE DEF c, acc
      <4> QED BY <4>1, InTimeUptoDef
    <3>2. ~ (c + 1 < 2) /\ (c + 1) - 1 = c
      <4> HIDE DEF c
      <4> QED BY <2>3
    <3>3. authorized'[i] = IF InTime(acc[c], acc[c + 1])
                           THEN Append(authorized[i], acc[c])
                           ELSE authorized[i]
      BY <1>0, <1>2, <2>3, <2>4 DEF AuthPdu
    <3>4. PassedOn(i)' = InTimeUpto(acc)[c + 1]
      BY <1>0, <2>5 DEF PassedOn
    <3> HIDE DEF c, acc
    <3> QED BY <2>3, <3>1, <3>2, <3>3, <3>4 DEF Extended
  <2>7. c + 1 # 0
    <3> HIDE DEF c
    <3> QED BY <2>3
  <2> QED BY <1>0, <2>1, <2>4, <2>5, <2>6, <2>7 DEF BatchInv
<1> QED BY <1>1, <1>2

\* The PDU in hand is saved.
LEMMA BatchSave ==
    ASSUME Inv, AuthSave, NEW i \in Consumer, BatchInv(i)
    PROVE  BatchInv(i)'
<1>1. /\ authPc = "authorize" /\ authPc' = "next" /\ pdus = << >>
      /\ UNCHANGED <<pdus, lastScanPdu, accepted, authorized>>
  BY DEF AuthSave
<1>2. Batch(i)' = Batch(i) /\ InHand(i)' = InHand(i)
  BY <1>1, SaveEffect DEF Batch, InHand
<1> QED BY <1>1, <1>2, SaveEffect, BatchFrame

LEMMA BatchNext ==
    ASSUME Inv, [Next]_vars, NEW i \in Consumer, BatchInv(i)
    PROVE  BatchInv(i)'
<1>1. CASE Scan
  BY <1>1, BatchScanComplete, BatchScanSend, BatchSendTimeout DEF Scan
<1>2. CASE AdvAuthorizeMain
  BY <1>2, BatchRound, BatchReceive, BatchReceived, BatchPdu, BatchSave
     DEF AdvAuthorizeMain
<1>3. CASE UNCHANGED vars
  <2>1. /\ UNCHANGED <<authPc, authIndex, pdus, lastScanPdu, consumers,
                       accepted, authorized>>
    BY <1>3 DEF vars, authVars
  <2> QED BY <2>1, BatchFrame DEF Batch, InHand
<1> QED BY <1>1, <1>2, <1>3 DEF Next

LEMMA BatchInit ==
    ASSUME Init, NEW i \in Consumer
    PROVE  BatchInv(i)
<1>1. /\ accepted[i] = << >> /\ authorized[i] = << >> /\ authPc = "wait"
      /\ consumers[i].privateQueue = << >>
      /\ consumers[i].last_processed_pdu = NoPdu
  BY DEF Init
<1>2. Batch(i) = << >> /\ InHand(i) = NoPdu
  BY <1>1 DEF Batch, InHand
<1>3. Cut(<< >>, 0, << >>, << >>)
  BY EmptySeq DEF Cut
<1>4. Compared(i) = 0
  BY <1>1, <1>2, <1>3, InvInit, ComparedIs
<1>5. PassedOn(i) = << >>
  <2>1. InTimeUpto(<< >>)[0] = << >>
    BY EmptySeq, InTimeUptoDef DEF Extended
  <2> QED BY <1>1, <1>4, <2>1 DEF PassedOn
<1> QED BY <1>1, <1>2, <1>3, <1>4, <1>5 DEF BatchInv

\* Which PDUs are passed on does not depend on the batches: for every way
\* the wake-ups and the receptions fall, the PDUs passed on are those whose
\* successor in the queue came in time, in order, each once.
THEOREM BatchesDoNotMatter == Spec => []BatchesInvisible
<1> DEFINE BInv == \A i \in Consumer : BatchInv(i)
<1>1. Init => BInv
  BY BatchInit
<1>2. Inv /\ BInv /\ [Next]_vars => BInv'
  BY BatchNext
<1>3. BInv => BatchesInvisible
  BY DEF BatchInv, BatchesInvisible
<1> HIDE DEF BInv
<1> QED BY <1>1, <1>2, <1>3, InvAlways, PTL DEF Spec

----------------------------------------------------------------------------
\* No PDU twice.

\* PDU q is another than p and not an earlier one of its session, unless
\* sender s left that session and came back to it in its first n PDUs.
Precedes(s, n, p, q) ==
    p.key_id # q.key_id \/ p.pdu_no < q.pdu_no \/ CameBack(s, n, p.key_id)

\* Sender s is the one that was heard.
Alone(s) == \A t \in Sender : heard[t] > 0 => t = s

\* PDU x was heard before the n-th, and before one of the session the filter
\* remembers; if it is of that session, and the sender did not come back to
\* it, the filter would refuse it.
Behind(s, n, x, key_id, pdu_no) ==
    /\ \E a, m \in 1 .. n :
           a <= m /\ x = Air[s][a] /\ Air[s][m].key_id = key_id
    /\ x.key_id = key_id => x.pdu_no <= pdu_no \/ CameBack(s, n, key_id)

\* PDU x was heard before the n-th, and before p, which is another.
Ahead(s, n, x, p) ==
    /\ \E a, m \in 1 .. n : a <= m /\ x = Air[s][a] /\ Air[s][m] = p
    /\ Precedes(s, n, x, p)

Increasing(s, n, q) ==
    \A j, k \in 1 .. Len(q) : j < k => Precedes(s, n, q[j], q[k])

\* What the consumers were given, and what the filter knows of it.
Filtered(s) ==
    /\ scanPc = "send" => \E m \in 1 .. heard[s] : Air[s][m] = scanPdu
    /\ \A i \in Consumer : \A k \in 1 .. Len(accepted[i]) :
           IF scanPc = "send"
           THEN Ahead(s, heard[s], accepted[i][k], scanPdu)
           ELSE Behind(s, heard[s], accepted[i][k],
                       consumers[0].last_pdu_key_id, consumers[0].last_pdu_no)
    /\ \A i \in Consumer : Increasing(s, heard[s], accepted[i])

FilterInv(s) == Alone(s) => Filtered(s)

\* Hearing more of a sender changes nothing that was said of it.
LEMMA HeardMore ==
    ASSUME NEW s \in Sender, heard \in [Sender -> Nat],
           heard' \in [Sender -> Nat],
           \A t \in Sender : heard[t] <= heard'[t]
    PROVE  /\ 1 .. heard[s] \subseteq 1 .. heard'[s]
           /\ Alone(s)' => Alone(s)
<1>1. 1 .. heard[s] \subseteq 1 .. heard'[s]
  <2>1. heard[s] \in Nat /\ heard'[s] \in Nat /\ heard[s] <= heard'[s]
    OBVIOUS
  <2> QED BY <2>1
<1>2. ASSUME Alone(s)' PROVE Alone(s)
  <2> SUFFICES ASSUME NEW t \in Sender, heard[t] > 0 PROVE t = s
    BY DEF Alone
  <2>1. heard[t] \in Nat /\ heard'[t] \in Nat /\ heard[t] <= heard'[t]
    OBVIOUS
  <2>2. heard'[t] > 0
    BY <2>1
  <2> QED BY <1>2, <2>2 DEF Alone
<1> QED BY <1>1, <1>2

\* What holds of the first n PDUs holds of more of them.
LEMMA HeardLonger ==
    ASSUME NEW s, NEW n, NEW m, 1 .. n \subseteq 1 .. m
    PROVE  /\ \A key_id : CameBack(s, n, key_id) => CameBack(s, m, key_id)
           /\ \A x, p : Ahead(s, n, x, p) => Ahead(s, m, x, p)
           /\ \A x, key_id, pdu_no : Behind(s, n, x, key_id, pdu_no)
                                        => Behind(s, m, x, key_id, pdu_no)
           /\ \A q : Increasing(s, n, q) => Increasing(s, m, q)
<1>1. \A key_id : CameBack(s, n, key_id) => CameBack(s, m, key_id)
  BY DEF CameBack
<1>2. \A p, q : Precedes(s, n, p, q) => Precedes(s, m, p, q)
  BY <1>1 DEF Precedes
<1>3. \A x, p : Ahead(s, n, x, p) => Ahead(s, m, x, p)
  BY <1>2 DEF Ahead
<1>4. \A x, key_id, pdu_no : Behind(s, n, x, key_id, pdu_no)
                                => Behind(s, m, x, key_id, pdu_no)
  BY <1>1 DEF Behind
<1>5. \A q : Increasing(s, n, q) => Increasing(s, m, q)
  BY <1>2 DEF Increasing
<1> QED BY <1>1, <1>3, <1>4, <1>5

\* A step that gives nothing to the filter.
LEMMA FilterFrame ==
    ASSUME Inv, NEW s \in Sender, FilterInv(s), heard' \in [Sender -> Nat],
           \A t \in Sender : heard[t] <= heard'[t],
           consumers'[0].last_pdu_key_id = consumers[0].last_pdu_key_id,
           consumers'[0].last_pdu_no = consumers[0].last_pdu_no,
           scanPdu' = scanPdu, accepted' = accepted,
           scanPc' = "send" <=> scanPc = "send"
    PROVE  FilterInv(s)'
<1> SUFFICES ASSUME Alone(s)' PROVE Filtered(s)'
  BY DEF FilterInv
<1>1. heard \in [Sender -> Nat]
  BY DEF Inv, TypeOK
<1>2. 1 .. heard[s] \subseteq 1 .. heard'[s] /\ Filtered(s)
  BY <1>1, HeardMore DEF FilterInv
<1>3. ASSUME NEW i \in Consumer, NEW k \in 1 .. Len(accepted'[i])
      PROVE  IF scanPc' = "send"
             THEN Ahead(s, heard'[s], accepted'[i][k], scanPdu')
             ELSE Behind(s, heard'[s], accepted'[i][k],
                    consumers'[0].last_pdu_key_id, consumers'[0].last_pdu_no)
  <2>1. IF scanPc = "send"
        THEN Ahead(s, heard[s], accepted[i][k], scanPdu)
        ELSE Behind(s, heard[s], accepted[i][k],
                    consumers[0].last_pdu_key_id, consumers[0].last_pdu_no)
    BY <1>2 DEF Filtered
  <2>2. CASE scanPc = "send"
    BY <1>2, <2>1, <2>2, HeardLonger
  <2>3. CASE scanPc # "send"
    BY <1>2, <2>1, <2>3, HeardLonger
  <2> QED BY <2>2, <2>3
<1>4. scanPc' = "send" => \E m \in 1 .. heard'[s] : Air[s][m] = scanPdu'
  BY <1>2 DEF Filtered
<1>5. \A i \in Consumer : Increasing(s, heard'[s], accepted'[i])
  BY <1>2, HeardLonger DEF Filtered
<1> QED BY <1>3, <1>4, <1>5 DEF Filtered

\* What a step does to the consumers besides the memory of the filter.
LEMMA MemoryKept ==
    ASSUME Inv,
           \/ \E s \in Sender : ScanComplete(s)
           \/ AuthReceive \/ AuthSave
    PROVE  /\ consumers'[0].last_pdu_key_id = consumers[0].last_pdu_key_id
           /\ consumers'[0].last_pdu_no = consumers[0].last_pdu_no
<1>1. /\ consumers \in [Consumer -> ConsumerType] /\ 0 \in Consumer
      /\ consumers[0] \in ConsumerType
  BY ConsumerInt DEF Inv, TypeOK
<1>2. ASSUME NEW s \in Sender, ScanComplete(s)
      PROVE  /\ consumers'[0].last_pdu_key_id = consumers[0].last_pdu_key_id
             /\ consumers'[0].last_pdu_no = consumers[0].last_pdu_no
  <2> DEFINE i == ConsumerIndexForAddr(s)
  <2>1. \/ consumers' = consumers
        \/ consumers' = [consumers EXCEPT ![i] =
               [consumers[i] EXCEPT !.consumer_addr = s, !.active = TRUE]]
    BY <1>2 DEF ScanComplete
  <2> HIDE DEF i
  <2>2. CASE consumers' = consumers
    BY <2>2
  <2>3. CASE consumers' = [consumers EXCEPT ![i] =
                [consumers[i] EXCEPT !.consumer_addr = s, !.active = TRUE]]
    <3>1. CASE i = 0
      <4>1. consumers'[0] = [consumers[0] EXCEPT !.consumer_addr = s,
                                                 !.active = TRUE]
        BY <1>1, <2>3, <3>1
      <4> QED BY <1>1, <4>1 DEF ConsumerType
    <3>2. CASE i # 0
      <4>1. consumers'[0] = consumers[0]
        BY <1>1, <2>3, <3>2
      <4> QED BY <4>1
    <3> QED BY <3>1, <3>2
  <2> QED BY <2>1, <2>2, <2>3
<1>3. CASE AuthReceive
  <2>1. consumers' = [consumers EXCEPT ![authIndex] =
            [consumers[authIndex] EXCEPT
                 !.privateQueue = Tail(consumers[authIndex].privateQueue)]]
    BY <1>3 DEF AuthReceive
  <2> QED BY <1>1, <2>1 DEF ConsumerType
<1>4. CASE AuthSave
  <2>1. consumers' = [consumers EXCEPT ![authIndex] =
            [consumers[authIndex] EXCEPT !.last_processed_pdu = lastScanPdu]]
    BY <1>4 DEF AuthSave
  <2> QED BY <1>1, <2>1 DEF ConsumerType
<1> QED BY <1>2, <1>3, <1>4

\* After a send, or its time-out, the filter remembers what was sent.
LEMMA MemorySet ==
    ASSUME Inv, ScanSend \/ ScanSendTimeout
    PROVE  /\ consumers'[0].last_pdu_key_id = scanPdu.key_id
           /\ consumers'[0].last_pdu_no = scanPdu.pdu_no
<1>1. ASSUME NEW c \in [Consumer -> ConsumerType]
      PROVE  /\ Remembered(c)[0].last_pdu_key_id = scanPdu.key_id
             /\ Remembered(c)[0].last_pdu_no = scanPdu.pdu_no
  <2>1. Remembered(c) =
            [c EXCEPT ![0] = [c[0] EXCEPT !.last_pdu_no = scanPdu.pdu_no,
                                          !.last_pdu_key_id = scanPdu.key_id]]
    BY ConsumerInt DEF Remembered
  <2> QED BY <2>1, ConsumerInt DEF ConsumerType
<1>2. consumers \in [Consumer -> ConsumerType]
  BY DEF Inv, TypeOK
<1>3. CASE ScanSend
  <2> DEFINE q == consumers[scanIndex].privateQueue
             c == [consumers EXCEPT ![scanIndex].privateQueue =
                                        Append(@, scanPdu)]
  <2>1. scanIndex \in Consumer /\ q \in Seq(ScanPdu) /\ scanPdu \in ScanPdu
    BY <1>2, <1>3, SendEffect DEF ConsumerType
  <2>2. Append(q, scanPdu) \in Seq(ScanPdu)
    BY <2>1, AppendProperties
  <2>3. [consumers[scanIndex] EXCEPT !.privateQueue = Append(@, scanPdu)]
            \in ConsumerType
    BY <1>2, <2>1, <2>2 DEF ConsumerType
  <2>4. c \in [Consumer -> ConsumerType] /\ consumers' = Remembered(c)
    BY <1>2, <1>3, <2>3 DEF ScanSend
  <2> HIDE DEF c
  <2> QED BY <1>1, <2>4
<1>4. CASE ScanSendTimeout
  BY <1>1, <1>2, <1>4 DEF ScanSendTimeout
<1> QED BY <1>3, <1>4

\* A PDU passes the filter only if it comes after all that passed before.
LEMMA FilterScanComplete ==
    ASSUME Inv, NEW t \in Sender, ScanComplete(t),
           NEW s \in Sender, FilterInv(s)
    PROVE  FilterInv(s)'
<1> DEFINE n == heard[t] + 1
           pdu == Air[t][n]
<1>1. /\ heard \in [Sender -> Nat] /\ scanPc = "idle"
      /\ heard' = [heard EXCEPT ![t] = n]
      /\ accepted' = accepted
      /\ heard[t] < Len(Air[t])
  BY DEF ScanComplete, Inv, TypeOK
<1>2. /\ heard[t] \in Nat /\ n \in Nat /\ heard' \in [Sender -> Nat]
      /\ \A r \in Sender : heard[r] <= heard'[r]
  BY <1>1
<1>3. /\ consumers'[0].last_pdu_key_id = consumers[0].last_pdu_key_id
      /\ consumers'[0].last_pdu_no = consumers[0].last_pdu_no
  BY MemoryKept
<1>4. CASE UNCHANGED <<scanPc, scanPdu>>
  BY <1>1, <1>2, <1>3, <1>4, FilterFrame
<1>5. CASE IsNewPdu(pdu) /\ scanPc' = "send" /\ scanPdu' = pdu
  <2> SUFFICES ASSUME Alone(s)' PROVE Filtered(s)'
    BY DEF FilterInv
  <2>1. t = s
    <3>1. heard'[t] > 0
      BY <1>1, <1>2
    <3> QED BY <3>1 DEF Alone
  <2>2. Filtered(s) /\ 1 .. heard[s] \subseteq 1 .. heard'[s]
    BY <1>1, <1>2, HeardMore DEF FilterInv
  <2>3. n \in 1 .. heard'[s] /\ heard'[s] = n
    BY <1>1, <1>2, <2>1
  <2>4. /\ DOMAIN Air[s] = 1 .. Len(Air[s]) /\ Len(Air[s]) \in Nat
        /\ \A k \in 1 .. Len(Air[s]) : Air[s][k] \in ScanPdu
    BY AirAssumption, LenProperties, ElementOfSeq
  <2>5. n \in DOMAIN Air[s]
    BY <1>1, <1>2, <2>1, <2>4
  <2>6. ASSUME NEW x \in ScanPdu,
               Behind(s, heard[s], x, consumers[0].last_pdu_key_id,
                      consumers[0].last_pdu_no)
        PROVE  Ahead(s, heard'[s], x, pdu)
    <3>1. PICK a \in 1 .. heard[s], m \in 1 .. heard[s] :
              /\ a <= m /\ x = Air[s][a]
              /\ Air[s][m].key_id = consumers[0].last_pdu_key_id
      BY <2>6 DEF Behind
    <3>2. /\ a \in 1 .. heard'[s] /\ a <= n /\ a \in DOMAIN Air[s]
          /\ m < n /\ m \in DOMAIN Air[s] /\ a \in Nat /\ m \in Nat
      BY <1>1, <1>2, <2>1, <2>2, <2>4, <3>1
    <3> HIDE DEF n
    <3>3. Precedes(s, heard'[s], x, pdu)
      <4> SUFFICES ASSUME x.key_id = pdu.key_id,
                          ~ CameBack(s, heard'[s], x.key_id)
                   PROVE  x.pdu_no < pdu.pdu_no
        BY DEF Precedes
      <4>1. Air[s][m].key_id = x.key_id
        <5>1. CASE a = m
          BY <3>1, <5>1
        <5>2. CASE a < m
          BY <2>1, <2>2, <2>3, <3>1, <3>2, <5>2 DEF CameBack
        <5> QED BY <3>1, <3>2, <5>1, <5>2
      <4>2. pdu.pdu_no > consumers[0].last_pdu_no
        BY <1>5, <3>1, <4>1 DEF IsNewPdu
      <4>3. x.pdu_no <= consumers[0].last_pdu_no
        BY <2>2, <2>6, <3>1, <4>1, HeardLonger DEF Behind
      <4>4. /\ x.pdu_no \in Nat /\ pdu.pdu_no \in Nat
            /\ consumers[0].last_pdu_no \in Nat
        <5>1. pdu \in ScanPdu
          BY <2>1, <2>4, <2>5
        <5>2. consumers[0] \in ConsumerType
          BY ConsumerInt DEF Inv, TypeOK
        <5> QED BY <5>1, <5>2, ScanPduFacts DEF ConsumerType
      <4> HIDE DEF pdu
      <4> QED BY <4>2, <4>3, <4>4
    <3> QED BY <2>1, <2>3, <3>1, <3>2, <3>3 DEF Ahead
  <2>7. \E m \in 1 .. heard'[s] : Air[s][m] = scanPdu'
    BY <1>5, <2>1, <2>3
  <2>8. ASSUME NEW i \in Consumer, NEW k \in 1 .. Len(accepted'[i])
        PROVE  Ahead(s, heard'[s], accepted'[i][k], pdu)
    <3>1. Behind(s, heard[s], accepted[i][k], consumers[0].last_pdu_key_id,
                 consumers[0].last_pdu_no)
      BY <1>1, <2>2 DEF Filtered
    <3>2. accepted[i][k] \in ScanPdu
      BY <1>1, BatchTypes, LenProperties, ElementOfSeq
    <3> QED BY <2>6, <3>1, <3>2, <1>1
  <2>9. \A i \in Consumer : Increasing(s, heard'[s], accepted'[i])
    BY <1>1, <2>2, HeardLonger DEF Filtered
  <2> QED BY <1>1, <1>5, <2>7, <2>8, <2>9 DEF Filtered
<1> QED BY <1>4, <1>5 DEF ScanComplete

\* The send, or its time-out.
LEMMA FilterSend ==
    ASSUME Inv, ScanSend \/ ScanSendTimeout, NEW s \in Sender, FilterInv(s)
    PROVE  FilterInv(s)'
<1> SUFFICES ASSUME Alone(s) PROVE Filtered(s)'
  BY DEF FilterInv, Alone, ScanSend, ScanSendTimeout
<1>1. /\ scanPc = "send" /\ scanPc' = "signal" /\ Filtered(s)
      /\ UNCHANGED <<heard, scanPdu>>
      /\ scanPdu \in ScanPdu /\ accepted \in [Consumer -> Seq(ScanPdu)]
      /\ heard[s] \in Nat
  BY DEF ScanSend, ScanSendTimeout, FilterInv, Inv, TypeOK
<1>2. ASSUME NEW x \in ScanPdu, Ahead(s, heard[s], x, scanPdu)
      PROVE  Behind(s, heard[s], x, scanPdu.key_id, scanPdu.pdu_no)
  <2>1. x.pdu_no \in Nat /\ scanPdu.pdu_no \in Nat
    BY <1>1, ScanPduFacts
  <2>2. x.key_id = scanPdu.key_id =>
            x.pdu_no <= scanPdu.pdu_no \/ CameBack(s, heard[s], scanPdu.key_id)
    BY <1>2, <2>1 DEF Ahead, Precedes
  <2> QED BY <1>2, <2>2 DEF Ahead, Behind
<1>3. Behind(s, heard[s], scanPdu, scanPdu.key_id, scanPdu.pdu_no)
  <2>1. PICK m \in 1 .. heard[s] : Air[s][m] = scanPdu
    BY <1>1 DEF Filtered
  <2>2. m <= m /\ scanPdu.pdu_no <= scanPdu.pdu_no
    BY <1>1, ScanPduFacts
  <2> QED BY <2>1, <2>2 DEF Behind
<1>4. ASSUME NEW i \in Consumer
      PROVE  \/ accepted'[i] = accepted[i]
             \/ accepted'[i] = Append(accepted[i], scanPdu)
  BY <1>1 DEF ScanSend, ScanSendTimeout
<1>5. ASSUME NEW i \in Consumer
      PROVE  /\ \A k \in 1 .. Len(accepted[i]) :
                    /\ accepted[i][k] \in ScanPdu
                    /\ Ahead(s, heard[s], accepted[i][k], scanPdu)
             /\ Increasing(s, heard[s], accepted[i])
  BY <1>1, BatchTypes, LenProperties, ElementOfSeq DEF Filtered
<1>6. ASSUME NEW i \in Consumer
      PROVE  /\ \A k \in 1 .. Len(accepted'[i]) :
                    Behind(s, heard[s], accepted'[i][k], scanPdu.key_id,
                           scanPdu.pdu_no)
             /\ Increasing(s, heard[s], accepted'[i])
  <2>1. CASE accepted'[i] = accepted[i]
    BY <1>2, <1>5, <2>1
  <2>2. CASE accepted'[i] = Append(accepted[i], scanPdu)
    <3> DEFINE q == accepted[i]
               r == Append(q, scanPdu)
    <3>1. /\ Len(q) \in Nat /\ Len(r) = Len(q) + 1 /\ r[Len(q) + 1] = scanPdu
          /\ \A k \in 1 .. Len(q) : r[k] = q[k]
      BY <1>1, AppendProperties, LenProperties
    <3> HIDE DEF r
    <3>2. ASSUME NEW k \in 1 .. Len(r), k # Len(q) + 1
          PROVE  k \in 1 .. Len(q)
      BY <3>1, <3>2
    <3>3. \A k \in 1 .. Len(r) :
              Behind(s, heard[s], r[k], scanPdu.key_id, scanPdu.pdu_no)
      <4> SUFFICES ASSUME NEW k \in 1 .. Len(r)
                   PROVE  Behind(s, heard[s], r[k], scanPdu.key_id,
                                 scanPdu.pdu_no)
        OBVIOUS
      <4>1. CASE k = Len(q) + 1
        BY <1>3, <1>1, <3>1, <4>1
      <4>2. CASE k # Len(q) + 1
        <5>1. k \in 1 .. Len(q) /\ r[k] = q[k]
          BY <3>1, <3>2, <4>2
        <5> QED BY <1>2, <1>5, <5>1
      <4> QED BY <4>1, <4>2
    <3>4. Increasing(s, heard[s], r)
      <4> SUFFICES ASSUME NEW j \in 1 .. Len(r), NEW k \in 1 .. Len(r), j < k
                   PROVE  Precedes(s, heard[s], r[j], r[k])
        BY DEF Increasing
      <4>1. j \in 1 .. Len(q) /\ r[j] = q[j]
        BY <3>1
      <4>2. CASE k = Len(q) + 1
        BY <1>5, <3>1, <4>1, <4>2 DEF Ahead
      <4>3. CASE k # Len(q) + 1
        BY <1>5, <3>1, <3>2, <4>1, <4>3 DEF Increasing
      <4> QED BY <4>2, <4>3
    <3> QED BY <2>2, <3>3, <3>4 DEF r
  <2> QED BY <1>4, <2>1, <2>2
<1> QED BY <1>1, <1>6, MemorySet DEF Filtered

LEMMA FilterNext ==
    ASSUME Inv, [Next]_vars,
           NEW s \in Sender, FilterInv(s)
    PROVE  FilterInv(s)'
<1>0. heard \in [Sender -> Nat]
  BY DEF Inv, TypeOK
<1>1. CASE UNCHANGED heard /\ ~ (ScanSend \/ ScanSendTimeout)
  <2>1. /\ heard' \in [Sender -> Nat]
        /\ \A t \in Sender : heard[t] <= heard'[t]
    BY <1>0, <1>1
  <2>2. /\ consumers'[0].last_pdu_key_id = consumers[0].last_pdu_key_id
        /\ consumers'[0].last_pdu_no = consumers[0].last_pdu_no
        /\ scanPdu' = scanPdu /\ accepted' = accepted
        /\ scanPc' = "send" <=> scanPc = "send"
    <3>1. CASE Scan
      <4>1. ASSUME NEW t \in Sender, ScanComplete(t) \/ ScanMiss(t)
            PROVE  FALSE
        <5>1. heard' = [heard EXCEPT ![t] = @ + 1]
          BY <4>1 DEF ScanComplete, ScanMiss
        <5>2. heard'[t] = heard[t] + 1 /\ heard[t] \in Nat
          BY <1>0, <5>1
        <5> QED BY <1>1, <5>2
      <4>2. ScanSignal
        BY <1>1, <3>1, <4>1 DEF Scan
      <4> QED BY <4>2 DEF ScanSignal
    <3>2. CASE AdvAuthorizeMain
      <4>1. scanPdu' = scanPdu /\ accepted' = accepted /\ scanPc' = scanPc
        BY <3>2 DEF AdvAuthorizeMain, AuthWait, AuthNext, AuthRoundDone,
                    AuthReceive, AuthReceived, AuthPdu, AuthSave, scanVars
      <4>2. CASE AuthReceive \/ AuthSave
        BY <4>1, <4>2, MemoryKept
      <4>3. CASE ~ (AuthReceive \/ AuthSave)
        BY <3>2, <4>1, <4>3 DEF AdvAuthorizeMain, AuthWait, AuthNext,
                    AuthRoundDone, AuthReceived, AuthPdu
      <4> QED BY <4>2, <4>3
    <3>3. CASE UNCHANGED vars
      BY <3>3 DEF vars, scanVars
    <3> QED BY <3>1, <3>2, <3>3 DEF Next
  <2> QED BY <2>1, <2>2, FilterFrame
<1>2. CASE ScanSend \/ ScanSendTimeout
  BY <1>2, FilterSend
<1>3. ASSUME NEW t \in Sender, ScanComplete(t)
      PROVE  FilterInv(s)'
  BY <1>3, FilterScanComplete
<1>4. ASSUME NEW t \in Sender, ScanMiss(t)
      PROVE  FilterInv(s)'
  <2>1. /\ heard' = [heard EXCEPT ![t] = @ + 1]
        /\ UNCHANGED <<scanPc, scanPdu, consumers, accepted>>
    BY <1>4 DEF ScanMiss
  <2>2. /\ heard' \in [Sender -> Nat]
        /\ \A r \in Sender : heard[r] <= heard'[r]
    BY <1>0, <2>1
  <2> QED BY <2>1, <2>2, FilterFrame
<1>5. \/ UNCHANGED heard /\ ~ (ScanSend \/ ScanSendTimeout)
      \/ ScanSend \/ ScanSendTimeout
      \/ \E t \in Sender : ScanComplete(t) \/ ScanMiss(t)
  BY DEF Next, Scan, ScanSignal, AdvAuthorizeMain, AuthWait, AuthNext,
         AuthRoundDone, AuthReceive, AuthReceived, AuthPdu, AuthSave, vars,
         scanVars
<1> QED BY <1>1, <1>2, <1>3, <1>4, <1>5

\* PDUs u are some of those before the c-th of q, in their order.
Picked(q, c, u) ==
    /\ u \in Seq(ScanPdu)
    /\ \A k \in 1 .. Len(u) : \E a \in 1 .. c - 1 : u[k] = q[a]
    /\ \A j, k \in 1 .. Len(u) :
           j < k => \E a, b \in 1 .. c - 1 : a < b /\ u[j] = q[a] /\ u[k] = q[b]

LEMMA PickOne ==
    ASSUME NEW q \in Seq(ScanPdu), NEW c \in 2 .. Len(q), NEW u,
           Picked(q, c - 1, u)
    PROVE  Picked(q, c, Extended(q, c, u))
<1>1. /\ u \in Seq(ScanPdu) /\ Len(q) \in Nat /\ Len(u) \in Nat
      /\ c \in Nat /\ c - 1 \in 1 .. Len(q) /\ c - 1 \in 1 .. c - 1
      /\ 1 .. (c - 1) - 1 \subseteq 1 .. c - 1
      /\ \A a \in 1 .. (c - 1) - 1 : a < c - 1
      /\ ~ (c < 2)
  BY LenProperties DEF Picked
<1>2. q[c - 1] \in ScanPdu
  BY <1>1, ElementOfSeq
<1>3. CASE ~ InTime(q[c - 1], q[c])
  <2>1. Extended(q, c, u) = u
    BY <1>1, <1>3 DEF Extended
  <2>2. \A k \in 1 .. Len(u) : \E a \in 1 .. c - 1 : u[k] = q[a]
    BY <1>1 DEF Picked
  <2>3. ASSUME NEW j \in 1 .. Len(u), NEW k \in 1 .. Len(u), j < k
        PROVE  \E a, b \in 1 .. c - 1 : a < b /\ u[j] = q[a] /\ u[k] = q[b]
    BY <1>1, <2>3 DEF Picked
  <2> QED BY <1>1, <2>1, <2>2, <2>3 DEF Picked
<1>4. CASE InTime(q[c - 1], q[c])
  <2> DEFINE w == Append(u, q[c - 1])
  <2>1. Extended(q, c, u) = w
    BY <1>1, <1>4 DEF Extended
  <2>2. /\ w \in Seq(ScanPdu) /\ Len(w) = Len(u) + 1
        /\ w[Len(u) + 1] = q[c - 1]
        /\ \A k \in 1 .. Len(u) : w[k] = u[k]
    BY <1>1, <1>2, AppendProperties
  <2> HIDE DEF w
  <2>3. ASSUME NEW k \in 1 .. Len(u)
        PROVE  \E a \in 1 .. c - 1 : a < c - 1 /\ w[k] = q[a]
    <3>1. PICK a \in 1 .. (c - 1) - 1 : u[k] = q[a]
      BY DEF Picked
    <3>2. a \in 1 .. c - 1 /\ a < c - 1
      BY <1>1
    <3> QED BY <2>2, <3>1, <3>2
  <2>4. ASSUME NEW k \in 1 .. Len(w)
        PROVE  k \in 1 .. Len(u) \/ k = Len(u) + 1
    BY <1>1, <2>2
  <2>5. \A k \in 1 .. Len(w) : \E a \in 1 .. c - 1 : w[k] = q[a]
    BY <1>1, <2>2, <2>3, <2>4
  <2>6. ASSUME NEW j \in 1 .. Len(w), NEW k \in 1 .. Len(w), j < k
        PROVE  \E a, b \in 1 .. c - 1 : a < b /\ w[j] = q[a] /\ w[k] = q[b]
    <3>1. j \in 1 .. Len(u)
      BY <1>1, <2>2, <2>6
    <3>2. CASE k \in 1 .. Len(u)
      <4>1. PICK a \in 1 .. (c - 1) - 1, b \in 1 .. (c - 1) - 1 :
                a < b /\ u[j] = q[a] /\ u[k] = q[b]
        BY <2>6, <3>1, <3>2 DEF Picked
      <4>2. a \in 1 .. c - 1 /\ b \in 1 .. c - 1
        BY <1>1
      <4> QED BY <2>2, <3>1, <3>2, <4>1, <4>2
    <3>3. CASE k = Len(u) + 1
      BY <1>1, <2>2, <2>3, <3>1, <3>3
    <3> QED BY <2>4, <3>2, <3>3
  <2>7. Picked(q, c, w)
    BY <2>2, <2>5, <2>6 DEF Picked
  <2> QED BY <2>1, <2>7
<1> QED BY <1>3, <1>4

\* What is passed on is picked from what was compared.
LEMMA PassedOnPicked ==
    ASSUME NEW q \in Seq(ScanPdu), NEW c \in 0 .. Len(q)
    PROVE  Picked(q, c, InTimeUpto(q)[c])
<1> DEFINE n == Len(q)
           Bad == {m \in 0 .. n : ~ Picked(q, m, InTimeUpto(q)[m])}
<1>1. n \in Nat
  BY LenProperties
<1>2. SUFFICES ASSUME Bad # {} PROVE FALSE
  OBVIOUS
<1>3. Bad \subseteq Int /\ IsFiniteSet(Bad)
  <2>1. IsFiniteSet(0 .. n)
    BY <1>1, FS_Interval, 0 \in Int, n \in Int
  <2> QED BY <2>1, FS_Subset
<1> DEFINE m == Min(Bad)
<1>4. m \in Bad /\ \A y \in Bad : m <= y
  BY <1>2, <1>3, LeastElement
<1>5. m \in 0 .. n /\ ~ Picked(q, m, InTimeUpto(q)[m])
  BY <1>4
<1>6. m - 1 \in 0 .. n => Picked(q, m - 1, InTimeUpto(q)[m - 1])
  <2> HIDE DEF m
  <2> QED BY <1>4, <1>5
<1>7. InTimeUpto(q)[m] = Extended(q, m, InTimeUpto(q)[m - 1])
  <2> HIDE DEF m
  <2> QED BY <1>1, <1>5, InTimeUptoDef
<1> HIDE DEF m
<1>8. CASE m < 2
  <2>1. InTimeUpto(q)[m] = << >>
    BY <1>7, <1>8 DEF Extended
  <2>2. << >> \in Seq(ScanPdu) /\ 1 .. Len(<< >>) = {}
    BY EmptySeq
  <2> QED BY <1>5, <2>1, <2>2 DEF Picked
<1>9. CASE m >= 2
  <2>1. m \in 2 .. n /\ m - 1 \in 0 .. n
    BY <1>1, <1>5, <1>9
  <2> QED BY <1>5, <1>6, <1>7, <2>1, PickOne
<1> QED BY <1>1, <1>5, <1>8, <1>9

LEMMA FilterInit ==
    ASSUME Init, NEW s \in Sender
    PROVE  FilterInv(s)
<1>1. /\ scanPc = "idle"
      /\ \A i \in Consumer : accepted[i] = << >> /\ 1 .. Len(accepted[i]) = {}
  BY EmptySeq DEF Init
<1> QED BY <1>1 DEF FilterInv, Filtered, Increasing

\* As long as one sender alone was heard, no PDU of a session it did not come
\* back to is passed on twice, and those of a session are passed on in order.
THEOREM NoneTwice == Spec => []PassedOnOnce
<1> DEFINE AllBatches == \A i \in Consumer : BatchInv(i)
           AllFilters == \A s \in Sender : FilterInv(s)
<1>1. Init => AllBatches /\ AllFilters
  BY BatchInit, FilterInit
<1>2. Inv /\ AllBatches /\ [Next]_vars => AllBatches'
  BY BatchNext
<1>3. Inv /\ AllFilters /\ [Next]_vars => AllFilters'
  BY FilterNext
<1>4. Inv /\ AllBatches /\ AllFilters => PassedOnOnce
  <2> SUFFICES ASSUME Inv, AllBatches, AllFilters,
                      \A s, t \in Sender : heard[s] > 0 /\ heard[t] > 0 => s = t,
                      NEW i \in Consumer,
                      NEW j \in DOMAIN authorized[i],
                      NEW k \in DOMAIN authorized[i], j < k
               PROVE  \E s \in Sender : Precedes(s, heard[s], authorized[i][j],
                                                authorized[i][k])
    BY DEF PassedOnOnce, Precedes
  <2> DEFINE q == accepted[i]
             c == Compared(i)
             u == authorized[i]
  <2>1. /\ q \in Seq(ScanPdu) /\ Batch(i) \in Seq(ScanPdu)
        /\ consumers[i].privateQueue \in Seq(ScanPdu)
    BY BatchTypes
  <2>2. u = InTimeUpto(q)[c] /\ Cut(q, c, Batch(i), consumers[i].privateQueue)
    BY DEF BatchInv, PassedOn
  <2>3. c \in 0 .. Len(q) /\ Len(q) \in Nat
    <3>1. /\ Len(Batch(i)) \in Nat /\ Len(consumers[i].privateQueue) \in Nat
          /\ Len(q) \in Nat
      BY <2>1, LenProperties
    <3> HIDE DEF q, c
    <3> QED BY <2>2, <3>1 DEF Cut
  <2>4. Picked(q, c, u)
    BY <2>1, <2>2, <2>3, PassedOnPicked
  <2> HIDE DEF q, c, u
  <2>5. j \in 1 .. Len(u) /\ k \in 1 .. Len(u)
    <3>1. DOMAIN u = 1 .. Len(u)
      BY <2>4, LenProperties DEF Picked
    <3> QED BY <3>1 DEF u
  <2>6. PICK a \in 1 .. c - 1, b \in 1 .. c - 1 :
            a < b /\ u[j] = q[a] /\ u[k] = q[b]
    BY <2>4, <2>5 DEF Picked
  <2>7. a \in 1 .. Len(q) /\ b \in 1 .. Len(q)
    BY <2>3, <2>6
  <2>8. PICK s \in Sender : Alone(s)
    <3>1. q[a].mac \in Sender
      BY <2>1, <2>7, ElementOfSeq, ScanPduFacts
    <3>2. CASE \E s \in Sender : heard[s] > 0
      BY <3>2 DEF Alone
    <3>3. CASE \A s \in Sender : ~ (heard[s] > 0)
      BY <3>1, <3>3 DEF Alone
    <3> QED BY <3>2, <3>3
  <2>9. Increasing(s, heard[s], q)
    BY <2>8 DEF FilterInv, Filtered, q
  <2>10. Precedes(s, heard[s], q[a], q[b])
    BY <2>6, <2>7, <2>9 DEF Increasing
  <2> QED BY <2>6, <2>10 DEF u
<1> HIDE DEF AllBatches, AllFilters
<1> QED BY <1>1, <1>2, <1>3, <1>4, InvAlways, PTL DEF Spec
=============================================================================
