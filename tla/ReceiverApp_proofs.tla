------------------------ MODULE ReceiverApp_proofs ------------------------
(***************************************************************************)
(* The receiver program and the table of its tasks, for every number of    *)
(* senders, of slots and of rows, and however often senders restart.       *)
(***************************************************************************)
EXTENDS ReceiverApp, ArrayScan_proofs

\* A loop over an array from 1 stops at the first place there is.
LEMMA FirstPlace ==
    ASSUME NEW n \in Nat, NEW S \in SUBSET (1 .. n), S # {}
    PROVE  \E i \in S : \A j \in 1 .. i - 1 : j \notin S
<1>1. IsFiniteSet(S) /\ S \subseteq Int
  <2>1. IsFiniteSet(1 .. n)
    BY FS_Interval, 1 \in Int, n \in Int
  <2>2. IsFiniteSet(S)
    BY <2>1, FS_Subset
  <2> QED BY <2>2
<1>2. Min(S) \in S /\ \A y \in S : Min(S) <= y
  BY <1>1, LeastElement
<1> DEFINE m == Min(S)
<1>3. m \in S /\ m \in Int /\ \A y \in S : m <= y
  BY <1>1, <1>2
<1> HIDE DEF m
<1>4. \A j \in 1 .. m - 1 : j \notin S
  BY <1>3
<1> QED BY <1>3, <1>4

----------------------------------------------------------------------------
\* The table.

\* The rows are used in order, and none twice.
Table ==
    /\ TableTypeOK
    /\ OneRowPerSender
    /\ \A i, j \in Row : i < j /\ ble_test_consumers[i].mac_address = zero_mac
           => ble_test_consumers[j].mac_address = zero_mac
    /\ \A t \in Task : logging[t].step # "idle" => logging[t].mac \in Sender

\* A loop stops at the first of the rows, or at none.
LEMMA FirstRowFound ==
    ASSUME NEW macs
    PROVE  LET k == FirstRow(RowsOf(macs))
           IN  /\ k \in Row \cup {NoRow}
               /\ k # NoRow =>
                      /\ ble_test_consumers[k].mac_address \in macs
                      /\ \A j \in 1 .. k - 1 :
                             ble_test_consumers[j].mac_address \notin macs
<1> DEFINE S == RowsOf(macs)
<1>1. S \in SUBSET (1 .. MAX_TEST_CONSUMERS) /\ MAX_TEST_CONSUMERS \in Nat
  BY TableAssumption DEF Row, RowsOf
<1>2. CASE S = {}
  BY <1>2 DEF FirstRow, NoRow
<1>3. CASE S # {}
  <2>1. \E i \in S : \A j \in 1 .. i - 1 : j \notin S
    BY <1>1, <1>3, FirstPlace
  <2>2. FirstRow(S) = CHOOSE i \in S : \A j \in 1 .. i - 1 : j \notin S
    BY <1>3 DEF FirstRow
  <2>3. FirstRow(S) \in S /\ \A j \in 1 .. FirstRow(S) - 1 : j \notin S
    <3> HIDE DEF S
    <3> QED BY <2>1, <2>2
  <2>4. FirstRow(S) \in Row /\ \A j \in 1 .. FirstRow(S) - 1 : j \in Row
    BY <1>1, <2>3 DEF Row
  <2> QED BY <2>3, <2>4 DEF RowsOf
<1> QED BY <1>2, <1>3

\* The row a sender has, and the one it is given.
LEMMA RowFound ==
    ASSUME Table, NEW mac \in Sender
    PROVE  /\ RowOf(mac) \in Row \cup {NoRow}
           /\ RowOf(mac) # NoRow =>
                  ble_test_consumers[RowOf(mac)].mac_address = mac
BY FirstRowFound DEF RowOf

LEMMA RowGiven ==
    ASSUME Table, NEW mac \in Sender
    PROVE  LET k == RowToAdd(mac)
           IN  /\ k \in Row \cup {NoRow}
               /\ k # NoRow =>
                      /\ ble_test_consumers[k].mac_address \in {mac, zero_mac}
                      /\ \A j \in 1 .. k - 1 :
                             ble_test_consumers[j].mac_address
                                 \notin {mac, zero_mac}
BY FirstRowFound DEF RowToAdd

LEMMA TableInit == InitTable => Table
<1> SUFFICES ASSUME InitTable PROVE Table
  OBVIOUS
<1>1. \A i \in Row : ble_test_consumers[i].mac_address = zero_mac
  BY DEF InitTable
<1>2. \A t \in Task : logging[t].step = "idle"
  BY DEF InitTable, Idle
<1>3. "received" \in Kind
  BY DEF Kind, Kinds, Task
<1>4. TableTypeOK
  <2>1. ble_test_consumers \in [Row -> RowType]
    BY DEF InitTable, RowType
  <2>2. logging \in [Task -> Logging]
    BY <1>3 DEF InitTable, Idle, Logging, Step
  <2> QED BY <1>2, <2>1, <2>2, TableAssumption DEF InitTable, TableTypeOK
<1> QED BY <1>1, <1>2, <1>4 DEF Table, OneRowPerSender

LEMMA TableLookUp ==
    ASSUME Table, NEW t \in Task, NEW kind \in Kinds[t], NEW mac \in Sender,
           GetConsumerIndex(t, kind, mac)
    PROVE  Table'
<1> DEFINE index == RowOf(mac)
           l == IF index = NoRow /\ kind = "already_decoded" THEN Idle
                ELSE [step |-> IF index = NoRow THEN "add" ELSE "count",
                      kind |-> kind, mac |-> mac, index |-> index]
<1>1. /\ index \in Row \cup {NoRow}
      /\ index # NoRow => ble_test_consumers[index].mac_address = mac
  BY RowFound
<1>2. /\ logging' = [logging EXCEPT ![t] = l]
      /\ packets' = packets + 1 /\ packets < MaxPackets
      /\ UNCHANGED ble_test_consumers
  BY DEF GetConsumerIndex
<1>3. kind \in Kind /\ "received" \in Kind
  BY DEF Kind, Kinds, Task
<1> HIDE DEF index
<1>4. /\ l \in Logging
      /\ l.step # "idle" => l.mac \in Sender
      /\ l.step \in {"count", "count_added"} =>
             /\ l.index \in Row
             /\ ble_test_consumers[l.index].mac_address = l.mac
  BY <1>1, <1>3 DEF Logging, Step, Idle
<1> HIDE DEF l
<1>5. \A u \in Task : logging'[u] = IF u = t THEN l ELSE logging[u]
  BY <1>2 DEF Table, TableTypeOK
<1>6. logging' \in [Task -> Logging]
  BY <1>2, <1>4 DEF Table, TableTypeOK
<1>7. packets' \in 0 .. MaxPackets
  BY <1>2, TableAssumption DEF Table, TableTypeOK
<1>8. TableTypeOK'
  BY <1>2, <1>4, <1>5, <1>6, <1>7 DEF Table, TableTypeOK
<1>9. OneRowPerSender'
  BY <1>2, <1>4, <1>5 DEF Table, OneRowPerSender
<1> QED BY <1>2, <1>4, <1>5, <1>8, <1>9 DEF Table

\* A sender that is added gets the first free row, or the one it was given
\* since it was looked up.
LEMMA TableAdd ==
    ASSUME Table, NEW t \in Task, AddConsumerToTable(t)
    PROVE  Table'
<1> DEFINE mac == logging[t].mac
           index == RowToAdd(mac)
<1>1. mac \in Sender /\ mac # zero_mac
  BY TableAssumption DEF Table, TableTypeOK, AddConsumerToTable
<1>2. /\ index \in Row \cup {NoRow}
      /\ index # NoRow =>
             /\ ble_test_consumers[index].mac_address \in {mac, zero_mac}
             /\ \A j \in 1 .. index - 1 :
                    ble_test_consumers[j].mac_address \notin {mac, zero_mac}
  BY <1>1, RowGiven
<1>3. packets' = packets
  BY DEF AddConsumerToTable
<1>4. CASE index = NoRow
  <2>1. /\ logging' = [logging EXCEPT ![t] = Idle]
        /\ ble_test_consumers' = ble_test_consumers
    BY <1>4 DEF AddConsumerToTable
  <2>2. Idle \in Logging /\ Idle.step = "idle"
    BY DEF Idle, Logging, Step, Kind, Kinds, Task
  <2>3. \A u \in Task : logging'[u] = IF u = t THEN Idle ELSE logging[u]
    BY <2>1 DEF Table, TableTypeOK
  <2>4. TableTypeOK'
    BY <1>3, <2>1, <2>2, <2>3 DEF Table, TableTypeOK
  <2>5. OneRowPerSender'
    BY <2>1, <2>2, <2>3 DEF Table, OneRowPerSender
  <2> QED BY <2>1, <2>2, <2>3, <2>4, <2>5 DEF Table
<1>5. CASE index # NoRow
  <2> DEFINE l == [logging[t] EXCEPT !.step = "count_added", !.index = index]
             row == [ble_test_consumers[index] EXCEPT !.mac_address = mac]
  <2>1. /\ logging' = [logging EXCEPT ![t] = l]
        /\ ble_test_consumers' =
               [ble_test_consumers EXCEPT ![index].mac_address = mac]
    BY <1>5 DEF AddConsumerToTable
  <2>2. index \in Row
    BY <1>2, <1>5
  <2>3. /\ ble_test_consumers' \in [Row -> RowType]
        /\ \A i \in Row : ble_test_consumers'[i].mac_address =
               IF i = index THEN mac ELSE ble_test_consumers[i].mac_address
    BY <1>1, <2>1, <2>2 DEF Table, TableTypeOK, RowType
  <2>4. /\ l \in Logging /\ l.step = "count_added" /\ l.index = index
        /\ l.mac = mac
    BY <2>2 DEF Table, TableTypeOK, Logging, Step
  <2>5. \A u \in Task : logging'[u] = IF u = t THEN l ELSE logging[u]
    BY <2>1 DEF Table, TableTypeOK
  <2>6. logging' \in [Task -> Logging]
    BY <2>1, <2>4 DEF Table, TableTypeOK
  <2> HIDE DEF l, mac, index
  <2>7. TableTypeOK'
    BY <1>3, <2>2, <2>3, <2>4, <2>5, <2>6 DEF Table, TableTypeOK
  <2>8. \A j \in Row : j < index =>
            ble_test_consumers[j].mac_address \notin {mac, zero_mac}
    <3>1. \A j \in Row : j < index => j \in 1 .. index - 1
      BY <2>2, TableAssumption DEF Row
    <3> QED BY <1>2, <1>5, <3>1
  <2>9. \A j \in Row \ {index} : ble_test_consumers[j].mac_address # mac
    <3>1. ASSUME NEW j \in Row, j > index,
                 ble_test_consumers[j].mac_address = mac
          PROVE  FALSE
      <4>1. CASE ble_test_consumers[index].mac_address = zero_mac
        BY <1>1, <2>2, <3>1, <4>1, TableAssumption DEF Table, Row
      <4>2. CASE ble_test_consumers[index].mac_address = mac
        BY <1>1, <2>2, <3>1, <4>2, TableAssumption
           DEF Table, OneRowPerSender, Row
      <4> QED BY <1>2, <1>5, <4>1, <4>2
    <3>2. \A j \in Row \ {index} : j < index \/ j > index
      BY <2>2, TableAssumption DEF Row
    <3> QED BY <2>8, <3>1, <3>2
  <2>10. OneRowPerSender'
    <3>1. ASSUME NEW i \in Row, NEW j \in Row,
                 ble_test_consumers'[i].mac_address =
                     ble_test_consumers'[j].mac_address,
                 ble_test_consumers'[i].mac_address # zero_mac
          PROVE  i = j
      BY <2>3, <2>9, <3>1 DEF Table, OneRowPerSender
    <3>2. ASSUME NEW u \in Task, logging'[u].step \in {"count", "count_added"}
          PROVE  ble_test_consumers'[logging'[u].index].mac_address =
                     logging'[u].mac
      <4>1. CASE u = t
        BY <2>2, <2>3, <2>4, <2>5, <4>1
      <4>2. CASE u # t
        <5>1. /\ logging'[u] = logging[u]
              /\ logging[u].index \in Row
              /\ ble_test_consumers[logging[u].index].mac_address =
                     logging[u].mac
          BY <2>5, <3>2, <4>2 DEF Table, OneRowPerSender, TableTypeOK
        <5>2. CASE logging[u].index # index
          BY <2>3, <5>1, <5>2
        <5>3. CASE logging[u].index = index
          <6>1. logging[u].mac \in {mac, zero_mac}
            BY <1>2, <1>5, <5>1, <5>3
          <6>2. logging[u].mac # zero_mac
            BY <3>2, <4>2, <2>5, TableAssumption DEF Table
          <6> QED BY <2>3, <5>1, <5>3, <6>1, <6>2
        <5> QED BY <5>2, <5>3
      <4> QED BY <4>1, <4>2
    <3> QED BY <3>1, <3>2 DEF OneRowPerSender
  <2>11. ASSUME NEW i \in Row, NEW j \in Row, i < j,
                ble_test_consumers'[i].mac_address = zero_mac
         PROVE  ble_test_consumers'[j].mac_address = zero_mac
    <3>1. i # index /\ ble_test_consumers[i].mac_address = zero_mac
      BY <1>1, <2>3, <2>11
    <3>2. ~ (i < index)
      BY <2>8, <3>1
    <3>3. j # index
      BY <2>2, <2>11, <3>2, TableAssumption DEF Row
    <3> QED BY <2>3, <2>11, <3>1, <3>3 DEF Table
  <2>12. \A u \in Task : logging'[u].step # "idle" => logging'[u].mac \in Sender
    BY <1>1, <2>4, <2>5 DEF Table
  <2> QED BY <2>7, <2>10, <2>11, <2>12 DEF Table
<1> QED BY <1>4, <1>5

LEMMA TableCount ==
    ASSUME Table, NEW t \in Task, CountPacket(t)
    PROVE  Table'
<1> DEFINE index == logging[t].index
           row == Counted(ble_test_consumers[index], logging[t].kind)
           l == IF logging[t].kind = "not_authorize" /\ logging[t].step = "count"
                THEN [logging[t] EXCEPT !.step = "add"] ELSE Idle
<1>1. /\ logging[t].step \in {"count", "count_added"}
      /\ ble_test_consumers' = [ble_test_consumers EXCEPT ![index] = row]
      /\ logging' = [logging EXCEPT ![t] = l]
      /\ packets' = packets
  BY DEF CountPacket, Table, TableTypeOK
<1>2. index \in Row /\ logging[t].mac \in Sender
  BY <1>1 DEF Table, TableTypeOK
<1>3. row \in RowType /\ row.mac_address = ble_test_consumers[index].mac_address
  <2>1. ble_test_consumers[index] \in RowType
    BY <1>2 DEF Table, TableTypeOK
  <2> QED BY <2>1 DEF Counted, RowType
<1>4. l \in Logging /\ l.step \in {"idle", "add"} /\ (l.step = "add" => l.mac \in Sender)
  BY <1>2 DEF Idle, Logging, Step, Kind, Kinds, Task, Table, TableTypeOK
<1> HIDE DEF l, row, index
<1>5. /\ ble_test_consumers' \in [Row -> RowType]
      /\ \A i \in Row : ble_test_consumers'[i].mac_address =
                            ble_test_consumers[i].mac_address
  BY <1>1, <1>2, <1>3 DEF Table, TableTypeOK
<1>6. \A u \in Task : logging'[u] = IF u = t THEN l ELSE logging[u]
  BY <1>1 DEF Table, TableTypeOK
<1>7. logging' \in [Task -> Logging]
  BY <1>1, <1>4 DEF Table, TableTypeOK
<1>8. TableTypeOK'
  BY <1>1, <1>4, <1>5, <1>6, <1>7 DEF Table, TableTypeOK
<1>9. OneRowPerSender'
  <2>1. ASSUME NEW u \in Task, logging'[u].step \in {"count", "count_added"}
        PROVE  ble_test_consumers'[logging'[u].index].mac_address =
                   logging'[u].mac
    <3>1. u # t /\ logging'[u] = logging[u]
      BY <1>4, <1>6, <2>1
    <3> QED BY <1>5, <2>1, <3>1 DEF Table, OneRowPerSender, TableTypeOK
  <2> QED BY <1>5, <2>1 DEF Table, OneRowPerSender
<1> QED BY <1>4, <1>5, <1>6, <1>8, <1>9 DEF Table

LEMMA TableNext ==
    ASSUME Table, (\E t \in Task : TableStep(t)) \/ UNCHANGED tableVars
    PROVE  Table'
<1>1. CASE \E t \in Task : TableStep(t)
  BY <1>1, TableLookUp, TableAdd, TableCount DEF TableStep
<1>2. CASE UNCHANGED tableVars
  BY <1>2 DEF tableVars, Table, TableTypeOK, OneRowPerSender
<1> QED BY <1>1, <1>2
----------------------------------------------------------------------------
\* The program.

Requests == Seq([op : Event, arg : {0}])

Typed ==
    /\ Table
    /\ ControllerTypeOK
    /\ gapRequests \in Requests
    /\ phase \in [Sender -> Phase]
    /\ restarts \in 0 .. MaxRestarts
    /\ received_test_start \in BOOLEAN
    /\ test_senders \in [Slot -> Sender \cup {zero_mac}]
    /\ receiverAppEventGroup \subseteq Bit
    /\ state \in State
    /\ measurements \in Nat
    /\ ended \subseteq Sender

\* The one start that is reported is on its way, or was taken.
Started ==
    /\ ~ received_test_start =>
           "EVENT_START_PDU" \notin receiverAppEventGroup /\ measurements = 0
    /\ "EVENT_START_PDU" \in receiverAppEventGroup => measurements = 0
    /\ measurements <= 1

\* The slots hold different senders whose end was heard, and are used in
\* order; an end that is reported found them full.
Ending == \/ "EVENT_END_PDU" \in receiverAppEventGroup
          \/ state \in {"CLEANUP_STATE", "CLEANUP_DELAY"}

Slots ==
    /\ \A i \in Slot : test_senders[i] \in ended \cup {zero_mac}
    /\ \A i, j \in Slot :
           test_senders[i] = test_senders[j] /\ test_senders[i] # zero_mac
               => i = j
    /\ \A i, j \in Slot : i < j /\ test_senders[i] = zero_mac
           => test_senders[j] = zero_mac
    /\ IsFiniteSet(ended)
    /\ Ending => \A i \in Slot : test_senders[i] # zero_mac

Inv == Typed /\ Started /\ Slots

LEMMA InvInit == Init => Inv
<1> SUFFICES ASSUME Init PROVE Inv
  OBVIOUS
<1>1. Table
  BY TableInit DEF Init
<1>2. gapRequests \in Requests
  BY DEF Init, InitController, Requests
<1>3. Typed
  <2>1. ControllerTypeOK
    BY DEF Init, InitController, ControllerTypeOK, BroadcastState, ScannerState
  <2>2. restarts \in 0 .. MaxRestarts
    BY ReceiverAssumption DEF Init
  <2>3. /\ phase \in [Sender -> Phase]
        /\ received_test_start \in BOOLEAN
        /\ test_senders \in [Slot -> Sender \cup {zero_mac}]
        /\ receiverAppEventGroup \subseteq Bit
        /\ state \in State
        /\ measurements \in Nat
        /\ ended \subseteq Sender
    BY DEF Init, Phase, State
  <2> QED BY <1>1, <1>2, <2>1, <2>2, <2>3 DEF Typed
<1>4. Started
  BY DEF Init, Started
<1>5. Slots
  BY FS_EmptySet DEF Init, Slots, Ending
<1> QED BY <1>3, <1>4, <1>5 DEF Inv

\* The requests are answered without an argument to keep.
LEMMA ControllerTyped ==
    ASSUME ControllerTypeOK, gapRequests \in Requests, BcStep
    PROVE  ControllerTypeOK' /\ gapRequests' \in Requests
<1>1. CASE GapComplete
  <2> DEFINE T == [op : Event, arg : {0}]
  <2>0. gapRequests \in Seq(T) /\ gapRequests # <<>>
    BY <1>1 DEF GapComplete, Requests
  <2>1. Head(gapRequests) \in T /\ Tail(gapRequests) \in Seq(T)
    <3> HIDE DEF T
    <3> QED BY <2>0
  <2>2. /\ gapRequests' \in Requests
        /\ eventGroup' \subseteq Event
        /\ scanning' \in BOOLEAN
    BY <1>1, <2>1 DEF GapComplete, ControllerTypeOK, Requests
  <2> QED BY <1>1, <2>2 DEF GapComplete, ControllerTypeOK
<1>2. CASE BcWait
  BY <1>2 DEF BcWait, ControllerTypeOK, stackVars
<1>3. CASE BcServe
  BY <1>3 DEF BcServe, ControllerTypeOK, stackVars, BroadcastState,
              ScannerState
<1> QED BY <1>1, <1>2, <1>3 DEF BcStep

\* Whoever is added has a slot of his own, the first that was free, or all
\* are others'.
LEMMA SlotGiven ==
    ASSUME Typed, Slots, NEW mac \in Sender
    PROVE  \/ /\ \A i \in Slot : test_senders[i] \notin {mac, zero_mac}
              /\ CheckAndAddTestSender(mac) = test_senders
           \/ \E k \in Slot :
                  /\ test_senders[k] \in {mac, zero_mac}
                  /\ \A j \in 1 .. k - 1 : test_senders[j] \notin {mac, zero_mac}
                  /\ CheckAndAddTestSender(mac) =
                         [test_senders EXCEPT ![k] = mac]
<1> DEFINE S == {i \in Slot : test_senders[i] \in {mac, zero_mac}}
<1>1. CASE S = {}
  BY <1>1 DEF CheckAndAddTestSender
<1>2. CASE S # {}
  <2>1. S \in SUBSET (1 .. SENDERS_NUMBER) /\ SENDERS_NUMBER \in Nat
    BY ReceiverAssumption DEF Slot
  <2>2. PICK i \in S : \A j \in 1 .. i - 1 : j \notin S
    BY <1>2, <2>1, FirstPlace
  <2>3. \A j \in 1 .. i - 1 : j \in Slot
    BY <2>1 DEF Slot
  <2>4. \E k \in Slot :
            /\ test_senders[k] \in {mac, zero_mac}
            /\ \A j \in 1 .. k - 1 : test_senders[j] \notin {mac, zero_mac}
    BY <2>2, <2>3
  <2> DEFINE k == CHOOSE k \in Slot :
                      /\ test_senders[k] \in {mac, zero_mac}
                      /\ \A j \in 1 .. k - 1 :
                             test_senders[j] \notin {mac, zero_mac}
  <2>5. CheckAndAddTestSender(mac) = [test_senders EXCEPT ![k] = mac]
    BY <1>2 DEF CheckAndAddTestSender
  <2>6. /\ k \in Slot
        /\ test_senders[k] \in {mac, zero_mac}
        /\ \A j \in 1 .. k - 1 : test_senders[j] \notin {mac, zero_mac}
    <3> HIDE DEF S
    <3> QED BY <2>4
  <2> HIDE DEF k, S
  <2> QED BY <2>5, <2>6
<1> QED BY <1>1, <1>2

LEMMA SlotsHeard ==
    ASSUME Typed, Slots, NEW mac \in Sender,
           test_senders' = CheckAndAddTestSender(mac),
           ended' = ended \cup {mac}
    PROVE  /\ test_senders' \in [Slot -> Sender \cup {zero_mac}]
           /\ \A i \in Slot : test_senders'[i] \in ended' \cup {zero_mac}
           /\ \A i, j \in Slot :
                  /\ test_senders'[i] = test_senders'[j]
                  /\ test_senders'[i] # zero_mac
                  => i = j
           /\ \A i, j \in Slot : i < j /\ test_senders'[i] = zero_mac
                  => test_senders'[j] = zero_mac
           /\ IsFiniteSet(ended')
           /\ \A i \in Slot :
                  test_senders[i] # zero_mac => test_senders'[i] # zero_mac
<1>1. mac # zero_mac
  BY TableAssumption
<1>2. IsFiniteSet(ended')
  BY FS_AddElement DEF Slots
<1>3. CASE CheckAndAddTestSender(mac) = test_senders
  BY <1>2, <1>3 DEF Typed, Slots
<1>4. CASE \E k \in Slot :
               /\ test_senders[k] \in {mac, zero_mac}
               /\ \A j \in 1 .. k - 1 : test_senders[j] \notin {mac, zero_mac}
               /\ CheckAndAddTestSender(mac) = [test_senders EXCEPT ![k] = mac]
  <2>1. PICK k \in Slot :
            /\ test_senders[k] \in {mac, zero_mac}
            /\ \A j \in 1 .. k - 1 : test_senders[j] \notin {mac, zero_mac}
            /\ test_senders' = [test_senders EXCEPT ![k] = mac]
    BY <1>4
  <2>2. \A i \in Slot : test_senders'[i] = IF i = k THEN mac ELSE test_senders[i]
    BY <2>1 DEF Typed
  <2>3. test_senders' \in [Slot -> Sender \cup {zero_mac}]
    BY <2>1 DEF Typed
  <2>4. \A i \in Slot : i \in Nat /\ (i < k => i \in 1 .. k - 1)
    BY ReceiverAssumption DEF Slot
  <2>5. ASSUME NEW j \in Slot, j # k PROVE test_senders[j] # mac
    <3>1. CASE j < k
      BY <2>1, <2>4, <3>1
    <3>2. CASE j > k
      BY <1>1, <2>1, <2>5, <3>2 DEF Slots
    <3> QED BY <2>4, <2>5, <3>1, <3>2
  <2>6. ASSUME NEW i \in Slot, NEW j \in Slot,
               test_senders'[i] = test_senders'[j],
               test_senders'[i] # zero_mac
        PROVE  i = j
    BY <2>2, <2>5, <2>6 DEF Slots
  <2>7. ASSUME NEW i \in Slot, NEW j \in Slot, i < j,
               test_senders'[i] = zero_mac
        PROVE  test_senders'[j] = zero_mac
    <3>1. i # k /\ test_senders[i] = zero_mac
      BY <1>1, <2>2, <2>7
    <3>2. ~ (i < k)
      BY <2>1, <2>4, <3>1
    <3>3. j # k
      BY <2>4, <2>7, <3>2, <3>1
    <3> QED BY <2>2, <2>7, <3>1, <3>3 DEF Slots
  <2>8. \A i \in Slot : test_senders'[i] \in ended' \cup {zero_mac}
    BY <2>2 DEF Slots
  <2>9. \A i \in Slot :
            test_senders[i] # zero_mac => test_senders'[i] # zero_mac
    BY <1>1, <2>2
  <2> QED BY <1>2, <2>3, <2>6, <2>7, <2>8, <2>9
<1> QED BY <1>3, <1>4, SlotGiven
----------------------------------------------------------------------------
LEMMA SenderKeeps ==
    ASSUME Inv, NEW s \in Sender, SenderAdvances(s) \/ SenderRestarts(s)
    PROVE  Inv'
<1>1. UNCHANGED <<bcVars, tableVars, callbackVars, receiverAppEventGroup,
                  mainVars>>
  BY DEF SenderAdvances, SenderRestarts
<1>2. Table'
  BY <1>1, TableNext DEF Inv, Typed
<1>3. ControllerTypeOK' /\ gapRequests' \in Requests
  BY <1>1 DEF Inv, Typed, ControllerTypeOK, bcVars, controllerVars, stackVars
<1>4. phase' \in [Sender -> Phase]
  <2>1. phase[s] \in {"off", "start", "data", "end"}
    BY DEF Inv, Typed, Phase
  <2>2. CASE SenderAdvances(s)
    <3>1. NextPhase[phase[s]] \in Phase
      BY <2>1, <2>2 DEF SenderAdvances, NextPhase, Phase
    <3> QED BY <2>2, <3>1 DEF SenderAdvances, Inv, Typed
  <2>3. CASE SenderRestarts(s)
    BY <2>3 DEF SenderRestarts, Inv, Typed, Phase
  <2> QED BY <2>2, <2>3
<1>5. restarts' \in 0 .. MaxRestarts
  BY ReceiverAssumption DEF SenderAdvances, SenderRestarts, Inv, Typed
<1>6. Typed'
  BY <1>1, <1>2, <1>3, <1>4, <1>5 DEF Inv, Typed, callbackVars, mainVars
<1>7. Started' /\ Slots'
  BY <1>1 DEF Inv, Started, Slots, Ending, callbackVars, mainVars
<1> QED BY <1>6, <1>7 DEF Inv

LEMMA HearStartKeeps ==
    ASSUME Inv, NEW s \in Sender, HearStart(s)
    PROVE  Inv'
<1>1. UNCHANGED <<bcVars, tableVars, senderVars, test_senders, ended, mainVars>>
  BY DEF HearStart
<1>2. Table'
  BY <1>1, TableNext DEF Inv, Typed
<1>3. ControllerTypeOK' /\ gapRequests' \in Requests
  BY <1>1 DEF Inv, Typed, ControllerTypeOK, bcVars, controllerVars, stackVars
<1>4. Typed'
  BY <1>1, <1>2, <1>3 DEF HearStart, Inv, Typed, senderVars, mainVars, Bit
<1>5. Started'
  BY <1>1 DEF HearStart, Inv, Started, mainVars
<1>6. Slots'
  BY <1>1 DEF HearStart, Inv, Slots, Ending, mainVars
<1> QED BY <1>4, <1>5, <1>6 DEF Inv

LEMMA HearEndKeeps ==
    ASSUME Inv, NEW s \in Sender, HearEnd(s)
    PROVE  Inv'
<1>1. UNCHANGED <<bcVars, tableVars, senderVars, received_test_start, mainVars>>
  BY DEF HearEnd
<1>2. Table'
  BY <1>1, TableNext DEF Inv, Typed
<1>3. ControllerTypeOK' /\ gapRequests' \in Requests
  BY <1>1 DEF Inv, Typed, ControllerTypeOK, bcVars, controllerVars, stackVars
<1>4. /\ test_senders' \in [Slot -> Sender \cup {zero_mac}]
      /\ \A i \in Slot : test_senders'[i] \in ended' \cup {zero_mac}
      /\ \A i, j \in Slot :
             /\ test_senders'[i] = test_senders'[j]
             /\ test_senders'[i] # zero_mac
             => i = j
      /\ \A i, j \in Slot : i < j /\ test_senders'[i] = zero_mac
             => test_senders'[j] = zero_mac
      /\ IsFiniteSet(ended')
      /\ \A i \in Slot : test_senders[i] # zero_mac => test_senders'[i] # zero_mac
  BY SlotsHeard DEF HearEnd, Inv
<1>5. Typed'
  BY <1>1, <1>2, <1>3, <1>4 DEF HearEnd, Inv, Typed, senderVars, mainVars, Bit
<1>6. Started'
  BY <1>1 DEF HearEnd, Inv, Started, mainVars
<1>7. Ending' => \A i \in Slot : test_senders'[i] # zero_mac
  BY <1>1, <1>4 DEF HearEnd, Inv, Slots, Ending, mainVars
<1>8. Slots'
  BY <1>4, <1>7 DEF Slots
<1> QED BY <1>5, <1>6, <1>8 DEF Inv

\* The requests scanning takes: a stop of what is broadcast, and the start.
LEMMA ScanRequests ==
    ASSUME Typed PROVE StartScanning \in Requests
<1> DEFINE T == [op : Event, arg : {0}]
<1>1. Request("ADV_STOP", 0) \in T /\ Request("SCAN_START", 0) \in T
  BY DEF Request, Event, Rank
<1>2. /\ StopBroadcasting \in Seq(T)
      /\ (IF scannerState = "NOT_ACTIVE"
          THEN << Request("SCAN_START", 0) >> ELSE <<>>) \in Seq(T)
  <2> HIDE DEF T
  <2> QED BY <1>1 DEF StopBroadcasting
<1>3. StartScanning \in Seq(T)
  <2> HIDE DEF T
  <2> QED BY <1>2 DEF StartScanning
<1> QED BY <1>3 DEF Requests

LEMMA MainKeeps ==
    ASSUME Inv, ReceiverMain
    PROVE  Inv'
<1>1. UNCHANGED <<tableVars, senderVars, callbackVars>>
  BY DEF ReceiverMain, AppMain, WaitForTestStartPdu, ScanningPdus,
         CleanupState, CleanedUp
<1>2. Table'
  BY <1>1, TableNext DEF Inv, Typed
<1>3. ControllerTypeOK' /\ gapRequests' \in Requests
  <2>1. CASE AppMain
    <3>1. gapRequests' = gapRequests \o StartScanning
      BY <2>1 DEF AppMain, Call
    <3> DEFINE T == [op : Event, arg : {0}]
    <3>2. gapRequests \in Seq(T) /\ StartScanning \in Seq(T)
      BY ScanRequests DEF Inv, Typed, Requests
    <3>3. gapRequests' \in Seq(T)
      <4> HIDE DEF T
      <4> QED BY <3>1, <3>2
    <3>4. ControllerTypeOK'
      BY <2>1 DEF AppMain, Call, Inv, Typed, ControllerTypeOK, controllerVars
    <3> QED BY <3>3, <3>4 DEF Requests
  <2>2. CASE ~ AppMain
    <3>1. UNCHANGED bcVars
      BY <2>2 DEF ReceiverMain, WaitForTestStartPdu, ScanningPdus,
                  CleanupState, CleanedUp
    <3> QED BY <3>1 DEF Inv, Typed, ControllerTypeOK, bcVars, controllerVars,
                        stackVars
  <2> QED BY <2>1, <2>2
<1>4. /\ receiverAppEventGroup' \in {receiverAppEventGroup, {}}
      /\ state' \in State
      /\ measurements' \in {measurements, measurements + 1}
      /\ measurements' = measurements + 1 =>
             "EVENT_START_PDU" \in receiverAppEventGroup
             /\ receiverAppEventGroup' = {}
      /\ Ending' => Ending
  BY DEF ReceiverMain, AppMain, WaitForTestStartPdu, ScanningPdus,
         CleanupState, CleanedUp, mainVars, State, Ending, Inv, Typed
<1>5. Typed'
  BY <1>1, <1>2, <1>3, <1>4 DEF Inv, Typed, senderVars, callbackVars
<1>6. Started'
  BY <1>1, <1>4 DEF Inv, Typed, Started, callbackVars
<1>7. Slots'
  BY <1>1, <1>4 DEF Inv, Slots, callbackVars
<1> QED BY <1>5, <1>6, <1>7 DEF Inv

LEMMA OthersKeep ==
    ASSUME Inv, Controller \/ (\E t \in Task : Logs(t)) \/ UNCHANGED vars
    PROVE  Inv'
<1>1. AppUnchanged
  BY DEF Controller, Logs, vars, AppUnchanged
<1>2. Table'
  <2>1. (\E t \in Task : TableStep(t)) \/ UNCHANGED tableVars
    BY DEF Controller, Logs, vars
  <2> QED BY <2>1, TableNext DEF Inv, Typed
<1>3. ControllerTypeOK' /\ gapRequests' \in Requests
  <2>1. CASE BcStep
    BY <2>1, ControllerTyped DEF Inv, Typed
  <2>2. CASE UNCHANGED bcVars
    BY <2>2 DEF Inv, Typed, ControllerTypeOK, bcVars, controllerVars, stackVars
  <2> QED BY <2>1, <2>2 DEF Controller, Logs, vars
<1>4. Typed'
  BY <1>1, <1>2, <1>3
     DEF Inv, Typed, AppUnchanged, senderVars, callbackVars, mainVars
<1>5. Started' /\ Slots'
  BY <1>1 DEF Inv, Started, Slots, Ending, AppUnchanged, callbackVars, mainVars
<1> QED BY <1>4, <1>5 DEF Inv

LEMMA InvNext == Inv /\ [Next]_vars => Inv'
<1> SUFFICES ASSUME Inv, [Next]_vars PROVE Inv'
  OBVIOUS
<1>1. \/ \E s \in Sender : \/ SenderAdvances(s) \/ SenderRestarts(s)
                           \/ HearStart(s) \/ HearEnd(s)
      \/ ReceiverMain
      \/ Controller \/ (\E t \in Task : Logs(t)) \/ UNCHANGED vars
  BY DEF Next
<1> QED BY <1>1, SenderKeeps, HearStartKeeps, HearEndKeeps, MainKeeps,
           OthersKeep
----------------------------------------------------------------------------
\* The variables of the receiver program, its controller and its table keep
\* their types.
THEOREM TypeCorrect == Spec => []TypeOK
<1>1. Inv => TypeOK
  BY DEF Inv, Typed, Table, TypeOK
<1> QED BY <1>1, InvInit, InvNext, PTL DEF Spec

\* However the three tasks interleave their look-ups and additions, no two
\* rows of the table are one sender's, and a task counts in the row of the
\* sender it looked up; in a full table as well.
THEOREM RowsUnique == Spec => []OneRowPerSender
<1>1. Inv => OneRowPerSender
  BY DEF Inv, Typed, Table
<1> QED BY <1>1, InvInit, InvNext, PTL DEF Spec

\* However many senders start, and however often, one test is measured.
THEOREM OneMeasurement == Spec => []MeasuredOnce
<1>1. Inv => MeasuredOnce
  BY DEF Inv, Started, MeasuredOnce
<1> QED BY <1>1, InvInit, InvNext, PTL DEF Spec

\* A test ends after as many different senders as there are slots: the
\* slots are then filled by an injection into the senders whose end was
\* heard.
THEOREM EndAfterAll == Spec => []EndsOnlyAfterAll
<1>1. Inv => EndsOnlyAfterAll
  <2> SUFFICES ASSUME Inv, state \in {"CLEANUP_STATE", "CLEANUP_DELAY"}
               PROVE  Cardinality(ended) >= SENDERS_NUMBER
    BY DEF EndsOnlyAfterAll
  <2>1. \A i \in Slot : test_senders[i] \in ended
    BY DEF Inv, Slots, Ending
  <2>2. test_senders \in [Slot -> ended]
    BY <2>1 DEF Inv, Typed
  <2>3. \A i, j \in Slot : test_senders[i] = test_senders[j] => i = j
    BY DEF Inv, Slots, Ending
  <2>4. test_senders \in Injection(Slot, ended)
    BY <2>2, <2>3 DEF Injection, IsInjective
  <2>5. IsFiniteSet(ended)
    BY DEF Inv, Slots
  <2>6. Cardinality(Slot) <= Cardinality(ended)
    BY <2>4, <2>5, FS_Injection
  <2>7. Cardinality(Slot) = SENDERS_NUMBER
    BY FS_Interval, 1 \in Int, ReceiverAssumption DEF Slot
  <2>8. Cardinality(ended) \in Nat
    BY <2>5, FS_CardinalityType
  <2> QED BY <2>6, <2>7, <2>8, ReceiverAssumption
<1> QED BY <1>1, InvInit, InvNext, PTL DEF Spec
===========================================================================
