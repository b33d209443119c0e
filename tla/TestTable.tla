----------------------------- MODULE TestTable -----------------------------
(***************************************************************************)
(* The table in which the receiver's tasks count the packets of each       *)
(* sender (test.c).                                                        *)
(*                                                                         *)
(* Three tasks write to it: the processing task, the reconstruction task   *)
(* and the authorisation task.  Each looks a sender up under one hold of   *)
(* the mutex, adds it under another, and counts under the mutex of the     *)
(* row, so another task comes between any two of these steps.  The holds   *)
(* are short and the waits 50 ms: that a wait times out is left out.       *)
(* Times, queue fills and the log are left out.                            *)
(***************************************************************************)
EXTENDS Naturals

CONSTANTS Sender,            \* senders whose packets are counted
          MAX_TEST_CONSUMERS,\* 2
          zero_mac,          \* the address of a free row
          MaxPackets         \* bound of a run: packets counted

ASSUME TableAssumption ==
    /\ zero_mac \notin Sender
    /\ MAX_TEST_CONSUMERS \in Nat
    /\ MaxPackets \in Nat

VARIABLES ble_test_consumers,  \* the rows
          logging,             \* what each task is counting
          packets              \* how many were begun (bounds a run)

tableVars == <<ble_test_consumers, logging, packets>>

Row == 1 .. MAX_TEST_CONSUMERS
NoRow == 0

Task == {"processing", "reconstruction", "authorisation"}

\* The functions a task calls, by what they count.
Kinds == [processing |-> {"received", "already_decoded"},
          reconstruction |-> {"already_decoded", "bad_structure"},
          authorisation |-> {"not_authorize"}]
Kind == UNION {Kinds[t] : t \in Task}

RowType == [mac_address : Sender \cup {zero_mac},
            total_packets_received : Nat, no_bad_structure_packets : Nat,
            unauthorize_packets : Nat]

\* A task is idle, or has a packet of kind and mac to count: it adds the
\* sender to the table, or has its row.
Step == {"idle", "add", "count", "count_added"}
Logging == [step : Step, kind : Kind, mac : Sender \cup {zero_mac},
            index : Row \cup {NoRow}]

Idle == [step |-> "idle", kind |-> "received", mac |-> zero_mac,
         index |-> NoRow]

InitTable ==
    /\ ble_test_consumers =
           [i \in Row |-> [mac_address |-> zero_mac,
                           total_packets_received |-> 0,
                           no_bad_structure_packets |-> 0,
                           unauthorize_packets |-> 0]]
    /\ logging = [t \in Task |-> Idle]
    /\ packets = 0

\* The first of the rows for which a loop stops.
FirstRow(rows) ==
    IF rows = {} THEN NoRow
    ELSE CHOOSE i \in rows : \A j \in 1 .. i - 1 : j \notin rows

RowsOf(macs) == {i \in Row : ble_test_consumers[i].mac_address \in macs}

RowOf(mac) == FirstRow(RowsOf({mac}))

\* An addition that trusts the look-up before it.
RowToAdd_NoLookup(mac) == FirstRow(RowsOf({zero_mac}))

\* The row add_consumer_to_table gives mac, be it there already.
RowToAdd(mac) == FirstRow(RowsOf({mac, zero_mac}))

\* A task that takes -1 for a row.
GetConsumerIndex_Truth(t, kind, mac) ==
    /\ logging[t].step = "idle"
    /\ kind \in Kinds[t]
    /\ packets < MaxPackets
    /\ packets' = packets + 1
    /\ logging' = [logging EXCEPT ![t] =
           [step |-> "count", kind |-> kind, mac |-> mac, index |-> RowOf(mac)]]
    /\ UNCHANGED ble_test_consumers

\* get_consumer_index.  A sender that is not in the table is added next,
\* except for a fragment of a key that is known.
GetConsumerIndex(t, kind, mac) ==
    /\ logging[t].step = "idle"
    /\ kind \in Kinds[t]
    /\ packets < MaxPackets
    /\ packets' = packets + 1
    /\ LET index == RowOf(mac)
       IN  logging' = [logging EXCEPT ![t] =
               IF index = NoRow /\ kind = "already_decoded" THEN Idle
               ELSE [step |-> IF index = NoRow THEN "add" ELSE "count",
                     kind |-> kind, mac |-> mac, index |-> index]]
    /\ UNCHANGED ble_test_consumers

\* add_consumer_to_table: a full table leaves the packet uncounted.
AddConsumerToTable(t) ==
    /\ logging[t].step = "add"
    /\ LET mac == logging[t].mac
           index == RowToAdd(mac)
       IN  /\ logging' = [logging EXCEPT ![t] =
                  IF index = NoRow THEN Idle
                  ELSE [@ EXCEPT !.step = "count_added", !.index = index]]
           /\ ble_test_consumers' =
                  IF index = NoRow THEN ble_test_consumers
                  ELSE [ble_test_consumers EXCEPT ![index].mac_address = mac]
    /\ UNCHANGED packets

Counted(row, kind) ==
    CASE kind = "bad_structure" ->
             [row EXCEPT !.no_bad_structure_packets = @ + 1]
      [] kind = "not_authorize" -> [row EXCEPT !.unauthorize_packets = @ + 1]
      [] OTHER -> [row EXCEPT !.total_packets_received = @ + 1]

\* The count.  test_log_adv_time_not_authorize has no else between its two
\* branches: having counted the packet of a sender it found, it adds the
\* sender and counts again.
CountPacket(t) ==
    /\ logging[t].step \in {"count", "count_added"}
    /\ ble_test_consumers' = [ble_test_consumers EXCEPT
           ![logging[t].index] = Counted(@, logging[t].kind)]
    /\ logging' = [logging EXCEPT ![t] =
           IF @.kind = "not_authorize" /\ @.step = "count"
           THEN [@ EXCEPT !.step = "add"] ELSE Idle]
    /\ UNCHANGED packets

TableStep(t) == \/ \E kind \in Kinds[t], mac \in Sender :
                       GetConsumerIndex(t, kind, mac)
                \/ AddConsumerToTable(t)
                \/ CountPacket(t)
----------------------------------------------------------------------------
TableTypeOK ==
    /\ ble_test_consumers \in [Row -> RowType]
    /\ logging \in [Task -> Logging]
    /\ packets \in 0 .. MaxPackets
    /\ \A t \in Task :
           /\ logging[t].step = "add" => logging[t].mac \in Sender
           /\ logging[t].step \in {"count", "count_added"} =>
                  logging[t].index \in Row

\* A sender has one row, though the tasks look it up under one hold of the
\* mutex and add it under the next, and a row stays with the sender a task
\* is about to count in it (test.c:191-231).
OneRowPerSender ==
    /\ \A i, j \in Row :
           /\ ble_test_consumers[i].mac_address =
                  ble_test_consumers[j].mac_address
           /\ ble_test_consumers[i].mac_address # zero_mac
           => i = j
    /\ \A t \in Task :
           logging[t].step \in {"count", "count_added"} =>
               ble_test_consumers[logging[t].index].mac_address =
                   logging[t].mac
============================================================================
