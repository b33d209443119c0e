---------------------------- MODULE ReceiverApp ----------------------------
(***************************************************************************)
(* The receiver program (receiver_main.c) over the broadcast controller,   *)
(* with the table its tasks count packets in.                              *)
(*                                                                         *)
(* The call-back of the scanner, which runs in the Bluetooth host's task,  *)
(* sets bits of an event group; the main task waits for the bits, 50 ms at *)
(* most, takes all of them, and goes through a test.  It takes the bits in *)
(* every state, those it has no use for as well.                           *)
(*                                                                         *)
(* The senders follow docs/test_procedure_2_senders.plantuml: each         *)
(* broadcasts a start PDU, its data, and an end PDU for as long as it      *)
(* runs; it may be restarted MaxRestarts times in all.  What is broadcast  *)
(* is heard or not.                                                        *)
(***************************************************************************)
EXTENDS BroadcastController, TestTable, FiniteSets

CONSTANTS SENDERS_NUMBER,  \* 2
          MaxRestarts      \* bound of a run

ASSUME ReceiverAssumption ==
    /\ SENDERS_NUMBER \in Nat \ {0}
    /\ MaxRestarts \in Nat

VARIABLES
    phase,                  \* environment: what each sender broadcasts
    restarts,               \* environment: restarts so far
    received_test_start,    \* static variable of the call-back
    test_senders,           \* addresses whose end PDU was heard
    receiverAppEventGroup,
    state,                  \* state of the main task's machine
    measurements,           \* history: calls of start_test_measurment
    ended                   \* history: senders whose end PDU was heard

senderVars == <<phase, restarts>>
callbackVars == <<received_test_start, test_senders, ended>>
mainVars == <<state, measurements>>
vars == <<bcVars, tableVars, senderVars, callbackVars, receiverAppEventGroup,
          mainVars>>

Phase == {"off", "start", "data", "end"}
State == {"APP_MAIN", "WAIT_FOR_TEST_START_PDU", "SCANNING_PDUS",
          "CLEANUP_STATE", "CLEANUP_DELAY"}
Bit == {"EVENT_START_PDU", "EVENT_END_PDU"}
Slot == 1 .. SENDERS_NUMBER

Init == /\ InitController
        /\ InitTable
        /\ phase = [s \in Sender |-> "off"]
        /\ restarts = 0
        /\ received_test_start = FALSE
        /\ test_senders = [i \in Slot |-> zero_mac]
        /\ receiverAppEventGroup = {}
        /\ state = "APP_MAIN"
        /\ measurements = 0
        /\ ended = {}
----------------------------------------------------------------------------
(* The senders. *)

NextPhase == [off |-> "start", start |-> "data", data |-> "end"]

SenderAdvances(s) ==
    /\ phase[s] # "end"
    /\ phase' = [phase EXCEPT ![s] = NextPhase[@]]
    /\ UNCHANGED <<bcVars, tableVars, restarts, callbackVars,
                   receiverAppEventGroup, mainVars>>

SenderRestarts(s) ==
    /\ phase[s] = "end"
    /\ restarts < MaxRestarts
    /\ restarts' = restarts + 1
    /\ phase' = [phase EXCEPT ![s] = "off"]
    /\ UNCHANGED <<bcVars, tableVars, callbackVars, receiverAppEventGroup,
                   mainVars>>
----------------------------------------------------------------------------
(* The call-back: receiver_app_scan_complete_callback. *)

\* A call-back that reports every start PDU.
HearStart_Again(s) ==
    /\ scanning /\ phase[s] = "start"
    /\ received_test_start' = TRUE
    /\ receiverAppEventGroup' = receiverAppEventGroup \cup {"EVENT_START_PDU"}
    /\ UNCHANGED <<bcVars, tableVars, senderVars, test_senders, ended, mainVars>>

\* The first start PDU since power-on is reported.
HearStart(s) ==
    /\ scanning /\ phase[s] = "start"
    /\ ~ received_test_start
    /\ received_test_start' = TRUE
    /\ receiverAppEventGroup' = receiverAppEventGroup \cup {"EVENT_START_PDU"}
    /\ UNCHANGED <<bcVars, tableVars, senderVars, test_senders, ended, mainVars>>

\* A sender that fills every free slot.
CheckAndAddTestSender_Repeated(mac) ==
    IF \A i \in Slot : test_senders[i] # zero_mac THEN test_senders
    ELSE [test_senders EXCEPT
             ![CHOOSE i \in Slot : /\ test_senders[i] = zero_mac
                                   /\ \A j \in 1 .. i - 1 :
                                          test_senders[j] # zero_mac] = mac]

\* check_and_add_test_sender: the first slot that is free or is mac's.
CheckAndAddTestSender(mac) ==
    IF \A i \in Slot : test_senders[i] \notin {mac, zero_mac} THEN test_senders
    ELSE [test_senders EXCEPT
             ![CHOOSE i \in Slot :
                   /\ test_senders[i] \in {mac, zero_mac}
                   /\ \A j \in 1 .. i - 1 :
                          test_senders[j] \notin {mac, zero_mac}] = mac]

\* A call-back that reports the end once, as it does the start.
HearEnd_Once(s) ==
    /\ scanning /\ phase[s] = "end"
    /\ test_senders' = CheckAndAddTestSender(s)
    /\ ended' = ended \cup {s}
    /\ receiverAppEventGroup' =
           IF /\ \A i \in Slot : test_senders'[i] # zero_mac
              /\ \E i \in Slot : test_senders[i] = zero_mac
           THEN receiverAppEventGroup \cup {"EVENT_END_PDU"}
           ELSE receiverAppEventGroup
    /\ UNCHANGED <<bcVars, tableVars, senderVars, received_test_start, mainVars>>

\* The end is reported with every end PDU, once all senders' were heard.
HearEnd(s) ==
    /\ scanning /\ phase[s] = "end"
    /\ test_senders' = CheckAndAddTestSender(s)
    /\ ended' = ended \cup {s}
    /\ receiverAppEventGroup' =
           IF \A i \in Slot : test_senders'[i] # zero_mac
           THEN receiverAppEventGroup \cup {"EVENT_END_PDU"}
           ELSE receiverAppEventGroup
    /\ UNCHANGED <<bcVars, tableVars, senderVars, received_test_start, mainVars>>
----------------------------------------------------------------------------
(* The main task. *)

\* app_main: the call-back is registered, then scanning starts.
AppMain ==
    /\ state = "APP_MAIN"
    /\ Call(StartScanning)
    /\ state' = "WAIT_FOR_TEST_START_PDU"
    /\ UNCHANGED <<tableVars, senderVars, callbackVars, receiverAppEventGroup,
                   measurements>>

\* The wait takes the bits there are, or times out; the state decides what
\* they are good for.
WaitForTestStartPdu ==
    /\ state = "WAIT_FOR_TEST_START_PDU"
    /\ IF "EVENT_START_PDU" \in receiverAppEventGroup
       THEN /\ measurements' = measurements + 1
            /\ state' = "SCANNING_PDUS"
       ELSE UNCHANGED mainVars
    /\ receiverAppEventGroup' = {}
    /\ UNCHANGED <<bcVars, tableVars, senderVars, callbackVars>>

ScanningPdus ==
    /\ state = "SCANNING_PDUS"
    /\ state' = IF "EVENT_END_PDU" \in receiverAppEventGroup
                THEN "CLEANUP_STATE" ELSE state
    /\ receiverAppEventGroup' = {}
    /\ UNCHANGED <<bcVars, tableVars, senderVars, callbackVars, measurements>>

\* The test ends ten seconds after the wait that precedes the clean-up.
CleanupState ==
    /\ state = "CLEANUP_STATE"
    /\ receiverAppEventGroup' = {}
    /\ state' = "CLEANUP_DELAY"
    /\ UNCHANGED <<bcVars, tableVars, senderVars, callbackVars, measurements>>

CleanedUp ==
    /\ state = "CLEANUP_DELAY"
    /\ state' = "WAIT_FOR_TEST_START_PDU"
    /\ UNCHANGED <<bcVars, tableVars, senderVars, callbackVars,
                   receiverAppEventGroup, measurements>>

ReceiverMain == AppMain \/ WaitForTestStartPdu \/ ScanningPdus
                    \/ CleanupState \/ CleanedUp
----------------------------------------------------------------------------
AppUnchanged == UNCHANGED <<senderVars, callbackVars, receiverAppEventGroup,
                            mainVars>>

Logs(t) == TableStep(t) /\ AppUnchanged /\ UNCHANGED bcVars
Controller == BcStep /\ AppUnchanged /\ UNCHANGED tableVars

Next == \/ \E s \in Sender : SenderAdvances(s) \/ SenderRestarts(s)
                                 \/ HearStart(s) \/ HearEnd(s)
        \/ ReceiverMain
        \/ Controller
        \/ \E t \in Task : Logs(t)

Spec == Init /\ [][Next]_vars

\* The receiver's tasks run; the tester starts every sender, a sender that
\* runs comes to its end PDU, and goes on with it until it is heard.
FairSpec == /\ Spec
            /\ WF_vars(ReceiverMain)
            /\ WF_vars(Controller)
            /\ \A s \in Sender : WF_vars(SenderAdvances(s)) /\ WF_vars(HearEnd(s))
----------------------------------------------------------------------------
TypeOK ==
    /\ ControllerTypeOK
    /\ TableTypeOK
    /\ phase \in [Sender -> Phase]
    /\ restarts \in 0 .. MaxRestarts
    /\ received_test_start \in BOOLEAN
    /\ test_senders \in [Slot -> Sender \cup {zero_mac}]
    /\ receiverAppEventGroup \subseteq Bit
    /\ state \in State
    /\ measurements \in Nat
    /\ ended \subseteq Sender

\* A test does not end before SENDERS_NUMBER senders have broadcast their
\* end PDU, however often each is heard ("wait for the end of the other
\* sender", docs/test_procedure_2_senders.plantuml:25).
EndsOnlyAfterAll ==
    state \in {"CLEANUP_STATE", "CLEANUP_DELAY"} =>
        Cardinality(ended) >= SENDERS_NUMBER

\* One test is measured: start PDUs heard from the other sender, during the
\* clean-up or after a restart do not start a measurement anew
\* (receiver_main.c:212, 219).
MeasuredOnce == measurements <= 1

\* A test that was started ends: an end that the main task takes while it
\* waits for the start, and drops, is reported again with the next end PDU
\* (receiver_main.c:165, 229).
TestEnds == received_test_start /\ measurements = 0 ~> state = "CLEANUP_STATE"
============================================================================
