----------------------------- MODULE SenderApp -----------------------------
(***************************************************************************)
(* The two sender programs (sender_app/sender_main.c and                   *)
(* sender_app_2nd/sender_main.c) over the key schedule and the broadcast   *)
(* controller.                                                             *)
(*                                                                         *)
(* Three threads: the main task, a state machine; the call-back of a       *)
(* one-shot timer, which builds one PDU, hands it to the controller and    *)
(* starts the timer again; and the controller's task.  The main task and   *)
(* the call-back share packet_send_counter and the controller.  A step     *)
(* ends where another thread can tell the difference: at a call of the     *)
(* controller and at a wait.                                               *)
(*                                                                         *)
(* TIME.  A delay is a step that may happen at any time, with two          *)
(* exceptions, both because a delay of seconds outlasts the stack, which   *)
(* answers in milliseconds: the timer (2 s at least) does not fire while a *)
(* start of broadcasting is on its way (StartAnswered), and the main task  *)
(* (10 s) does not repeat the end PDU before the stack took the last one.  *)
(***************************************************************************)
EXTENDS BroadcastController, PayloadEncryption, AdvInterval

CONSTANTS
    Apps,                     \* the programs: subset of {"1st", "2nd"}
    NO_PACKET_TO_SEND,        \* 2000
    PDU_TO_KEY_FRAGMENT_RATIO,\* 3: data PDUs for each key fragment
    TEST_ADV_INTERVAL,        \* the interval before the first session
    TEST_PAYLOAD_BYTES_LEN,   \* 10
    StartPdu, EndPdu          \* the PDUs that frame a test

ASSUME SenderAssumption ==
    /\ NO_PACKET_TO_SEND \in Nat \ {0}
    /\ PDU_TO_KEY_FRAGMENT_RATIO \in Nat
    /\ TEST_ADV_INTERVAL \in Nat
    /\ GetBeaconPduDataLen(TEST_PAYLOAD_BYTES_LEN) <= MAX_GAP_DATA_LEN
    /\ KEY_PDU_SIZE <= MAX_GAP_DATA_LEN
    /\ StartPdu \notin Pdu /\ EndPdu \notin Pdu /\ NoData \notin Pdu

VARIABLES
    app,                 \* the program this device runs
    xStartCmdReceived,   \* binary semaphore: the PC said START_TEST
    state,               \* state of the main task's machine
    packet_send_counter,
    pdu_send_counter,
    prev_key_id,
    adv_int,             \* default_ble_adv_params, in milliseconds
    timer,               \* the timer runs
    callback             \* where the timer call-back is

mainVars == <<xStartCmdReceived, state>>
callbackVars == <<packet_send_counter, pdu_send_counter, prev_key_id,
                  adv_int, callback>>
vars == <<bcVars, encryptionVars, app, mainVars, callbackVars, timer>>

TEST_PDU_SIZE == 14

State == {"WAIT_FOR_START_CMD", "TEST_START_PDU", "TEST_START_DELAY",
          "BROADCAST_PDU", "TEST_END_PDU"}
Callback == {"idle", "built", "stopping", "stopped", "restart", "rearm"}

Init == /\ InitController
        /\ InitPayloadEncryption
        /\ app \in Apps
        /\ xStartCmdReceived = FALSE
        /\ state = "WAIT_FOR_START_CMD"
        /\ packet_send_counter = 0
        /\ pdu_send_counter = PDU_TO_KEY_FRAGMENT_RATIO
        /\ prev_key_id = 0
        /\ adv_int = TEST_ADV_INTERVAL
        /\ timer = FALSE
        /\ callback = "idle"
----------------------------------------------------------------------------
(* The main task. *)

\* serial_data_received, on the PC's command.
SerialDataReceived ==
    /\ app = "1st"
    /\ xStartCmdReceived' = TRUE
    /\ UNCHANGED <<bcVars, encryptionVars, app, state, callbackVars, timer>>

\* The first program waits for the command, the second for five seconds.
SenderWaitForStartCmd ==
    /\ state = "WAIT_FOR_START_CMD"
    /\ app = "1st" => xStartCmdReceived
    /\ xStartCmdReceived' = FALSE
    /\ state' = "TEST_START_PDU"
    /\ UNCHANGED <<bcVars, encryptionVars, app, callbackVars, timer>>

SenderTestStartPdu ==
    /\ state = "TEST_START_PDU"
    /\ Call(SetBroadcastingPayload(StartPdu, TEST_PDU_SIZE)
                \o StartBroadcasting(adv_int))
    /\ state' = "TEST_START_DELAY"
    /\ UNCHANGED <<encryptionVars, app, xStartCmdReceived, callbackVars, timer>>

\* Four or five seconds later the timer is started for the first time.
SenderTestStarted ==
    /\ state = "TEST_START_DELAY"
    /\ timer' = TRUE
    /\ state' = "BROADCAST_PDU"
    /\ UNCHANGED <<bcVars, encryptionVars, app, xStartCmdReceived, callbackVars>>

\* The main task looks at the counter every 100 ms.
SenderBroadcastPdu ==
    /\ state = "BROADCAST_PDU"
    /\ packet_send_counter >= NO_PACKET_TO_SEND
    /\ state' = "TEST_END_PDU"
    /\ UNCHANGED <<bcVars, encryptionVars, app, xStartCmdReceived,
                   callbackVars, timer>>

EndPduTaken == \A i \in 1 .. Len(gapRequests) : gapRequests[i].arg # EndPdu

\* A machine that goes back to the start once the end PDU is set.
SenderTestEndPdu_BackToStart ==
    /\ state = "TEST_END_PDU"
    /\ Call(SetBroadcastingPayload(EndPdu, TEST_PDU_SIZE))
    /\ state' = "WAIT_FOR_START_CMD"
    /\ UNCHANGED <<encryptionVars, app, xStartCmdReceived, callbackVars, timer>>

\* The machine has no way out of this state: the end PDU is set again every
\* ten seconds.
SenderTestEndPdu ==
    /\ state = "TEST_END_PDU"
    /\ EndPduTaken
    /\ Call(SetBroadcastingPayload(EndPdu, TEST_PDU_SIZE))
    /\ UNCHANGED <<encryptionVars, app, mainVars, callbackVars, timer>>
----------------------------------------------------------------------------
(* The call-back of the timer: packet_send_timeout_timer. *)

\* No start of broadcasting is on its way.
StartAnswered ==
    /\ \A i \in 1 .. Len(gapRequests) : gapRequests[i].op # "ADV_START"
    /\ "ADV_START" \notin eventGroup \cup events

\* The timer fires after the last PDU: it is not started again.
PacketSendDone ==
    /\ timer
    /\ packet_send_counter >= NO_PACKET_TO_SEND
    /\ timer' = FALSE
    /\ UNCHANGED <<bcVars, encryptionVars, app, mainVars, callbackVars>>

\* One PDU in PDU_TO_KEY_FRAGMENT_RATIO + 1 is a key fragment.
PacketSendTimeout ==
    /\ timer
    /\ StartAnswered
    /\ packet_send_counter < NO_PACKET_TO_SEND
    /\ timer' = FALSE
    /\ packet_send_counter' = packet_send_counter + 1
    /\ IF pdu_send_counter = PDU_TO_KEY_FRAGMENT_RATIO
       THEN pdu_send_counter' = 0 /\ GetKeyFragmentPdu
       ELSE pdu_send_counter' = pdu_send_counter + 1 /\ EncryptPayload
    /\ callback' = "built"
    /\ UNCHANGED <<bcVars, app, mainVars, prev_key_id, adv_int>>

PduSize == IF pdu.cmd = "DATA_CMD"
           THEN GetBeaconPduDataLen(TEST_PAYLOAD_BYTES_LEN) ELSE KEY_PDU_SIZE

\* The identifier is a new one: the interval is changed, which takes a stop
\* and a start.
CallbackNewSession ==
    /\ callback = "built"
    /\ prev_key_id # key_id
    /\ Call(StopBroadcasting)
    /\ adv_int' = GetAdvIntervalFromKeyId(key_id)
    /\ callback' = "stopping"
    /\ UNCHANGED <<encryptionVars, app, mainVars, timer, packet_send_counter,
                   pdu_send_counter, prev_key_id>>

\* The call-back of the first program.
CallbackSameSession_NoElse ==
    /\ callback = "built"
    /\ prev_key_id = key_id
    /\ callback' = "rearm"
    /\ UNCHANGED <<bcVars, encryptionVars, app, mainVars, timer,
                   packet_send_counter, pdu_send_counter, prev_key_id, adv_int>>

\* The identifier is the previous one: the second program broadcasts the
\* PDU, the first does nothing with it.
CallbackSameSession ==
    /\ callback = "built"
    /\ prev_key_id = key_id
    /\ Call(IF app = "2nd" THEN SetBroadcastingPayload(pdu, PduSize) ELSE <<>>)
    /\ callback' = "rearm"
    /\ UNCHANGED <<encryptionVars, app, mainVars, timer, packet_send_counter,
                   pdu_send_counter, prev_key_id, adv_int>>

\* A call-back that does not wait for broadcasting to stop.
CallbackStopped_NoWait ==
    /\ callback = "stopping"
    /\ callback' = "stopped"
    /\ UNCHANGED <<bcVars, encryptionVars, app, mainVars, timer,
                   packet_send_counter, pdu_send_counter, prev_key_id, adv_int>>

\* The call-back looks at the state every 10 ms until broadcasting stopped.
CallbackStopped ==
    /\ callback = "stopping"
    /\ broadcastState = "NOT_RUNNING"
    /\ callback' = "stopped"
    /\ UNCHANGED <<bcVars, encryptionVars, app, mainVars, timer,
                   packet_send_counter, pdu_send_counter, prev_key_id, adv_int>>

CallbackSetPayload ==
    /\ callback = "stopped"
    /\ Call(SetBroadcastingPayload(pdu, PduSize))
    /\ callback' = "restart"
    /\ UNCHANGED <<encryptionVars, app, mainVars, timer, packet_send_counter,
                   pdu_send_counter, prev_key_id, adv_int>>

CallbackRestart ==
    /\ callback = "restart"
    /\ Call(StartBroadcasting(adv_int))
    /\ prev_key_id' = key_id
    /\ callback' = "rearm"
    /\ UNCHANGED <<encryptionVars, app, mainVars, timer, packet_send_counter,
                   pdu_send_counter, adv_int>>

CallbackRearm ==
    /\ callback = "rearm"
    /\ timer' = TRUE
    /\ callback' = "idle"
    /\ UNCHANGED <<bcVars, encryptionVars, app, mainVars, packet_send_counter,
                   pdu_send_counter, prev_key_id, adv_int>>
----------------------------------------------------------------------------
\* Waits that end: the delays and polls of the main task.
SenderMain == \/ SenderWaitForStartCmd
              \/ SenderTestStartPdu
              \/ SenderTestStarted
              \/ SenderBroadcastPdu
              \/ SenderTestEndPdu

TimerCallback == \/ PacketSendDone
                 \/ PacketSendTimeout
                 \/ CallbackNewSession
                 \/ CallbackSameSession
                 \/ CallbackStopped
                 \/ CallbackSetPayload
                 \/ CallbackRestart
                 \/ CallbackRearm

ClientUnchanged == UNCHANGED <<encryptionVars, app, mainVars, callbackVars, timer>>

Next == \/ SerialDataReceived
        \/ SenderMain
        \/ TimerCallback
        \/ BcStep /\ ClientUnchanged

Spec == Init /\ [][Next]_vars

\* The scheduler serves each of the three threads time and again, the stack
\* answers, and the PC gives its command.
FairSpec == /\ Spec
            /\ WF_vars(SerialDataReceived)
            /\ WF_vars(SenderMain)
            /\ WF_vars(TimerCallback)
            /\ WF_vars(GapComplete /\ ClientUnchanged)
            /\ WF_vars((BcWait \/ BcServe) /\ ClientUnchanged)
----------------------------------------------------------------------------
TypeOK ==
    /\ ControllerTypeOK
    /\ EncryptionTypeOK
    /\ app \in Apps
    /\ xStartCmdReceived \in BOOLEAN
    /\ state \in State
    /\ packet_send_counter \in 0 .. NO_PACKET_TO_SEND
    /\ pdu_send_counter \in 0 .. PDU_TO_KEY_FRAGMENT_RATIO
    /\ prev_key_id \in SessionId
    /\ adv_int \in Nat
    /\ timer \in BOOLEAN
    /\ callback \in Callback

\* Once the call-back is done and the stack has answered, the device
\* broadcasts, and at the interval of the session its PDUs belong to: the
\* receiver refuses PDUs that come at another.  The stop, the wait and the
\* start of the call-back run against the main task and the controller's
\* task (sender_main.c:349-364, 383-398).  Only a session with identifier 0,
\* which is what prev_key_id holds before the first, may be broadcast at the
\* interval of the start PDU instead; never at that of another session.
IntervalFollowsKey ==
    callback = "idle" /\ packet_send_counter > 0 /\ BcQuiet
        => /\ air.on
           /\ \/ air.interval = GetAdvIntervalFromKeyId(key_id)
              \/ key_id = 0 /\ air.interval = TEST_ADV_INTERVAL

\* When a session's key is replaced, all four of its fragments have been
\* given out, although the turn of the fragments goes on across sessions and
\* is not that of the data PDUs (get_next_key_fragment and
\* get_and_increment_pdu_send_counter).
SessionGivesWholeKey ==
    [][pre_shared_key' # pre_shared_key => given = FragmentNo]_vars

\* In the end the device broadcasts the end PDU: no call-back waits for ever
\* for broadcasting to stop (sender_main.c:356, 390), and whatever the last
\* one was doing when the main task saw the counter reach its limit, it does
\* not have the last word.
EndOnAir == <>[](air.on /\ air.data = EndPdu)

\* A PDU that is not the first of its session is on the air once the second
\* program's call-back is done with it: the stop and start of an earlier
\* session do not outlast the call-back (sender_main.c:378, 416 of
\* sender_app_2nd).
SessionPduOnAir ==
    (/\ app = "2nd" /\ state = "BROADCAST_PDU" /\ callback = "idle"
     /\ packet_send_counter > 1 /\ pdu.pdu_no > 0
     /\ BcQuiet)
    => air.data = pdu

\* The device broadcasts one of the PDUs of the test, besides the end PDU:
\* what docs/test_procedure.plantuml says of the start PDU and the README of
\* the encrypted ones.
TestPduOnAir == <>(air.on /\ air.data \in Pdu \cup {StartPdu})
============================================================================
