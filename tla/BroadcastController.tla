------------------------ MODULE BroadcastController ------------------------
(***************************************************************************)
(* The broadcast controller (ble_broadcast_controller.c) and what it       *)
(* drives of the BLE stack.                                                *)
(*                                                                         *)
(* An interface function looks at the two state variables and hands        *)
(* requests to the stack, which serves them in order, some time later.     *)
(* The completion of each is reported to esp_gap_cb, which sets one bit of *)
(* an event group; the controller's task takes all the bits there are,     *)
(* serves them in a fixed order and only then corrects the state           *)
(* variables.  The stack completes what it is asked: a refusal, which      *)
(* esp_gap_cb would not notice, is left out.                               *)
(*                                                                         *)
(* The module is a component without a client: SenderApp and ReceiverApp   *)
(* add the program that calls it.                                          *)
(***************************************************************************)
EXTENDS Naturals, Sequences

CONSTANTS NoData,         \* nothing was configured to be advertised
          MAX_GAP_DATA_LEN \* 31: the room of an advertisement

VARIABLES
    broadcastState, \* bc.broadcastState
    scannerState,   \* bc.scannerState
    eventGroup,     \* bits set by esp_gap_cb, not yet taken
    events,         \* bits the task has taken and not yet served
    gapRequests,    \* requests the stack has not served, oldest first
    air,            \* what the stack advertises
    scanning        \* whether the stack scans

controllerVars == <<broadcastState, scannerState, eventGroup, events>>
stackVars == <<gapRequests, air, scanning>>
bcVars == <<controllerVars, stackVars>>

BroadcastState == {"NOT_RUNNING", "RUNNING"}
ScannerState == {"NOT_ACTIVE", "ACTIVE"}

\* The operations of the stack; each completion has the bit of its name.
\* The position is the order in which the task looks at the bits.
Rank == [ADV_DATA_RAW_SET |-> 0, ADV_START |-> 1, ADV_STOP |-> 2,
         SCAN_START |-> 3, SCAN_STOP |-> 4]
Event == DOMAIN Rank

Request(op, arg) == [op |-> op, arg |-> arg]

InitController ==
    /\ broadcastState = "NOT_RUNNING"
    /\ scannerState = "NOT_ACTIVE"
    /\ eventGroup = {}
    /\ events = {}
    /\ gapRequests = <<>>
    /\ air = [on |-> FALSE, data |-> NoData, interval |-> 0]
    /\ scanning = FALSE
----------------------------------------------------------------------------
(* The interface: the requests a call makes, as the state variables stand. *)

\* A payload that is too long, or comes while nothing is broadcast, is
\* ignored without a word.
SetBroadcastingPayload(data, size) ==
    IF size <= MAX_GAP_DATA_LEN /\ broadcastState = "RUNNING"
    THEN << Request("ADV_DATA_RAW_SET", data) >> ELSE <<>>

StopBroadcasting ==
    IF broadcastState = "RUNNING" THEN << Request("ADV_STOP", 0) >> ELSE <<>>

StopScanning ==
    IF scannerState = "ACTIVE" THEN << Request("SCAN_STOP", 0) >> ELSE <<>>

StartBroadcasting(interval) ==
    StopScanning \o IF broadcastState = "NOT_RUNNING"
                    THEN << Request("ADV_START", interval) >> ELSE <<>>

StartScanning ==
    StopBroadcasting \o IF scannerState = "NOT_ACTIVE"
                        THEN << Request("SCAN_START", 0) >> ELSE <<>>

\* What a client's step does to the controller and the stack.
Call(requests) ==
    /\ gapRequests' = gapRequests \o requests
    /\ UNCHANGED <<controllerVars, air, scanning>>
----------------------------------------------------------------------------
\* The stack serves the oldest request, and esp_gap_cb sets its bit.
GapComplete ==
    /\ gapRequests # <<>>
    /\ LET r == Head(gapRequests)
       IN  /\ air' = CASE r.op = "ADV_DATA_RAW_SET" -> [air EXCEPT !.data = r.arg]
                       [] r.op = "ADV_START" -> [air EXCEPT !.on = TRUE,
                                                            !.interval = r.arg]
                       [] r.op = "ADV_STOP" -> [air EXCEPT !.on = FALSE]
                       [] OTHER -> air
           /\ scanning' = CASE r.op = "SCAN_START" -> TRUE
                            [] r.op = "SCAN_STOP" -> FALSE
                            [] OTHER -> scanning
           /\ eventGroup' = eventGroup \cup {r.op}
    /\ gapRequests' = Tail(gapRequests)
    /\ UNCHANGED <<broadcastState, scannerState, events>>

\* ble_sender_main takes all the bits, and clears them by taking them.
BcWait ==
    /\ events = {}
    /\ eventGroup # {}
    /\ events' = eventGroup
    /\ eventGroup' = {}
    /\ UNCHANGED <<broadcastState, scannerState, stackVars>>

\* A service that clears the event group when it ends, not when it begins.
BcServe_LateClear ==
    \E e \in events :
        /\ \A o \in events : Rank[e] <= Rank[o]
        /\ broadcastState' = CASE e = "ADV_START" -> "RUNNING"
                               [] e = "ADV_STOP" -> "NOT_RUNNING"
                               [] OTHER -> broadcastState
        /\ events' = events \ {e}
        /\ eventGroup' = IF events = {e} THEN {} ELSE eventGroup
        /\ UNCHANGED <<scannerState, stackVars>>

\* ble_sender_main serves the first bit that is left.
BcServe ==
    \E e \in events :
        /\ \A o \in events : Rank[e] <= Rank[o]
        /\ broadcastState' = CASE e = "ADV_START" -> "RUNNING"
                               [] e = "ADV_STOP" -> "NOT_RUNNING"
                               [] OTHER -> broadcastState
        /\ scannerState' = CASE e = "SCAN_START" -> "ACTIVE"
                             [] e = "SCAN_STOP" -> "NOT_ACTIVE"
                             [] OTHER -> scannerState
        /\ events' = events \ {e}
        /\ UNCHANGED <<eventGroup, stackVars>>

BcStep == GapComplete \/ BcWait \/ BcServe

\* Nothing is on its way between the controller and the stack.
BcQuiet == gapRequests = <<>> /\ eventGroup = {} /\ events = {}
----------------------------------------------------------------------------
ControllerTypeOK ==
    /\ broadcastState \in BroadcastState
    /\ scannerState \in ScannerState
    /\ eventGroup \subseteq Event
    /\ events \subseteq Event
    /\ scanning \in BOOLEAN

\* When nothing is on its way the controller's idea of the stack is right:
\* coalescing the completions into bits, and serving the bits in a fixed
\* order, loses neither a start nor a stop (ble_broadcast_controller.c:174).
\* That depends on the client: a start asked for while a stop is on its way
\* would be served before it.
ControllerFollowsStack ==
    BcQuiet => /\ broadcastState = "RUNNING" <=> air.on
               /\ scannerState = "ACTIVE" <=> scanning
============================================================================
