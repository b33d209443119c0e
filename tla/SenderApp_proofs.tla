------------------------- MODULE SenderApp_proofs -------------------------
(***************************************************************************)
(* The sender programs: their types, the controller's idea of the stack,   *)
(* the interval of a session, the fragments of a key and the PDU on the    *)
(* air, for every number of PDUs, every set of identifiers and every ratio.*)
(***************************************************************************)
EXTENDS SenderApp, TLAPS

----------------------------------------------------------------------------
\* The numbers.

\* The session word gives back the identifier and the fragment that were
\* put in (beacon_pdu_data.c:140-149, 166-174).
THEOREM SessionWord ==
    ASSUME NEW k \in SessionId, NEW f \in FragmentNo
    PROVE  /\ GetKeyId(ProduceKeySessionData(k, f)) = k
           /\ GetKeyFragmentIndex(ProduceKeySessionData(k, f)) = f
<1>1. k % 16384 = k
  BY DEF SessionId, KEY_ID_BITS
<1>2. ProduceKeySessionData(k, f) = f * 16384 + k
  BY <1>1 DEF ProduceKeySessionData, FragmentNo, KEY_ID_BITS
<1>0. k \in 0 .. 16383
  BY DEF SessionId, KEY_ID_BITS
<1>3. /\ (f * 16384 + k) % 16384 = k
      /\ (f * 16384 + k) \div 16384 = f
      /\ f % 4 = f
  <2>1. CASE f = 0
    <3>1. f * 16384 + k = k
      BY <2>1, <1>0
    <3>2. k \div 16384 = 0 /\ 0 % 4 = 0
      BY <1>0
    <3> QED BY <1>1, <2>1, <3>1, <3>2
  <2>2. CASE f = 1
    BY <2>2, <1>0
  <2>3. CASE f = 2
    BY <2>3, <1>0
  <2>4. CASE f = 3
    BY <2>4, <1>0
  <2> QED BY <2>1, <2>2, <2>3, <2>4 DEF FragmentNo
<1> QED BY <1>2, <1>3 DEF GetKeyId, GetKeyFragmentIndex, KEY_ID_BITS

LEMMA SessionDataType ==
    ASSUME NEW k \in SessionId, NEW f \in FragmentNo
    PROVE  ProduceKeySessionData(k, f) \in Nat
BY DEF ProduceKeySessionData, SessionId, FragmentNo, KEY_ID_BITS

LEMMA IntervalType ==
    ASSUME NEW k \in SessionId
    PROVE  GetAdvIntervalFromKeyId(k) \in Nat
BY DEF SessionId, KEY_ID_BITS, GetAdvIntervalFromKeyId, Rounded,
       MIN_ADV_TIME_MS, MAX_ADV_TIME_MS, SCALE_SINGLE_MS, MAX_KEY_ID_VAL

\* The counter comes round exactly at its last value.
LEMMA CounterWraps ==
    ASSUME NEW n \in Nat \ {0}, NEW c \in 0 .. n - 1
    PROVE  (c + 1) % n = 0 <=> c = n - 1
<1>1. CASE c = n - 1
  BY <1>1
<1>2. CASE c # n - 1
  <2>1. c + 1 \in 1 .. n - 1
    BY <1>2
  <2>2. (c + 1) % n = c + 1
    BY <2>1
  <2> QED BY <2>1, <2>2, <1>2
<1> QED BY <1>1, <1>2

----------------------------------------------------------------------------
\* The requests.

GapRequest ==
    [op : {"ADV_DATA_RAW_SET"}, arg : Pdu \cup {StartPdu, EndPdu}]
        \cup [op : {"ADV_START"}, arg : Nat]
        \cup [op : {"ADV_STOP"}, arg : {0}]

\* The operations asked for in a list of requests, those asked for once at
\* most, and the interval a start is asked for with.
Ops(s) == {s[i].op : i \in 1 .. Len(s)}

Once(s, op) == \A i, j \in 1 .. Len(s) : s[i].op = op /\ s[j].op = op => i = j

StartsAt(s, interval) ==
    \A i \in 1 .. Len(s) : s[i].op = "ADV_START" => s[i].arg = interval

\* What is left when the oldest request is served.
LEMMA ServeOne ==
    ASSUME NEW s \in Seq(GapRequest), s # <<>>, NEW interval
    PROVE  /\ Head(s) \in GapRequest
           /\ Tail(s) \in Seq(GapRequest)
           /\ Ops(s) = {Head(s).op} \cup Ops(Tail(s))
           /\ \A op : Once(s, op) => /\ Once(Tail(s), op)
                                     /\ op \in Ops(Tail(s)) => op # Head(s).op
           /\ StartsAt(s, interval) =>
                  /\ StartsAt(Tail(s), interval)
                  /\ Head(s).op = "ADV_START" => Head(s).arg = interval
<1> DEFINE t == Tail(s)
<1>1. /\ Len(s) \in Nat \ {0}
      /\ Head(s) = s[1] /\ Head(s) \in GapRequest
      /\ t \in Seq(GapRequest)
      /\ Len(t) = Len(s) - 1
      /\ \A i \in 1 .. Len(t) : t[i] = s[i + 1]
  OBVIOUS
<1> HIDE DEF t
<1>2. \A i \in 1 .. Len(s) : i = 1 \/ (i - 1 \in 1 .. Len(t) /\ s[i] = t[i - 1])
  BY <1>1
<1>3. \A i \in 1 .. Len(t) : i + 1 \in 1 .. Len(s) /\ t[i] = s[i + 1]
  BY <1>1
<1>4. Ops(s) = {Head(s).op} \cup Ops(t)
  <2>1. ASSUME NEW i \in 1 .. Len(s)
        PROVE  s[i].op \in {Head(s).op} \cup Ops(t)
    BY <1>1, <1>2 DEF Ops
  <2>2. Head(s).op \in Ops(s)
    BY <1>1 DEF Ops
  <2>3. Ops(t) \subseteq Ops(s)
    BY <1>3 DEF Ops
  <2> QED BY <2>1, <2>2, <2>3 DEF Ops
<1>5. ASSUME NEW op, Once(s, op)
      PROVE  /\ Once(t, op)
             /\ op \in Ops(t) => op # Head(s).op
  <2>1. Once(t, op)
    <3> SUFFICES ASSUME NEW i \in 1 .. Len(t), NEW j \in 1 .. Len(t),
                        t[i].op = op, t[j].op = op
                 PROVE  i = j
      BY DEF Once
    <3>1. /\ i + 1 \in 1 .. Len(s) /\ j + 1 \in 1 .. Len(s)
          /\ s[i + 1].op = op /\ s[j + 1].op = op
      BY <1>3
    <3>2. i + 1 = j + 1
      BY <1>5, <3>1 DEF Once
    <3> QED BY <1>1, <3>2
  <2>2. op \in Ops(t) => op # Head(s).op
    <3> SUFFICES ASSUME NEW i \in 1 .. Len(t), t[i].op = op, Head(s).op = op
                 PROVE  FALSE
      BY DEF Ops
    <3>1. i + 1 \in 1 .. Len(s) /\ 1 \in 1 .. Len(s)
      BY <1>1
    <3>2. s[i + 1].op = op /\ s[1].op = op
      BY <1>1
    <3>3. i + 1 = 1
      BY <1>5, <3>1, <3>2 DEF Once
    <3> QED BY <3>3
  <2> QED BY <2>1, <2>2
<1>6. StartsAt(s, interval) =>
          /\ StartsAt(t, interval)
          /\ Head(s).op = "ADV_START" => Head(s).arg = interval
  BY <1>1, <1>3 DEF StartsAt
<1> QED BY <1>1, <1>4, <1>5, <1>6 DEF t

\* What a call that asks for one thing adds.
LEMMA AskOne ==
    ASSUME NEW s \in Seq(GapRequest), NEW r \in GapRequest, NEW interval
    PROVE  /\ s \o <<r>> \in Seq(GapRequest)
           /\ Ops(s \o <<r>>) = Ops(s) \cup {r.op}
           /\ \A op : Once(s, op) /\ (op \in Ops(s) => r.op # op)
                          => Once(s \o <<r>>, op)
           /\ StartsAt(s, interval) /\ (r.op = "ADV_START" => r.arg = interval)
                  => StartsAt(s \o <<r>>, interval)
<1> DEFINE t == s \o <<r>>
<1>1. /\ Len(s) \in Nat
      /\ t \in Seq(GapRequest)
      /\ Len(t) = Len(s) + 1
      /\ \A i \in 1 .. Len(s) : t[i] = s[i]
      /\ t[Len(s) + 1] = r
  OBVIOUS
<1> HIDE DEF t
<1>2. \A i \in 1 .. Len(t) : i = Len(s) + 1 \/ i \in 1 .. Len(s)
  BY <1>1
<1>3. Ops(t) = Ops(s) \cup {r.op}
  <2>1. Ops(t) \subseteq Ops(s) \cup {r.op}
    BY <1>1, <1>2 DEF Ops
  <2>2. Ops(s) \subseteq Ops(t)
    BY <1>1 DEF Ops
  <2>3. r.op \in Ops(t)
    BY <1>1 DEF Ops
  <2> QED BY <2>1, <2>2, <2>3
<1>4. ASSUME NEW op, Once(s, op), op \in Ops(s) => r.op # op
      PROVE  Once(t, op)
  <2>1. \A i \in 1 .. Len(s) : s[i].op \in Ops(s)
    BY DEF Ops
  <2> QED BY <1>1, <1>2, <1>4, <2>1 DEF Once
<1>5. StartsAt(s, interval) /\ (r.op = "ADV_START" => r.arg = interval)
          => StartsAt(t, interval)
  BY <1>1, <1>2 DEF StartsAt
<1> QED BY <1>1, <1>3, <1>4, <1>5 DEF t

LEMMA AskNothing ==
    ASSUME NEW s \in Seq(GapRequest)
    PROVE  s \o <<>> = s
OBVIOUS

----------------------------------------------------------------------------
\* The invariant.

START == "ADV_START"
STOP == "ADV_STOP"

\* An operation that was asked for and whose completion is not served yet,
\* and one of which there is one at most.
Pending(op) == op \in Ops(gapRequests) \cup eventGroup \cup events

One(op) == /\ Once(gapRequests, op)
           /\ op \in Ops(gapRequests) => op \notin eventGroup \cup events
           /\ op \notin eventGroup \cap events

Typed ==
    /\ TypeOK
    /\ gapRequests \in Seq(GapRequest)
    /\ air \in [on : BOOLEAN, data : Pdu \cup {StartPdu, EndPdu, NoData},
                interval : Nat]
    /\ key_id \in RandomIds

\* At most one start or stop is on its way.  The stack has carried it out
\* once its request is gone; the state variable follows when its bit is
\* served.
Switch ==
    /\ scannerState = "NOT_ACTIVE" /\ scanning = FALSE
    /\ eventGroup \cup events \subseteq {"ADV_DATA_RAW_SET", START, STOP}
    /\ One(START) /\ One(STOP)
    /\ Pending(START) => broadcastState = "NOT_RUNNING" /\ ~ Pending(STOP)
    /\ Pending(STOP) => broadcastState = "RUNNING"
    /\ air.on <=> IF Pending(START) THEN START \notin Ops(gapRequests)
                  ELSE IF Pending(STOP) THEN STOP \in Ops(gapRequests)
                  ELSE broadcastState = "RUNNING"

\* Where the main task and the call-back stand when a start or a stop is on
\* its way, and what they find otherwise.
Started == state \notin {"WAIT_FOR_START_CMD", "TEST_START_PDU"}

Client ==
    /\ timer => callback = "idle"
    /\ timer \/ callback # "idle" \/ packet_send_counter > 0
           => state \in {"BROADCAST_PDU", "TEST_END_PDU"}
    /\ Pending(START) => callback \in {"idle", "rearm"}
    /\ Pending(STOP) => callback = "stopping"
    /\ ~ Started => ~ Pending(START) /\ broadcastState = "NOT_RUNNING"
    /\ Started /\ callback \in {"idle", "built", "rearm"}
           => Pending(START) \/ broadcastState = "RUNNING"
    /\ callback \in {"stopped", "restart"} => broadcastState = "NOT_RUNNING"

\* An interval that goes with an identifier: the one of its session, or, for
\* 0, perhaps the one before the first session.
IntervalOf(id, interval) ==
    \/ interval = GetAdvIntervalFromKeyId(id)
    \/ id = 0 /\ interval = TEST_ADV_INTERVAL

\* Which interval is asked for, and which one is on the air.
Interval ==
    /\ StartsAt(gapRequests, adv_int)
    /\ callback \in {"idle", "built", "rearm"} /\ START \notin Ops(gapRequests)
           => ~ air.on \/ air.interval = adv_int
    /\ callback \in {"idle", "rearm"} /\ packet_send_counter > 0
           => prev_key_id = key_id
    /\ callback \in {"stopping", "stopped", "restart"}
           => adv_int = GetAdvIntervalFromKeyId(key_id)
    /\ callback \in {"idle", "built", "rearm"}
           => IntervalOf(prev_key_id, adv_int)

Inv == Typed /\ Switch /\ Client /\ Interval

LEMMA InvInit == Init => Inv
<1> SUFFICES ASSUME Init PROVE Inv
  OBVIOUS
<1> USE DEF Init, InitController, InitPayloadEncryption
<1>1. Ops(gapRequests) = {} /\ \A op : Once(gapRequests, op)
  BY DEF Ops, Once
<1>2. StartsAt(gapRequests, adv_int)
  BY DEF StartsAt
<1>3. gapRequests \in Seq(GapRequest)
  OBVIOUS
<1>4. TypeOK
  <2>1. ControllerTypeOK
    BY DEF ControllerTypeOK, BroadcastState, ScannerState
  <2>2. EncryptionTypeOK
    <3>1. pdu \in Pdu
      BY DEF Pdu
    <3>2. 0 \in 0 .. TEST_NO_PACKETS_TO_KEY_REPLACE - 1
      BY EncryptionAssumption
    <3> QED BY <3>1, <3>2, EncryptionAssumption
            DEF EncryptionTypeOK, FragmentNo
  <2>3. /\ 0 \in SessionId
        /\ 0 \in 0 .. NO_PACKET_TO_SEND
        /\ PDU_TO_KEY_FRAGMENT_RATIO \in 0 .. PDU_TO_KEY_FRAGMENT_RATIO
    BY SenderAssumption DEF SessionId, KEY_ID_BITS
  <2> QED BY <2>1, <2>2, <2>3, SenderAssumption
          DEF TypeOK, State, Callback
<1>5. Typed
  BY <1>3, <1>4 DEF Typed
<1>6. Switch
  BY <1>1 DEF Switch, One, Pending, START, STOP
<1>7. Client
  BY <1>1 DEF Client, Pending, Started
<1>8. Interval
  BY <1>1, <1>2 DEF Interval, IntervalOf
<1> QED BY <1>5, <1>6, <1>7, <1>8 DEF Inv

----------------------------------------------------------------------------
\* The steps of the stack and of the controller's task.

LEMMA StackStep ==
    ASSUME Inv, GapComplete, ClientUnchanged
    PROVE  Inv'
<1> DEFINE r == Head(gapRequests)
           t == Tail(gapRequests)
<1>1. /\ r \in GapRequest
      /\ t \in Seq(GapRequest)
      /\ Ops(gapRequests) = {r.op} \cup Ops(t)
      /\ \A op : Once(gapRequests, op) => /\ Once(t, op)
                                          /\ op \in Ops(t) => op # r.op
      /\ StartsAt(t, adv_int)
      /\ r.op = START => r.arg = adv_int
  BY ServeOne DEF Inv, Typed, Interval, GapComplete, START
<1>2. /\ gapRequests' = t
      /\ eventGroup' = eventGroup \cup {r.op}
      /\ UNCHANGED <<broadcastState, scannerState, events>>
      /\ air' = CASE r.op = "ADV_DATA_RAW_SET" -> [air EXCEPT !.data = r.arg]
                  [] r.op = "ADV_START" -> [air EXCEPT !.on = TRUE,
                                                       !.interval = r.arg]
                  [] r.op = "ADV_STOP" -> [air EXCEPT !.on = FALSE]
                  [] OTHER -> air
      /\ scanning' = CASE r.op = "SCAN_START" -> TRUE
                       [] r.op = "SCAN_STOP" -> FALSE
                       [] OTHER -> scanning
  BY DEF GapComplete
<1>3. UNCHANGED <<encryptionVars, app, mainVars, callbackVars, timer>>
  BY DEF ClientUnchanged
<1> HIDE DEF r, t
<1>4. r.op \in {"ADV_DATA_RAW_SET", START, STOP}
  BY <1>1 DEF GapRequest, START, STOP
<1>5. /\ r.op = START => r.arg \in Nat
      /\ r.op = "ADV_DATA_RAW_SET" => r.arg \in Pdu \cup {StartPdu, EndPdu}
  BY <1>1 DEF GapRequest, START
<1>6. Typed'
  <2>1. air' \in [on : BOOLEAN, data : Pdu \cup {StartPdu, EndPdu, NoData},
                  interval : Nat]
    BY <1>2, <1>4, <1>5 DEF Inv, Typed, START, STOP
  <2>2. ControllerTypeOK'
    BY <1>2, <1>4 DEF Inv, Typed, TypeOK, ControllerTypeOK, START, STOP,
                      Event, Rank
  <2>3. EncryptionTypeOK'
    BY <1>3 DEF Inv, Typed, TypeOK, EncryptionTypeOK, encryptionVars
  <2>4. TypeOK'
    BY <1>3, <2>2, <2>3 DEF Inv, Typed, TypeOK, mainVars, callbackVars
  <2>5. key_id' \in RandomIds
    BY <1>3 DEF Inv, Typed, encryptionVars
  <2> QED BY <1>1, <1>2, <2>1, <2>4, <2>5 DEF Typed
<1>7. /\ scanning' = scanning
      /\ air'.on = IF r.op = START THEN TRUE
                   ELSE IF r.op = STOP THEN FALSE ELSE air.on
      /\ air'.interval = IF r.op = START THEN r.arg ELSE air.interval
  BY <1>2, <1>4 DEF Inv, Typed, START, STOP
<1>8. \A op : Pending(op)' <=> Pending(op)
  BY <1>1, <1>2 DEF Pending
<1>9. Switch'
  <2>1. One(START)' /\ One(STOP)'
    BY <1>1, <1>2 DEF Inv, Switch, One
  <2>2. START # STOP
    BY DEF START, STOP
  <2>3. /\ START \in Ops(gapRequests)' <=>
               START \in Ops(gapRequests) /\ r.op # START
        /\ STOP \in Ops(gapRequests)' <=>
               STOP \in Ops(gapRequests) /\ r.op # STOP
    BY <1>1, <1>2 DEF Inv, Switch, One
  <2>4. Pending(r.op)
    BY <1>1 DEF Pending
  <2>5. (air.on)' <=> IF Pending(START)' THEN START \notin Ops(gapRequests)'
                      ELSE IF Pending(STOP)' THEN STOP \in Ops(gapRequests)'
                      ELSE broadcastState' = "RUNNING"
    BY <1>1, <1>2, <1>4, <1>7, <1>8, <2>2, <2>3, <2>4 DEF Inv, Switch
  <2>6. eventGroup' \cup events' \subseteq {"ADV_DATA_RAW_SET", START, STOP}
    BY <1>2, <1>4 DEF Inv, Switch
  <2>7. /\ Pending(START)' => broadcastState' = "NOT_RUNNING"
                                 /\ ~ Pending(STOP)'
        /\ Pending(STOP)' => broadcastState' = "RUNNING"
    BY <1>2, <1>8 DEF Inv, Switch
  <2>8. scannerState' = "NOT_ACTIVE" /\ scanning' = FALSE
    BY <1>2, <1>7 DEF Inv, Switch
  <2> QED BY <2>1, <2>5, <2>6, <2>7, <2>8 DEF Switch
<1>10. Client'
  BY <1>2, <1>3, <1>8
     DEF Inv, Client, Started, mainVars, callbackVars
<1>11. Interval'
  <2>1. /\ StartsAt(gapRequests, adv_int)'
        /\ START \notin Ops(gapRequests)' =>
               r.op = START \/ START \notin Ops(gapRequests)
        /\ adv_int' = adv_int
    BY <1>1, <1>2, <1>3 DEF callbackVars
  <2>2. callback \in {"idle", "built", "rearm"}
            /\ START \notin Ops(gapRequests)'
        => ~ air'.on \/ air'.interval = adv_int
    BY <1>1, <1>4, <1>7, <2>1 DEF Inv, Interval
  <2> QED BY <1>3, <2>1, <2>2 DEF Inv, Interval, callbackVars, encryptionVars
<1> QED BY <1>6, <1>9, <1>10, <1>11 DEF Inv

LEMMA TaskWaits ==
    ASSUME Inv, BcWait, ClientUnchanged
    PROVE  Inv'
<1>1. /\ events = {} /\ events' = eventGroup /\ eventGroup' = {}
      /\ UNCHANGED <<broadcastState, scannerState, gapRequests, air, scanning>>
  BY DEF BcWait, stackVars
<1>2. UNCHANGED <<encryptionVars, app, mainVars, callbackVars, timer>>
  BY DEF ClientUnchanged
<1>3. Typed'
  BY <1>1, <1>2
     DEF Inv, Typed, TypeOK, ControllerTypeOK, EncryptionTypeOK,
         encryptionVars, mainVars, callbackVars
<1>4. \A op : Pending(op)' <=> Pending(op)
  BY <1>1 DEF Pending
<1>5. Switch'
  <2>1. One(START)' /\ One(STOP)'
    BY <1>1 DEF Inv, Switch, One
  <2> QED BY <1>1, <1>4, <2>1 DEF Inv, Switch
<1>6. Client'
  BY <1>1, <1>2, <1>4 DEF Inv, Client, Started, mainVars, callbackVars
<1>7. Interval'
  BY <1>1, <1>2 DEF Inv, Interval, StartsAt, callbackVars, encryptionVars
<1> QED BY <1>3, <1>5, <1>6, <1>7 DEF Inv

\* A bit that is served settles the state variable, for no other start or
\* stop is on its way.
LEMMA TaskServes ==
    ASSUME Inv, BcServe, ClientUnchanged
    PROVE  Inv'
<1>1. PICK e \in events :
          /\ broadcastState' = CASE e = "ADV_START" -> "RUNNING"
                                 [] e = "ADV_STOP" -> "NOT_RUNNING"
                                 [] OTHER -> broadcastState
          /\ scannerState' = CASE e = "SCAN_START" -> "ACTIVE"
                               [] e = "SCAN_STOP" -> "NOT_ACTIVE"
                               [] OTHER -> scannerState
          /\ events' = events \ {e}
          /\ UNCHANGED <<eventGroup, gapRequests, air, scanning>>
  BY DEF BcServe, stackVars
<1>2. UNCHANGED <<encryptionVars, app, mainVars, callbackVars, timer>>
  BY DEF ClientUnchanged
<1>3. e \in {"ADV_DATA_RAW_SET", START, STOP} /\ START # STOP
  BY DEF Inv, Switch, START, STOP
<1>4. /\ broadcastState' = IF e = START THEN "RUNNING"
                           ELSE IF e = STOP THEN "NOT_RUNNING"
                           ELSE broadcastState
      /\ scannerState' = scannerState
  BY <1>1, <1>3 DEF START, STOP
<1>5. Typed'
  <2>1. ControllerTypeOK'
    BY <1>1, <1>4 DEF Inv, Typed, TypeOK, ControllerTypeOK, BroadcastState
  <2> QED BY <1>1, <1>2, <2>1
          DEF Inv, Typed, TypeOK, EncryptionTypeOK, encryptionVars, mainVars,
              callbackVars
<1>6. \A op \in {START, STOP} : Pending(op)' <=> Pending(op) /\ op # e
  BY <1>1 DEF Inv, Switch, One, Pending
<1>7. Pending(e)
  BY DEF Pending
<1>8. One(START)' /\ One(STOP)'
  BY <1>1 DEF Inv, Switch, One
<1>9. \A op \in {START, STOP} : op = e => op \notin Ops(gapRequests)
  BY DEF Inv, Switch, One
<1>10. Switch'
  <2>1. eventGroup' \cup events' \subseteq {"ADV_DATA_RAW_SET", START, STOP}
    BY <1>1 DEF Inv, Switch
  <2>2. /\ Pending(START)' => broadcastState' = "NOT_RUNNING"
                                 /\ ~ Pending(STOP)'
        /\ Pending(STOP)' => broadcastState' = "RUNNING"
    BY <1>3, <1>4, <1>6, <1>7 DEF Inv, Switch
  <2>3. (air.on)' <=> IF Pending(START)' THEN START \notin Ops(gapRequests)'
                      ELSE IF Pending(STOP)' THEN STOP \in Ops(gapRequests)'
                      ELSE broadcastState' = "RUNNING"
    BY <1>1, <1>3, <1>4, <1>6, <1>7, <1>9 DEF Inv, Switch
  <2> QED BY <1>1, <1>4, <1>8, <2>1, <2>2, <2>3 DEF Inv, Switch
<1>11. Client'
  <2>1. e = START => callback \in {"idle", "rearm"} /\ Started
    BY <1>7 DEF Inv, Client
  <2>2. e = STOP => callback = "stopping" /\ Started
    BY <1>7 DEF Inv, Client, Started
  <2>3. UNCHANGED <<timer, callback, packet_send_counter, state>>
    BY <1>2 DEF mainVars, callbackVars
  <2> HIDE DEF Pending
  <2> QED BY <1>3, <1>4, <1>6, <2>1, <2>2, <2>3 DEF Inv, Client, Started
<1>12. Interval'
  BY <1>1, <1>2 DEF Inv, Interval, StartsAt, callbackVars, encryptionVars
<1> QED BY <1>5, <1>10, <1>11, <1>12 DEF Inv

----------------------------------------------------------------------------
\* The steps of the main task and of the call-back.

\* What every step of the client leaves alone.
SameStack == UNCHANGED <<broadcastState, scannerState, eventGroup, events, air,
                         scanning>>

\* A step that asks for no start and no stop.
NoSwitchAsked ==
    /\ SameStack
    /\ gapRequests' \in Seq(GapRequest)
    /\ \A op \in {START, STOP} : /\ op \in Ops(gapRequests)' <=>
                                       op \in Ops(gapRequests)
                                 /\ One(op)'
                                 /\ Pending(op)' <=> Pending(op)
    /\ StartsAt(gapRequests', adv_int)

LEMMA NothingAsked ==
    ASSUME Inv, UNCHANGED bcVars
    PROVE  NoSwitchAsked
<1>1. gapRequests' = gapRequests /\ SameStack
  BY DEF bcVars, controllerVars, stackVars, SameStack
<1> QED BY <1>1 DEF Inv, Typed, Switch, Interval, One, Pending, NoSwitchAsked,
                    SameStack

LEMMA PayloadAsked ==
    ASSUME Inv, NEW data \in Pdu \cup {StartPdu, EndPdu}, NEW size,
           Call(SetBroadcastingPayload(data, size))
    PROVE  NoSwitchAsked
<1> DEFINE r == Request("ADV_DATA_RAW_SET", data)
<1>1. SameStack /\ gapRequests \in Seq(GapRequest)
  BY DEF Inv, Typed, Call, controllerVars, SameStack
<1>2. CASE SetBroadcastingPayload(data, size) = <<>>
  <2>1. gapRequests' = gapRequests
    BY <1>1, <1>2, AskNothing DEF Call
  <2> QED BY <1>1, <2>1 DEF Inv, Switch, Interval, One, Pending,
                           NoSwitchAsked, SameStack
<1>3. CASE SetBroadcastingPayload(data, size) # <<>>
  <2>1. gapRequests' = gapRequests \o <<r>>
    BY <1>3 DEF Call, SetBroadcastingPayload
  <2>2. r \in GapRequest /\ r.op \notin {START, STOP}
    BY DEF Request, GapRequest, START, STOP
  <2> HIDE DEF r
  <2>3. /\ gapRequests' \in Seq(GapRequest)
        /\ Ops(gapRequests') = Ops(gapRequests) \cup {r.op}
        /\ StartsAt(gapRequests', adv_int)
    BY <1>1, <2>1, <2>2, AskOne DEF Inv, Interval, START
  <2>4. \A op \in {START, STOP} : Once(gapRequests', op)
    BY <1>1, <2>1, <2>2, AskOne DEF Inv, Switch, One
  <2> QED BY <1>1, <2>2, <2>3, <2>4
          DEF Inv, Switch, One, Pending, NoSwitchAsked, SameStack
<1> QED BY <1>2, <1>3

\* Such a step keeps the state of the switch.
LEMMA SwitchKept ==
    ASSUME Inv, NoSwitchAsked
    PROVE  Switch'
<1>1. \A op \in {START, STOP} : /\ op \in Ops(gapRequests)' <=>
                                       op \in Ops(gapRequests)
                                /\ One(op)'
                                /\ Pending(op)' <=> Pending(op)
  BY DEF NoSwitchAsked
<1> QED BY <1>1 DEF Inv, Switch, NoSwitchAsked, SameStack

\* Counting a PDU keeps the types of the key schedule.
LEMMA CountType ==
    ASSUME EncryptionTypeOK, CountPdu
    PROVE  /\ key_id' \in SessionId
           /\ key_id \in RandomIds => key_id' \in RandomIds
           /\ pre_shared_key' \in Nat
           /\ encrypted_packet_counter'
                  \in 0 .. TEST_NO_PACKETS_TO_KEY_REPLACE - 1
<1>1. CASE KeyReplacement
  BY <1>1, EncryptionAssumption DEF EncryptionTypeOK, CountPdu
<1>2. CASE ~ KeyReplacement
  <2>1. encrypted_packet_counter # TEST_NO_PACKETS_TO_KEY_REPLACE - 1
    BY <1>2, CounterWraps, EncryptionAssumption
       DEF EncryptionTypeOK, KeyReplacement
  <2> QED BY <1>2, <2>1, EncryptionAssumption DEF EncryptionTypeOK, CountPdu
<1> QED BY <1>1, <1>2

LEMMA PduType ==
    ASSUME EncryptionTypeOK, GetKeyFragmentPdu \/ EncryptPayload
    PROVE  EncryptionTypeOK' /\ (key_id \in RandomIds => key_id' \in RandomIds)
<1>1. CountPdu
  BY DEF GetKeyFragmentPdu, EncryptPayload
<1>2. /\ key_id' \in SessionId
      /\ key_id \in RandomIds => key_id' \in RandomIds
      /\ pre_shared_key' \in Nat
      /\ encrypted_packet_counter' \in 0 .. TEST_NO_PACKETS_TO_KEY_REPLACE - 1
  BY <1>1, CountType
<1>3. encrypted_packet_counter' \in Nat
  BY <1>2
<1>4. CASE GetKeyFragmentPdu
  <2>1. ProduceKeySessionData(key_id', key_fragment_no) \in Nat
    BY <1>2, SessionDataType DEF EncryptionTypeOK
  <2>2. pdu' \in Pdu
    BY <1>2, <1>3, <1>4, <2>1 DEF GetKeyFragmentPdu, Pdu
  <2>3. key_fragment_no' \in FragmentNo
    BY <1>4 DEF GetKeyFragmentPdu, EncryptionTypeOK, FragmentNo,
                NextKeyFragment
  <2>4. given' \subseteq FragmentNo
    BY <1>4 DEF GetKeyFragmentPdu, EncryptionTypeOK
  <2> QED BY <1>2, <2>2, <2>3, <2>4 DEF EncryptionTypeOK
<1>5. CASE EncryptPayload
  <2>1. ProduceKeySessionData(key_id', 0) \in Nat
    BY <1>2, SessionDataType DEF FragmentNo
  <2>2. pdu' \in Pdu
    BY <1>2, <1>3, <1>5, <2>1 DEF EncryptPayload, Pdu
  <2> QED BY <1>2, <1>5, <2>2 DEF EncryptPayload, EncryptionTypeOK
<1> QED BY <1>4, <1>5

\* What the types need of a step of the client.
LEMMA TypedKept ==
    ASSUME Inv, SameStack, gapRequests' \in Seq(GapRequest),
           EncryptionTypeOK', key_id' \in RandomIds, app' = app,
           xStartCmdReceived' \in BOOLEAN, state' \in State,
           packet_send_counter' \in 0 .. NO_PACKET_TO_SEND,
           pdu_send_counter' \in 0 .. PDU_TO_KEY_FRAGMENT_RATIO,
           prev_key_id' \in SessionId, adv_int' \in Nat, timer' \in BOOLEAN,
           callback' \in Callback
    PROVE  Typed'
<1>1. ControllerTypeOK'
  BY DEF Inv, Typed, TypeOK, ControllerTypeOK, SameStack
<1> QED BY <1>1 DEF Inv, Typed, TypeOK, SameStack

LEMMA EncryptionKept ==
    ASSUME Inv, UNCHANGED encryptionVars
    PROVE  EncryptionTypeOK' /\ key_id' \in RandomIds
BY DEF Inv, Typed, TypeOK, EncryptionTypeOK, encryptionVars

\* The main task, but for the start of broadcasting.
LEMMA MainStep ==
    ASSUME Inv,
           \/ SerialDataReceived
           \/ SenderWaitForStartCmd
           \/ SenderTestStarted
           \/ SenderBroadcastPdu
           \/ SenderTestEndPdu
    PROVE  Inv'
<1>1. NoSwitchAsked
  <2>1. CASE SenderTestEndPdu
    BY <2>1, PayloadAsked DEF SenderTestEndPdu
  <2>2. CASE ~ SenderTestEndPdu
    <3>1. UNCHANGED bcVars
      BY <2>2 DEF SerialDataReceived, SenderWaitForStartCmd,
                  SenderTestStarted, SenderBroadcastPdu
    <3> QED BY <3>1, NothingAsked
  <2> QED BY <2>1, <2>2
<1>2. UNCHANGED <<encryptionVars, app, callbackVars>>
  BY DEF SerialDataReceived, SenderWaitForStartCmd, SenderTestStarted,
         SenderBroadcastPdu, SenderTestEndPdu
<1>3. /\ state' \in State
      /\ timer' \in BOOLEAN
      /\ xStartCmdReceived' \in BOOLEAN
  BY DEF SerialDataReceived, SenderWaitForStartCmd, SenderTestStarted,
         SenderBroadcastPdu, SenderTestEndPdu, Inv, Typed, TypeOK, State,
         mainVars
<1>4. Typed'
  BY <1>1, <1>2, <1>3, TypedKept, EncryptionKept
     DEF NoSwitchAsked, Inv, Typed, TypeOK, callbackVars
<1>5. Switch'
  BY <1>1, SwitchKept
<1>6. /\ Pending(START)' <=> Pending(START)
      /\ Pending(STOP)' <=> Pending(STOP)
      /\ START \in Ops(gapRequests)' <=> START \in Ops(gapRequests)
      /\ UNCHANGED <<broadcastState, air>>
      /\ StartsAt(gapRequests', adv_int)
  BY <1>1 DEF NoSwitchAsked, SameStack
<1>7. /\ UNCHANGED <<callback, packet_send_counter, adv_int, prev_key_id,
                     key_id>>
  BY <1>2 DEF callbackVars, encryptionVars
<1>8. Client'
  <2>1. CASE SenderTestStarted
    BY <1>6, <1>7, <2>1 DEF SenderTestStarted, Inv, Client, Started
  <2>2. CASE SenderWaitForStartCmd
    BY <1>6, <1>7, <2>2 DEF SenderWaitForStartCmd, Inv, Client, Started
  <2>3. CASE SenderBroadcastPdu
    BY <1>6, <1>7, <2>3 DEF SenderBroadcastPdu, Inv, Client, Started
  <2>4. CASE SerialDataReceived \/ SenderTestEndPdu
    BY <1>6, <1>7, <2>4 DEF SerialDataReceived, SenderTestEndPdu, mainVars,
                            Inv, Client, Started
  <2> QED BY <2>1, <2>2, <2>3, <2>4
<1>9. Interval'
  BY <1>6, <1>7 DEF Inv, Interval
<1> QED BY <1>4, <1>5, <1>8, <1>9 DEF Inv

\* The start of broadcasting: no call-back has run, and nothing is asked
\* for but the start, because the payload is ignored.
LEMMA StartStep ==
    ASSUME Inv, SenderTestStartPdu
    PROVE  Inv'
<1> DEFINE r == Request("ADV_START", adv_int)
<1>1. /\ broadcastState = "NOT_RUNNING" /\ scannerState = "NOT_ACTIVE"
      /\ ~ Pending(START) /\ ~ Pending(STOP)
      /\ ~ air.on
      /\ callback = "idle" /\ ~ timer /\ packet_send_counter = 0
  BY DEF Inv, Client, Switch, Started, SenderTestStartPdu, Typed, TypeOK
<1>2. /\ gapRequests' = gapRequests \o <<r>>
      /\ SameStack
  BY <1>1, AskNothing DEF SenderTestStartPdu, Call, SetBroadcastingPayload,
     StartBroadcasting, StopScanning, controllerVars, SameStack
<1>3. UNCHANGED <<encryptionVars, app, xStartCmdReceived, callbackVars, timer>>
      /\ state' = "TEST_START_DELAY"
  BY DEF SenderTestStartPdu
<1>4. r \in GapRequest /\ r.op = START /\ r.arg = adv_int
  BY DEF Inv, Typed, TypeOK, GapRequest, Request, START
<1> HIDE DEF r
<1>5. gapRequests \in Seq(GapRequest) /\ StartsAt(gapRequests, adv_int)
  BY DEF Inv, Typed, Interval
<1>6. /\ gapRequests' \in Seq(GapRequest)
      /\ Ops(gapRequests)' = Ops(gapRequests) \cup {START}
      /\ StartsAt(gapRequests', adv_int)
      /\ START \notin Ops(gapRequests)
  BY <1>1, <1>2, <1>4, <1>5, AskOne DEF Pending
<1>7. One(START)' /\ One(STOP)'
  <2>1. Once(gapRequests', START) /\ Once(gapRequests', STOP)
    BY <1>2, <1>4, <1>5, <1>6, AskOne DEF Inv, Switch, One, START, STOP
  <2> QED BY <1>1, <1>2, <1>6, <2>1
          DEF Inv, Switch, One, Pending, SameStack, START, STOP
<1>8. Pending(START)' /\ ~ Pending(STOP)'
  BY <1>1, <1>2, <1>6 DEF Pending, SameStack, START, STOP
<1>9. Typed'
  BY <1>2, <1>3, <1>6, TypedKept, EncryptionKept
     DEF Inv, Typed, TypeOK, callbackVars, State
<1>10. Switch'
  BY <1>1, <1>2, <1>6, <1>7, <1>8 DEF Inv, Switch, SameStack
<1>11. Client'
  BY <1>1, <1>2, <1>3, <1>8 DEF Client, Started, callbackVars
<1>12. Interval'
  BY <1>1, <1>2, <1>3, <1>6
     DEF Inv, Interval, SameStack, callbackVars, encryptionVars
<1> QED BY <1>9, <1>10, <1>11, <1>12 DEF Inv

\* The timer fires.
LEMMA TimerStep ==
    ASSUME Inv, PacketSendDone \/ PacketSendTimeout
    PROVE  Inv'
<1>1. UNCHANGED bcVars
  BY DEF PacketSendDone, PacketSendTimeout
<1>2. NoSwitchAsked
  BY <1>1, NothingAsked
<1>3. Switch'
  BY <1>2, SwitchKept
<1>4. /\ Pending(START)' <=> Pending(START)
      /\ Pending(STOP)' <=> Pending(STOP)
      /\ START \in Ops(gapRequests)' <=> START \in Ops(gapRequests)
      /\ UNCHANGED <<broadcastState, air>>
      /\ StartsAt(gapRequests', adv_int)
      /\ SameStack
      /\ gapRequests' \in Seq(GapRequest)
  BY <1>2 DEF NoSwitchAsked, SameStack
<1>5. timer /\ callback = "idle" /\ state \in {"BROADCAST_PDU", "TEST_END_PDU"}
  BY DEF PacketSendDone, PacketSendTimeout, Inv, Client
<1>6. CASE PacketSendDone
  <2>1. UNCHANGED <<encryptionVars, app, mainVars, callbackVars>>
        /\ timer' = FALSE
    BY <1>6 DEF PacketSendDone
  <2>2. Typed'
    BY <1>4, <2>1, TypedKept, EncryptionKept
       DEF Inv, Typed, TypeOK, mainVars, callbackVars
  <2>3. Client'
    BY <1>4, <1>5, <2>1 DEF Inv, Client, Started, mainVars, callbackVars
  <2>4. Interval'
    BY <1>4, <2>1 DEF Inv, Interval, callbackVars, encryptionVars
  <2> QED BY <1>3, <2>2, <2>3, <2>4 DEF Inv
<1>7. CASE PacketSendTimeout
  <2>1. /\ StartAnswered
        /\ packet_send_counter < NO_PACKET_TO_SEND
        /\ timer' = FALSE
        /\ packet_send_counter' = packet_send_counter + 1
        /\ IF pdu_send_counter = PDU_TO_KEY_FRAGMENT_RATIO
           THEN pdu_send_counter' = 0 /\ GetKeyFragmentPdu
           ELSE pdu_send_counter' = pdu_send_counter + 1 /\ EncryptPayload
        /\ callback' = "built"
        /\ UNCHANGED <<app, mainVars, prev_key_id, adv_int>>
    BY <1>7 DEF PacketSendTimeout
  <2>2. ~ Pending(START)
    BY <2>1 DEF StartAnswered, Pending, Ops, START
  <2>3. EncryptionTypeOK' /\ key_id' \in RandomIds
    BY <2>1, PduType DEF Inv, Typed, TypeOK
  <2>4. Typed'
    <3>1. packet_send_counter' \in 0 .. NO_PACKET_TO_SEND
      BY <2>1, SenderAssumption DEF Inv, Typed, TypeOK
    <3>2. pdu_send_counter' \in 0 .. PDU_TO_KEY_FRAGMENT_RATIO
      BY <2>1, SenderAssumption DEF Inv, Typed, TypeOK
    <3> QED BY <1>4, <2>1, <2>3, <3>1, <3>2, TypedKept
            DEF Inv, Typed, TypeOK, mainVars, Callback
  <2>5. Client'
    BY <1>4, <1>5, <2>1, <2>2 DEF Inv, Client, Started, mainVars
  <2>6. Interval'
    BY <1>4, <1>5, <2>1 DEF Inv, Interval
  <2> QED BY <1>3, <2>4, <2>5, <2>6 DEF Inv
<1> QED BY <1>6, <1>7

\* The steps of the call-back that ask for no start and no stop.
LEMMA CallbackStep ==
    ASSUME Inv,
           \/ CallbackSameSession
           \/ CallbackStopped
           \/ CallbackSetPayload
           \/ CallbackRearm
    PROVE  Inv'
<1>1. NoSwitchAsked
  <2>1. CASE \/ CallbackSameSession /\ app = "2nd"
             \/ CallbackSetPayload
    <3>1. pdu \in Pdu
      BY DEF Inv, Typed, TypeOK, EncryptionTypeOK
    <3>2. Call(SetBroadcastingPayload(pdu, PduSize))
      BY <2>1 DEF CallbackSameSession, CallbackSetPayload
    <3> QED BY <3>1, <3>2, PayloadAsked
  <2>2. CASE CallbackSameSession /\ app # "2nd"
    <3>1. Call(<<>>)
      BY <2>2 DEF CallbackSameSession
    <3>2. UNCHANGED bcVars
      BY <3>1, AskNothing
         DEF Call, Inv, Typed, bcVars, controllerVars, stackVars
    <3> QED BY <3>2, NothingAsked
  <2>3. CASE CallbackStopped \/ CallbackRearm
    BY <2>3, NothingAsked DEF CallbackStopped, CallbackRearm
  <2> QED BY <2>1, <2>2, <2>3
<1>2. /\ Pending(START)' <=> Pending(START)
      /\ Pending(STOP)' <=> Pending(STOP)
      /\ START \in Ops(gapRequests)' <=> START \in Ops(gapRequests)
      /\ UNCHANGED <<broadcastState, air>>
      /\ StartsAt(gapRequests', adv_int)
      /\ SameStack
      /\ gapRequests' \in Seq(GapRequest)
  BY <1>1 DEF NoSwitchAsked, SameStack
<1>3. Switch'
  BY <1>1, SwitchKept
<1>4. UNCHANGED <<encryptionVars, app, mainVars, packet_send_counter,
                  pdu_send_counter, prev_key_id, adv_int>>
  BY DEF CallbackSameSession, CallbackStopped, CallbackSetPayload,
         CallbackRearm
<1>5. timer' \in BOOLEAN /\ callback' \in Callback
  BY DEF CallbackSameSession, CallbackStopped, CallbackSetPayload,
         CallbackRearm, Callback, Inv, Typed, TypeOK
<1>6. Typed'
  BY <1>2, <1>4, <1>5, TypedKept, EncryptionKept
     DEF Inv, Typed, TypeOK, mainVars
<1>7. UNCHANGED <<state, key_id>>
  BY <1>4 DEF mainVars, encryptionVars
<1>8. Client'
  <2>1. CASE CallbackSameSession
    BY <1>2, <1>4, <1>7, <2>1 DEF CallbackSameSession, Inv, Client, Started
  <2>2. CASE CallbackStopped
    BY <1>2, <1>4, <1>7, <2>2
       DEF CallbackStopped, Inv, Client, Started, Switch
  <2>3. CASE CallbackSetPayload
    BY <1>2, <1>4, <1>7, <2>3 DEF CallbackSetPayload, Inv, Client, Started
  <2>4. CASE CallbackRearm
    BY <1>2, <1>4, <1>7, <2>4 DEF CallbackRearm, Inv, Client, Started
  <2> QED BY <2>1, <2>2, <2>3, <2>4
<1>9. Interval'
  <2>1. CASE CallbackSameSession
    BY <1>2, <1>4, <1>7, <2>1 DEF CallbackSameSession, Inv, Interval
  <2>2. CASE CallbackStopped
    BY <1>2, <1>4, <1>7, <2>2 DEF CallbackStopped, Inv, Interval
  <2>3. CASE CallbackSetPayload
    BY <1>2, <1>4, <1>7, <2>3 DEF CallbackSetPayload, Inv, Interval
  <2>4. CASE CallbackRearm
    BY <1>2, <1>4, <1>7, <2>4 DEF CallbackRearm, Inv, Interval
  <2> QED BY <2>1, <2>2, <2>3, <2>4
<1> QED BY <1>3, <1>6, <1>8, <1>9 DEF Inv

\* The stop of a change of session: broadcasting runs, and no start is on
\* its way.
LEMMA NewSessionStep ==
    ASSUME Inv, CallbackNewSession
    PROVE  Inv'
<1> DEFINE r == Request("ADV_STOP", 0)
<1>1. /\ callback = "built" /\ ~ timer
      /\ state \in {"BROADCAST_PDU", "TEST_END_PDU"}
      /\ ~ Pending(START) /\ ~ Pending(STOP)
      /\ broadcastState = "RUNNING"
      /\ air.on
  BY DEF Inv, Client, Switch, Started, CallbackNewSession
<1>2. /\ gapRequests' = gapRequests \o <<r>>
      /\ SameStack
  BY <1>1 DEF CallbackNewSession, Call, StopBroadcasting, controllerVars,
              SameStack
<1>3. /\ adv_int' = GetAdvIntervalFromKeyId(key_id)
      /\ callback' = "stopping"
      /\ UNCHANGED <<encryptionVars, app, mainVars, timer,
                     packet_send_counter, pdu_send_counter, prev_key_id>>
  BY DEF CallbackNewSession
<1>4. r \in GapRequest /\ r.op = STOP
  BY DEF GapRequest, Request, STOP
<1> HIDE DEF r
<1>5. gapRequests \in Seq(GapRequest)
  BY DEF Inv, Typed
<1>6. START \notin Ops(gapRequests) /\ STOP \notin Ops(gapRequests)
      /\ START # STOP
  BY <1>1 DEF Pending, START, STOP
<1>7. StartsAt(gapRequests, adv_int')
  BY <1>6 DEF Ops, StartsAt, START
<1>8. /\ gapRequests' \in Seq(GapRequest)
      /\ Ops(gapRequests)' = Ops(gapRequests) \cup {STOP}
      /\ StartsAt(gapRequests', adv_int')
  BY <1>2, <1>4, <1>5, <1>7, AskOne DEF STOP
<1>9. One(START)' /\ One(STOP)'
  <2>1. Once(gapRequests', START) /\ Once(gapRequests', STOP)
    BY <1>2, <1>4, <1>5, <1>6, AskOne DEF Inv, Switch, One
  <2> QED BY <1>1, <1>2, <1>6, <1>8, <2>1
          DEF Inv, Switch, One, Pending, SameStack
<1>10. Pending(STOP)' /\ ~ Pending(START)' /\ STOP \in Ops(gapRequests)'
  BY <1>1, <1>2, <1>6, <1>8 DEF Pending, SameStack
<1>11. Typed'
  <2>1. adv_int' \in Nat
    BY <1>3, IntervalType DEF Inv, Typed, TypeOK, EncryptionTypeOK
  <2> QED BY <1>2, <1>3, <1>8, <2>1, TypedKept, EncryptionKept
          DEF Inv, Typed, TypeOK, mainVars, Callback
<1>12. Switch'
  BY <1>1, <1>2, <1>9, <1>10 DEF Inv, Switch, SameStack
<1>13. Client'
  BY <1>1, <1>2, <1>3, <1>10 DEF Client, Started, mainVars
<1>14. Interval'
  BY <1>3, <1>8 DEF Interval, encryptionVars
<1> QED BY <1>11, <1>12, <1>13, <1>14 DEF Inv

\* The start that follows: broadcasting has stopped.
LEMMA RestartStep ==
    ASSUME Inv, CallbackRestart
    PROVE  Inv'
<1> DEFINE r == Request("ADV_START", adv_int)
<1>1. /\ callback = "restart" /\ ~ timer
      /\ state \in {"BROADCAST_PDU", "TEST_END_PDU"}
      /\ ~ Pending(START) /\ ~ Pending(STOP)
      /\ broadcastState = "NOT_RUNNING" /\ scannerState = "NOT_ACTIVE"
      /\ ~ air.on
      /\ adv_int = GetAdvIntervalFromKeyId(key_id)
  BY DEF Inv, Client, Switch, Started, Interval, CallbackRestart
<1>2. /\ gapRequests' = gapRequests \o <<r>>
      /\ SameStack
  BY <1>1 DEF CallbackRestart, Call, StartBroadcasting, StopScanning,
              controllerVars, SameStack
<1>3. /\ prev_key_id' = key_id
      /\ callback' = "rearm"
      /\ UNCHANGED <<encryptionVars, app, mainVars, timer,
                     packet_send_counter, pdu_send_counter, adv_int>>
  BY DEF CallbackRestart
<1>4. r \in GapRequest /\ r.op = START /\ r.arg = adv_int
  BY DEF Inv, Typed, TypeOK, GapRequest, Request, START
<1> HIDE DEF r
<1>5. gapRequests \in Seq(GapRequest) /\ StartsAt(gapRequests, adv_int)
  BY DEF Inv, Typed, Interval
<1>6. START \notin Ops(gapRequests) /\ START # STOP
  BY <1>1 DEF Pending, START, STOP
<1>7. /\ gapRequests' \in Seq(GapRequest)
      /\ Ops(gapRequests)' = Ops(gapRequests) \cup {START}
      /\ StartsAt(gapRequests', adv_int)
  BY <1>2, <1>4, <1>5, AskOne
<1>8. One(START)' /\ One(STOP)'
  <2>1. Once(gapRequests', START) /\ Once(gapRequests', STOP)
    BY <1>2, <1>4, <1>5, <1>6, AskOne DEF Inv, Switch, One
  <2> QED BY <1>1, <1>2, <1>6, <1>7, <2>1
          DEF Inv, Switch, One, Pending, SameStack
<1>9. Pending(START)' /\ ~ Pending(STOP)' /\ START \in Ops(gapRequests)'
  BY <1>1, <1>2, <1>6, <1>7 DEF Pending, SameStack
<1>10. Typed'
  BY <1>2, <1>3, <1>7, TypedKept, EncryptionKept
     DEF Inv, Typed, TypeOK, EncryptionTypeOK, mainVars, Callback
<1>11. Switch'
  BY <1>1, <1>2, <1>8, <1>9 DEF Inv, Switch, SameStack
<1>12. Client'
  BY <1>1, <1>2, <1>3, <1>9 DEF Client, Started, mainVars
<1>13. Interval'
  BY <1>1, <1>3, <1>7, <1>9 DEF Interval, IntervalOf, encryptionVars
<1> QED BY <1>10, <1>11, <1>12, <1>13 DEF Inv

LEMMA InvNext == Inv /\ [Next]_vars => Inv'
<1> SUFFICES ASSUME Inv, [Next]_vars PROVE Inv'
  OBVIOUS
<1>1. CASE SerialDataReceived \/ SenderMain
  BY <1>1, MainStep, StartStep DEF SenderMain
<1>2. CASE TimerCallback
  BY <1>2, TimerStep, CallbackStep, NewSessionStep, RestartStep
     DEF TimerCallback
<1>3. CASE BcStep /\ ClientUnchanged
  BY <1>3, StackStep, TaskWaits, TaskServes DEF BcStep
<1>4. CASE UNCHANGED vars
  <2>1. Pending(START)' <=> Pending(START)
    BY <1>4 DEF vars, bcVars, controllerVars, stackVars, Pending
  <2>2. Pending(STOP)' <=> Pending(STOP)
    BY <1>4 DEF vars, bcVars, controllerVars, stackVars, Pending
  <2>3. NoSwitchAsked
    BY <1>4, NothingAsked DEF vars
  <2>4. Typed'
    BY <1>4 DEF vars, bcVars, controllerVars, stackVars, encryptionVars,
                mainVars, callbackVars, Inv, Typed, TypeOK,
                ControllerTypeOK, EncryptionTypeOK
  <2>5. Client'
    BY <1>4, <2>1, <2>2 DEF vars, bcVars, controllerVars, mainVars,
                            callbackVars, Inv, Client, Started
  <2>6. Interval'
    BY <1>4 DEF vars, bcVars, stackVars, encryptionVars, callbackVars, Inv,
                Interval
  <2> QED BY <2>3, <2>4, <2>5, <2>6, SwitchKept DEF Inv
<1> QED BY <1>1, <1>2, <1>3, <1>4 DEF Next
----------------------------------------------------------------------------
\* The variables of the sender programs keep their types.
THEOREM TypeCorrect == Spec => []TypeOK
<1>1. Inv => TypeOK
  BY DEF Inv, Typed
<1> QED BY <1>1, InvInit, InvNext, PTL DEF Spec

\* When nothing is on its way between controller and stack the state
\* variables are right, although completions are coalesced into bits and
\* served in a fixed order.
THEOREM StateFollowsStack == Spec => []ControllerFollowsStack
<1>1. Inv => ControllerFollowsStack
  <2> SUFFICES ASSUME Inv, BcQuiet
               PROVE  /\ broadcastState = "RUNNING" <=> air.on
                      /\ scannerState = "ACTIVE" <=> scanning
    BY DEF ControllerFollowsStack
  <2>1. Ops(gapRequests) = {}
    BY DEF BcQuiet, Ops
  <2>2. ~ Pending(START) /\ ~ Pending(STOP)
    BY <2>1 DEF BcQuiet, Pending
  <2> QED BY <2>2 DEF Inv, Switch
<1> QED BY <1>1, InvInit, InvNext, PTL DEF Spec

\* The device broadcasts at the interval of its session whenever the
\* call-back is done and the stack has answered, or, if the identifier is 0,
\* perhaps at the one it started with.
THEOREM IntervalRight == Spec => []IntervalFollowsKey
<1>1. Inv => IntervalFollowsKey
  <2> SUFFICES ASSUME Inv, callback = "idle", packet_send_counter > 0, BcQuiet
               PROVE  air.on /\ IntervalOf(key_id, air.interval)
    BY DEF IntervalFollowsKey, IntervalOf
  <2>1. Ops(gapRequests) = {}
    BY DEF BcQuiet, Ops
  <2>2. ~ Pending(START) /\ ~ Pending(STOP)
    BY <2>1 DEF BcQuiet, Pending
  <2>3. air.on
    BY <2>2 DEF Inv, Client, Switch, Started
  <2> QED BY <2>1, <2>3 DEF Inv, Interval
<1> QED BY <1>1, InvInit, InvNext, PTL DEF Spec

----------------------------------------------------------------------------
\* The fragments of a session.

\* The fragment given j fragments ago.
Ago(n, j) == IF j <= n THEN n - j ELSE n - j + 4

\* The last g fragments belong to this session, and unless these are all
\* four, it has not had more PDUs than come with g fragments.
GivenFor(g) ==
    /\ \A j \in 1 .. g : Ago(key_fragment_no, j) \in given
    /\ g < 4 => encrypted_packet_counter
                    <= g * (PDU_TO_KEY_FRAGMENT_RATIO + 1) + pdu_send_counter

GivenInv == \E g \in 0 .. 4 : GivenFor(g)

LEMMA GivenInit == Init => GivenInv
<1> SUFFICES ASSUME Init PROVE GivenFor(0)
  BY DEF GivenInv
<1> QED BY SenderAssumption DEF GivenFor, Init, InitPayloadEncryption

\* A fragment joins the window ...
LEMMA FragmentJoins ==
    ASSUME Typed, NEW g \in 0 .. 4, GivenFor(g),
           GetKeyFragmentPdu, ~ KeyReplacement,
           pdu_send_counter = PDU_TO_KEY_FRAGMENT_RATIO, pdu_send_counter' = 0
    PROVE  GivenInv'
<1>1. /\ given' = given \cup {key_fragment_no}
      /\ key_fragment_no' = NextKeyFragment(key_fragment_no)
      /\ encrypted_packet_counter' = encrypted_packet_counter + 1
  BY DEF GetKeyFragmentPdu, CountPdu
<1>2. key_fragment_no \in 0 .. 3
  BY DEF Typed, TypeOK, EncryptionTypeOK, FragmentNo
<1> DEFINE h == IF g = 4 THEN 4 ELSE g + 1
<1>3. Ago(key_fragment_no', 1) = key_fragment_no
  BY <1>1, <1>2 DEF Ago, NextKeyFragment
<1>4. ASSUME NEW j \in 1 .. 3
      PROVE  Ago(key_fragment_no', j + 1) = Ago(key_fragment_no, j)
  BY <1>1, <1>2 DEF Ago, NextKeyFragment
<1>5. ASSUME NEW j \in 1 .. h PROVE Ago(key_fragment_no', j) \in given'
  <2>1. CASE j = 1
    BY <1>1, <1>3, <2>1
  <2>2. CASE j # 1
    <3>1. j - 1 \in 1 .. 3 /\ j - 1 \in 1 .. g
      BY <2>2
    <3>2. Ago(key_fragment_no', (j - 1) + 1) = Ago(key_fragment_no, j - 1)
      BY <3>1, <1>4
    <3>3. (j - 1) + 1 = j
      OBVIOUS
    <3> QED BY <1>1, <3>1, <3>2, <3>3 DEF GivenFor
  <2> QED BY <2>1, <2>2
<1>6. h < 4 => encrypted_packet_counter'
                   <= h * (PDU_TO_KEY_FRAGMENT_RATIO + 1) + pdu_send_counter'
  <2> SUFFICES ASSUME h < 4
               PROVE  encrypted_packet_counter'
                          <= h * (PDU_TO_KEY_FRAGMENT_RATIO + 1)
                                 + pdu_send_counter'
    OBVIOUS
  <2>0. h = g + 1 /\ g < 4
    OBVIOUS
  <2> HIDE DEF h
  <2>1. /\ PDU_TO_KEY_FRAGMENT_RATIO \in Nat
        /\ encrypted_packet_counter \in Nat
    BY SenderAssumption, EncryptionAssumption
       DEF Typed, TypeOK, EncryptionTypeOK
  <2>2. encrypted_packet_counter
            <= g * (PDU_TO_KEY_FRAGMENT_RATIO + 1) + PDU_TO_KEY_FRAGMENT_RATIO
    BY <2>0 DEF GivenFor
  <2>3. (g + 1) * (PDU_TO_KEY_FRAGMENT_RATIO + 1)
            = g * (PDU_TO_KEY_FRAGMENT_RATIO + 1)
                  + PDU_TO_KEY_FRAGMENT_RATIO + 1
    BY <2>1
  <2>4. g * (PDU_TO_KEY_FRAGMENT_RATIO + 1) \in Nat
    BY <2>1
  <2>5. h * (PDU_TO_KEY_FRAGMENT_RATIO + 1)
            = (g + 1) * (PDU_TO_KEY_FRAGMENT_RATIO + 1)
    BY <2>0
  <2> QED BY <1>1, <2>1, <2>2, <2>3, <2>4, <2>5
<1>7. h \in 0 .. 4
  OBVIOUS
<1> HIDE DEF h
<1> QED BY <1>5, <1>6, <1>7 DEF GivenInv, GivenFor

\* ... and every PDU keeps it.
LEMMA GivenNext == Typed /\ GivenInv /\ [Next]_vars => GivenInv'
<1> SUFFICES ASSUME Typed, GivenInv, [Next]_vars PROVE GivenInv'
  OBVIOUS
<1>1. PICK g \in 0 .. 4 : GivenFor(g)
  BY DEF GivenInv
<1>2. CASE PacketSendTimeout /\ pdu_send_counter = PDU_TO_KEY_FRAGMENT_RATIO
  <2>1. GetKeyFragmentPdu /\ pdu_send_counter' = 0
    BY <1>2 DEF PacketSendTimeout
  <2>2. CASE KeyReplacement
    <3>1. /\ given' = {key_fragment_no}
          /\ key_fragment_no' = NextKeyFragment(key_fragment_no)
          /\ encrypted_packet_counter' = 0
      BY <2>1, <2>2 DEF GetKeyFragmentPdu, CountPdu
    <3>2. Ago(key_fragment_no', 1) = key_fragment_no
      BY <3>1 DEF Ago, NextKeyFragment, Typed, TypeOK, EncryptionTypeOK,
                  FragmentNo
    <3>3. GivenFor(1)'
      BY <2>1, <3>1, <3>2, SenderAssumption DEF GivenFor
    <3> QED BY <3>3 DEF GivenInv
  <2>3. CASE ~ KeyReplacement
    BY <1>1, <1>2, <2>1, <2>3, FragmentJoins
  <2> QED BY <2>2, <2>3
<1>3. CASE PacketSendTimeout /\ pdu_send_counter # PDU_TO_KEY_FRAGMENT_RATIO
  <2>1. EncryptPayload /\ pdu_send_counter' = pdu_send_counter + 1
    BY <1>3 DEF PacketSendTimeout
  <2>2. pdu_send_counter \in Nat /\ key_fragment_no' = key_fragment_no
    BY <2>1, SenderAssumption DEF Typed, TypeOK, EncryptPayload
  <2>3. CASE KeyReplacement
    <3>1. encrypted_packet_counter' = 0
      BY <2>1, <2>3 DEF EncryptPayload, CountPdu
    <3>2. GivenFor(0)'
      BY <2>1, <2>2, <3>1, SenderAssumption DEF GivenFor
    <3> QED BY <3>2 DEF GivenInv
  <2>4. CASE ~ KeyReplacement
    <3>1. /\ encrypted_packet_counter' = encrypted_packet_counter + 1
          /\ given' = given
      BY <2>1, <2>4 DEF EncryptPayload, CountPdu
    <3>2. encrypted_packet_counter \in Nat
      BY EncryptionAssumption DEF Typed, TypeOK, EncryptionTypeOK
    <3>3. g * (PDU_TO_KEY_FRAGMENT_RATIO + 1) \in Nat
      BY SenderAssumption
    <3>4. GivenFor(g)'
      BY <1>1, <2>1, <2>2, <3>1, <3>2, <3>3 DEF GivenFor
    <3> QED BY <3>4 DEF GivenInv
  <2> QED BY <2>3, <2>4
<1>4. CASE ~ PacketSendTimeout
  <2>1. UNCHANGED <<encryptionVars, pdu_send_counter>>
    BY <1>4 DEF Next, SerialDataReceived, SenderMain, SenderWaitForStartCmd,
       SenderTestStartPdu, SenderTestStarted, SenderBroadcastPdu,
       SenderTestEndPdu, TimerCallback, PacketSendDone, CallbackNewSession,
       CallbackSameSession, CallbackStopped, CallbackSetPayload,
       CallbackRestart, CallbackRearm, ClientUnchanged, vars, callbackVars
  <2>2. GivenFor(g)'
    BY <1>1, <2>1 DEF GivenFor, encryptionVars
  <2> QED BY <2>2 DEF GivenInv
<1> QED BY <1>2, <1>3, <1>4

\* If a session lasts for more PDUs than four fragments and the data PDUs
\* before each of them, whatever the turn and the ratio stand at when it
\* begins, all four fragments of its key have been given out when the key is
\* replaced: 200 PDUs and a ratio of 3 in the code.
THEOREM WholeKeyGiven ==
    ASSUME TEST_NO_PACKETS_TO_KEY_REPLACE
               > 4 * (PDU_TO_KEY_FRAGMENT_RATIO + 1)
    PROVE  Spec => SessionGivesWholeKey
<1>1. Typed /\ GivenInv /\ [Next]_vars =>
          [pre_shared_key' # pre_shared_key => given = FragmentNo]_vars
  <2> SUFFICES ASSUME Typed, GivenInv, Next, pre_shared_key' # pre_shared_key
               PROVE  given = FragmentNo
    BY DEF vars, encryptionVars
  <2>1. PacketSendTimeout
    BY DEF Next, SerialDataReceived, SenderMain, SenderWaitForStartCmd,
       SenderTestStartPdu, SenderTestStarted, SenderBroadcastPdu,
       SenderTestEndPdu, TimerCallback, PacketSendDone, CallbackNewSession,
       CallbackSameSession, CallbackStopped, CallbackSetPayload,
       CallbackRestart, CallbackRearm, ClientUnchanged, encryptionVars
  <2>2. CountPdu
    BY <2>1 DEF PacketSendTimeout, GetKeyFragmentPdu, EncryptPayload
  <2>3. encrypted_packet_counter = TEST_NO_PACKETS_TO_KEY_REPLACE - 1
    BY <2>2, CounterWraps, EncryptionAssumption
       DEF CountPdu, KeyReplacement, Typed, TypeOK, EncryptionTypeOK
  <2>4. PICK g \in 0 .. 4 : GivenFor(g)
    BY DEF GivenInv
  <2>5. g = 4
    <3> SUFFICES ASSUME g \in 0 .. 3 PROVE FALSE
      OBVIOUS
    <3> DEFINE step == PDU_TO_KEY_FRAGMENT_RATIO + 1
    <3>1. step \in Nat /\ pdu_send_counter \in 0 .. step - 1
      BY SenderAssumption DEF Typed, TypeOK
    <3>2. TEST_NO_PACKETS_TO_KEY_REPLACE - 1 <= g * step + pdu_send_counter
      BY <2>3, <2>4 DEF GivenFor
    <3>3. g * step <= 3 * step
      BY <3>1
    <3>4. g * step \in Nat /\ TEST_NO_PACKETS_TO_KEY_REPLACE \in Nat
      BY <3>1, EncryptionAssumption
    <3>5. TEST_NO_PACKETS_TO_KEY_REPLACE > 4 * step
      OBVIOUS
    <3> HIDE DEF step
    <3> QED BY <3>1, <3>2, <3>3, <3>4, <3>5
  <2>6. key_fragment_no \in 0 .. 3 /\ given \subseteq FragmentNo
    BY DEF Typed, TypeOK, EncryptionTypeOK, FragmentNo
  <2>7. \A j \in 1 .. 4 : Ago(key_fragment_no, j) \in given
    BY <2>4, <2>5 DEF GivenFor
  <2>8. ASSUME NEW f \in 0 .. 3 PROVE f \in given
    <3>1. \E j \in 1 .. 4 : Ago(key_fragment_no, j) = f
      <4>1. CASE f < key_fragment_no
        <5>1. Ago(key_fragment_no, key_fragment_no - f) = f
          BY <2>6, <4>1 DEF Ago
        <5> QED BY <2>6, <4>1, <5>1
      <4>2. CASE f >= key_fragment_no
        <5>1. Ago(key_fragment_no, key_fragment_no - f + 4) = f
          BY <2>6, <4>2 DEF Ago
        <5> QED BY <2>6, <4>2, <5>1
      <4> QED BY <2>6, <4>1, <4>2
    <3> QED BY <2>7, <3>1
  <2> QED BY <2>6, <2>8 DEF FragmentNo
<1>2. Inv => Typed
  BY DEF Inv
<1> QED BY <1>1, <1>2, InvInit, InvNext, GivenInit, GivenNext, PTL
        DEF Spec, SessionGivesWholeKey

----------------------------------------------------------------------------
\* The payload that the device will broadcast once nothing is on its way.

\* The request that sets what is broadcast.
DATA == "ADV_DATA_RAW_SET"

\* x is the last payload asked for in s, or, when s asks for none, it is data.
Latest(s, data, x) ==
    \/ data = x /\ \A i \in 1 .. Len(s) : s[i].op # DATA
    \/ \E i \in 1 .. Len(s) :
           /\ s[i].op = DATA /\ s[i].arg = x
           /\ \A j \in i + 1 .. Len(s) : s[j].op # DATA

LEMMA LatestServed ==
    ASSUME NEW s \in Seq(GapRequest), s # <<>>, NEW data, NEW x,
           Latest(s, data, x)
    PROVE  Latest(Tail(s), IF Head(s).op = DATA THEN Head(s).arg ELSE data, x)
<1> DEFINE t == Tail(s)
           n == Len(s)
<1>1. /\ n \in Nat \ {0} /\ Head(s) = s[1]
      /\ Len(t) = n - 1
      /\ \A i \in 1 .. n - 1 : t[i] = s[i + 1]
  OBVIOUS
<1>2. CASE data = x /\ \A i \in 1 .. n : s[i].op # DATA
  <2> HIDE DEF t, n
  <2>1. s[1].op # DATA /\ \A i \in 1 .. n - 1 : s[i + 1].op # DATA
    BY <1>1, <1>2
  <2> QED BY <1>1, <1>2, <2>1 DEF Latest, t, n
<1>3. ASSUME NEW i \in 1 .. n, s[i].op = DATA, s[i].arg = x,
             \A j \in i + 1 .. n : s[j].op # DATA
      PROVE  Latest(t, IF Head(s).op = DATA THEN Head(s).arg ELSE data, x)
  <2> HIDE DEF t, n
  <2>1. CASE i = 1
    <3>1. \A j \in 1 .. n - 1 : t[j].op # DATA
      BY <1>1, <1>3, <2>1
    <3> QED BY <1>1, <1>3, <2>1, <3>1 DEF Latest
  <2>2. CASE i # 1
    <3>1. /\ i - 1 \in 1 .. n - 1
          /\ t[i - 1].op = DATA /\ t[i - 1].arg = x
          /\ \A j \in (i - 1) + 1 .. n - 1 : t[j].op # DATA
      BY <1>1, <1>3, <2>2
    <3> QED BY <1>1, <3>1 DEF Latest
  <2> QED BY <2>1, <2>2
<1> QED BY <1>2, <1>3 DEF Latest

LEMMA LatestAsked ==
    ASSUME NEW s \in Seq(GapRequest), NEW data, NEW x
    PROVE  Latest(s \o <<Request(DATA, x)>>, data, x)
<1> DEFINE r == Request(DATA, x)
           t == s \o <<r>>
<1>1. /\ Len(s) \in Nat /\ Len(t) = Len(s) + 1 /\ t[Len(s) + 1] = r
  OBVIOUS
<1>2. r.op = DATA /\ r.arg = x
  BY DEF Request
<1> HIDE DEF t, r
<1>3. Len(s) + 1 \in 1 .. Len(t) /\ Len(s) + 1 + 1 .. Len(t) = {}
  BY <1>1
<1> QED BY <1>1, <1>2, <1>3 DEF Latest, t, r

\* The PDU built last is not the first of its session, nor of the program.
LaterPdu == /\ app = "2nd" /\ state = "BROADCAST_PDU"
            /\ packet_send_counter > 1 /\ pdu.pdu_no > 0

\* The call-back changes no interval for such a PDU, and once it has dealt
\* with it no other payload is asked for.
OnAirInv ==
    LaterPdu =>
        /\ callback \in {"idle", "built", "rearm"}
        /\ callback = "built" => prev_key_id = key_id
        /\ callback \in {"idle", "rearm"} => Latest(gapRequests, air.data, pdu)

LEMMA LaterPduKept ==
    ASSUME UNCHANGED <<app, state, packet_send_counter, pdu>>
    PROVE  LaterPdu' <=> LaterPdu
BY DEF LaterPdu

LEMMA OnAirStack ==
    ASSUME Inv, OnAirInv, BcStep /\ ClientUnchanged
    PROVE  OnAirInv'
<1>1. UNCHANGED <<app, state, packet_send_counter, pdu, callback,
                  prev_key_id, key_id>>
  BY DEF ClientUnchanged, encryptionVars, mainVars, callbackVars
<1>2. LaterPdu' <=> LaterPdu
  BY <1>1, LaterPduKept
<1>3. Latest(gapRequests, air.data, pdu) => Latest(gapRequests', air'.data, pdu)
  <2>1. CASE GapComplete
    <3> DEFINE r == Head(gapRequests)
    <3>1. /\ gapRequests \in Seq(GapRequest) /\ gapRequests # <<>>
          /\ gapRequests' = Tail(gapRequests)
          /\ r \in GapRequest
      BY <2>1, ServeOne DEF GapComplete, Inv, Typed
    <3>2. air'.data = IF r.op = DATA THEN r.arg ELSE air.data
      <4>1. /\ r.op \in {DATA, "ADV_START", "ADV_STOP"}
            /\ air \in [on : BOOLEAN, data : Pdu \cup {StartPdu, EndPdu, NoData},
                        interval : Nat]
        BY <3>1 DEF GapRequest, DATA, Inv, Typed
      <4>2. air' = CASE r.op = "ADV_DATA_RAW_SET" -> [air EXCEPT !.data = r.arg]
                     [] r.op = "ADV_START" -> [air EXCEPT !.on = TRUE,
                                                          !.interval = r.arg]
                     [] r.op = "ADV_STOP" -> [air EXCEPT !.on = FALSE]
                     [] OTHER -> air
        BY <2>1 DEF GapComplete
      <4> HIDE DEF r
      <4> QED BY <4>1, <4>2 DEF DATA
    <3> QED BY <3>1, <3>2, LatestServed
  <2>2. CASE BcWait \/ BcServe
    BY <2>2 DEF BcWait, BcServe, stackVars
  <2> QED BY <2>1, <2>2 DEF BcStep
<1> QED BY <1>1, <1>2, <1>3 DEF OnAirInv

LEMMA OnAirMain ==
    ASSUME Inv, OnAirInv, SerialDataReceived \/ SenderMain
    PROVE  OnAirInv'
<1>1. CASE SerialDataReceived
  <2>1. UNCHANGED <<app, state, packet_send_counter, pdu, callback,
                    prev_key_id, key_id, gapRequests, air>>
    BY <1>1 DEF SerialDataReceived, bcVars, stackVars, encryptionVars,
                callbackVars
  <2> QED BY <2>1, LaterPduKept DEF OnAirInv
<1>2. CASE SenderTestStarted
  <2>1. packet_send_counter = 0 /\ packet_send_counter' = packet_send_counter
    BY <1>2 DEF SenderTestStarted, callbackVars, Inv, Client, Typed, TypeOK
  <2>2. ~ LaterPdu'
    BY <2>1 DEF LaterPdu
  <2> QED BY <2>2 DEF OnAirInv
<1>3. CASE SenderMain /\ ~ SenderTestStarted
  <2>1. state' # "BROADCAST_PDU"
    BY <1>3 DEF SenderMain, SenderWaitForStartCmd, SenderTestStartPdu,
                SenderBroadcastPdu, SenderTestEndPdu, mainVars
  <2> QED BY <2>1 DEF OnAirInv, LaterPdu
<1> QED BY <1>1, <1>2, <1>3

\* Only a PDU that is the first of its session comes with a new identifier.
LEMMA OnAirTimeout ==
    ASSUME Inv, PacketSendTimeout
    PROVE  OnAirInv'
<1>1. /\ callback' = "built" /\ prev_key_id' = prev_key_id
      /\ packet_send_counter' = packet_send_counter + 1
      /\ CountPdu /\ pdu'.pdu_no = encrypted_packet_counter'
  BY DEF PacketSendTimeout, GetKeyFragmentPdu, EncryptPayload
<1>2. ASSUME LaterPdu' PROVE prev_key_id' = key_id'
  <2>1. packet_send_counter > 0 /\ encrypted_packet_counter' > 0
    BY <1>1, <1>2, SenderAssumption DEF LaterPdu, Inv, Typed, TypeOK
  <2>2. key_id' = key_id
    BY <1>1, <2>1 DEF CountPdu
  <2>3. callback = "idle"
    BY DEF PacketSendTimeout, Inv, Client
  <2> QED BY <1>1, <2>1, <2>2, <2>3 DEF Inv, Interval
<1> QED BY <1>1, <1>2 DEF OnAirInv

LEMMA OnAirCallback ==
    ASSUME Inv, OnAirInv, TimerCallback
    PROVE  OnAirInv'
<1>1. CASE PacketSendTimeout
  BY <1>1, OnAirTimeout
<1>2. CASE TimerCallback /\ ~ PacketSendTimeout
  <2>1. /\ UNCHANGED <<app, state, packet_send_counter, pdu, key_id>>
        /\ LaterPdu' <=> LaterPdu
    <3>1. UNCHANGED <<app, state, packet_send_counter, pdu, key_id>>
      BY <1>2 DEF TimerCallback, PacketSendDone, CallbackNewSession,
                  CallbackSameSession, CallbackStopped, CallbackSetPayload,
                  CallbackRestart, CallbackRearm, encryptionVars, mainVars,
                  callbackVars
    <3> QED BY <3>1, LaterPduKept
  <2> SUFFICES ASSUME LaterPdu PROVE OnAirInv'
    BY <2>1 DEF OnAirInv
  <2>2. CASE CallbackSameSession
    <3>1. /\ callback' = "rearm" /\ callback = "built" /\ app = "2nd"
          /\ Call(SetBroadcastingPayload(pdu, PduSize))
      BY <2>2 DEF CallbackSameSession, LaterPdu
    <3>2. broadcastState = "RUNNING"
      BY <3>1 DEF Inv, Client, Started, LaterPdu
    <3>3. PduSize <= MAX_GAP_DATA_LEN
      BY SenderAssumption DEF PduSize
    <3>4. gapRequests' = gapRequests \o <<Request(DATA, pdu)>> /\ air' = air
      BY <3>1, <3>2, <3>3 DEF Call, SetBroadcastingPayload, DATA
    <3>5. Latest(gapRequests', air'.data, pdu)
      BY <3>4, LatestAsked DEF Inv, Typed
    <3> QED BY <2>1, <3>1, <3>5 DEF OnAirInv
  <2>3. CASE CallbackRearm \/ PacketSendDone
    <3>1. /\ callback \in {"idle", "rearm"} /\ callback' = "idle"
          /\ UNCHANGED <<gapRequests, air>>
      BY <2>3 DEF CallbackRearm, PacketSendDone, bcVars, stackVars, Inv,
                  Client, callbackVars
    <3> QED BY <2>1, <3>1 DEF OnAirInv
  <2>4. CASE CallbackNewSession \/ CallbackStopped \/ CallbackSetPayload
             \/ CallbackRestart
    BY <2>4 DEF CallbackNewSession, CallbackStopped, CallbackSetPayload,
                CallbackRestart, OnAirInv
  <2> QED BY <1>2, <2>2, <2>3, <2>4 DEF TimerCallback
<1> QED BY <1>1, <1>2

LEMMA OnAirNext == Inv /\ OnAirInv /\ [Next]_vars => OnAirInv'
<1>1. ASSUME Inv, OnAirInv, UNCHANGED vars PROVE OnAirInv'
  <2>1. UNCHANGED <<app, state, packet_send_counter, pdu, callback,
                    prev_key_id, key_id, gapRequests, air>>
    BY <1>1 DEF vars, bcVars, stackVars, encryptionVars, mainVars,
                callbackVars
  <2> QED BY <1>1, <2>1, LaterPduKept DEF OnAirInv
<1> QED BY <1>1, OnAirStack, OnAirMain, OnAirCallback DEF Next

\* A PDU of the second program that is not the first of its session is on
\* the air once the call-back is done with it and the stack has answered.
THEOREM LaterPduOnAir == Spec => []SessionPduOnAir
<1>1. Init => OnAirInv
  BY DEF Init, OnAirInv, LaterPdu
<1>2. OnAirInv => SessionPduOnAir
  <2> SUFFICES ASSUME LaterPdu, callback = "idle", BcQuiet,
                      Latest(gapRequests, air.data, pdu)
               PROVE  air.data = pdu
    BY DEF OnAirInv, SessionPduOnAir, LaterPdu
  <2> QED BY DEF BcQuiet, Latest
<1>3. Inv /\ OnAirInv /\ [Next]_vars => OnAirInv'
  BY OnAirNext
<1> QED BY <1>1, <1>2, <1>3, InvInit, InvNext, PTL DEF Spec
===========================================================================
