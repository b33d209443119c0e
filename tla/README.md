# Verification of the BLE broadcast authorisation mechanism

This directory holds TLA+ models of the receiver and the senders of
`ble-broadcast-authorization`, the TLC
configurations that check them on small instances, and theorems proved with TLAPS for every
value of the constants. `PROJECT.json` maps every modelling definition to the lines it
stands for and lists the runs, the mutants, the findings, the hazards and the theorems.

## 1. The system

A *sender* (ESP32) broadcasts BLE advertisements whose payload is encrypted with a session
key. Between data PDUs it broadcasts four *key fragments*, encrypted and signed (HMAC). A
session has a 14-bit identifier, which also fixes the advertising interval. An *observer*
collects the fragments of a session, puts its key together, and decrypts the data PDUs,
those that came before the key included.

| component | state | operations | called by |
|---|---|---|---|
| `adv_time_authorize.c` (authorisation by interval) | per sender: address, private queue (50), last PDU; one event bit; what was heard last | scan call-back: filter, enqueue, wake; task: take a batch of 6 per sender, compare times, pass on | the Bluetooth host's task; task 1 (core 1, priority 17) |
| `sec_pdu_processing.c` (PDU processing) | processing queue (100), event group, consumers | enqueue; new-PDU event: batch of 20, decrypt, defer or forward a fragment; deferred event: batch of 20 per consumer, decrypt, put back or drop; key-complete call-back | authorisation task; task 2 (core 1, priority 16) |
| `key_reconstructor.c` (key reconstruction) | fragment queue (15), event bit, key collection | queue a fragment (five tries of 20 ms); task: batch of 20, check, store, put together, call back, remove | processing task; task 3 (core 1, priority 13) |
| `key_management.c` (key collection) | 20 entries | add, find, remove, store, test, put together | both tasks, under a mutex |
| `key_cache.c`, `tick_count_timestamp.c` | 5 slots with stamps, shortcut to the last hit | get, add, find and remove least recently used, clear | both tasks, under a mutex per call |
| `ble_consumer*.c` | per sender: address, deferred queue (80) and its count, request flag, newest session, cache | add, find, defer, take, request | both tasks |
| `sec_payload_observer_collection.c` | list of call-backs | notify | processing task |
| `ble_security_payload_encryption.c` (sender key schedule) | session key, identifier, PDU counter, fragment turn | encrypt, next fragment, new session | timer call-back of a sender |
| `ble_broadcast_controller.c` | state of broadcasting and of scanning, event bits | start, stop, set data; GAP call-back; task that serves its bits | all applications; the Bluetooth host's task; a task of its own |
| `sender_app/sender_main.c`, `sender_app_2nd/sender_main.c` | state machine, packet counters, last identifier, interval | main task: start PDU, data, end PDU; timer call-back: one PDU | main task; `esp_timer` task |
| `receiver_main.c` | state machine, event bits, addresses of senders that ended | main task: start, measure, clean up; scan call-back | main task; the Bluetooth host's task |
| `test.c` (test framework) | a table of rows, one per sender, each with counters and a mutex | look up, add, count | the three tasks of the receiver |

How they interact on the receiver:

```
 scan call-back --private queues--> authorisation task --processing queue--> processing task --> observers
 (other core)     + event bit       (prio 17)            + NEW_PDU           (prio 16)  |  ^
                                                                  fragment queue + event |  | key in cache,
                                                                                         v  | request flag,
                                                                        reconstruction task | PROCESS_DEFERRED
                                                                        (prio 13) ----------+
```

**What is hard.** The event bits are cleared when the wait returns, whereas a batch may be
smaller than its queue; so every "bit set, queue non-empty" argument needs all of the places
that set, clear, fill and drain. The reconstruction task changes caches, flags and the
collection between any two steps at which the processing task blocks. Identifiers lose six
of their fourteen bits on the way into the cache. An eviction is two critical sections, and the
adding after it a third. PDUs
go round through a queue, a batch and back, and PDUs of different sessions wait in one queue. On the
sender three threads and the stack change one controller, whose idea of the stack lags behind and
whose calls are ignored when they come at the wrong time; the end of the test races the last
PDU. `PROJECT.json` has the full list of
hazards with lines.

**What makes each component correct.**

- authorisation: PDUs are compared with those of their own sender; the result does not
  depend on how batches fall; no PDU of a session is passed on twice; no sleep on more than a
  batch leaves.
- processing: PDUs reach the observers at most once, in order, under a key of their own
  sender and identifier; a PDU whose key has come does not wait for ever; no request is forgotten.
- reconstruction: fragments that were queued are taken; a complete key is handed over exactly
  while it is in the collection; an entry describes itself correctly.
- cache: a look-up answers with the key that was added under the identifier; a key is given up
  only when the cache is full and another is to be added, and then the oldest one.
- key schedule: a session gives out its whole key before it ends.
- controller: once nothing is on its way, its state variables are those of the stack.
- sender: it broadcasts at the interval of its session, the PDU it built last, and in the end
  the end PDU.
- receiver application: one test is measured, it ends, and not before all senders ended.
- test table: no sender has two rows.

## 2. Modules

| module | models | sources |
|---|---|---|
| `ArrayScan` | the "first index or -1" loops | used throughout |
| `KeyCache` | the functions of the cache, as operators on its array and shortcut | `key_cache.c` |
| `KeyStore` | what the cache promises, as a specification of its own | (abstract) |
| `KeyCacheLru` | the cache of one consumer with time stamps, roll-overs, ticks and the heap it came from; implements `KeyStore` | `key_cache.c`, `tick_count_timestamp.c` |
| `KeyManagement` | the functions of the key collection, as operators on its array | `key_management.c` |
| `SecPduProcessing` | the processing task and the reconstruction task, composed | `sec_pdu_processing.c`, `key_reconstructor.c`, `ble_consumer*.c` |
| `AdvInterval` | interval and tolerance of a session | `beacon_pdu_data.c`, `adv_time_authorize.c` |
| `AdvTimeAuthorize` | the scan call-back and the authorisation task | `adv_time_authorize.c` |
| `PduLayout` | the numbers in a PDU: session word, lengths | `beacon_pdu_data.c` |
| `PayloadEncryption` | the key schedule; a component without a client | `ble_security_payload_encryption.c` |
| `BroadcastController` | the controller and what it drives of the stack; a component without a client | `ble_broadcast_controller.c` |
| `SenderApp` | both sender programs over `PayloadEncryption`, `BroadcastController`, `AdvInterval` | `sender_main.c` (two) |
| `TestTable` | the table three tasks count in | `test.c` |
| `ReceiverApp` | the receiver program over `BroadcastController` and `TestTable`, with the senders as environment | `receiver_main.c` |
| `MC...` | traffic, identifiers and heaps of the runs | |
| `..._proofs`, `SecPduDelivery_proofs` | theorems | |

Operators whose name ends in a suffix after an underscore (`RecBatchDone_LateClear`) are
mutants: each is what the operator of the plain name would be with a plausible bug, and is
used only to show that a property notices.

### 2.1 The two tasks (`SecPduProcessing`)

*Variables* are the fields of `sec_pdu_st` and `st_reconstructor_control`, the local
variables of the tasks that live across a step, and a program counter per task (`secPc`,
`recPc`). `notified` and `overflowed` are history variables. A PDU is
`[mac, no]`, the `no`-th of what `Traffic` says its sender broadcasts; `Content` gives
command, session, fragment number and whether the HMAC of a fragment verifies. A key is a
function that says for each fragment which session it came from, so a key put together
from two sessions, or the all-zero key of an empty slot, differs from every session's key.
The crypto is thus left out and mix-ups stay visible. A session is the time for which a sender
uses one key (`key_replacement_cb`), so its PDUs are one stretch of what the sender broadcasts
(`SessionsAreStretches`). Of the identifiers nothing is assumed: they are drawn at random, two
sessions may have the same, the same low byte, or a low byte of 0.

*Actions* follow the code from one access to shared state to the next:

| actions | code |
|---|---|
| `EnqueuePduForProcessing`, `LosePdu` | `enqueue_pdu_for_processing`, and PDUs that never get there |
| `SecWait` | the wait of `sec_processing_main`, which clears the bits |
| `SecCollect`, `SecCollected` | receive loop of `handle_event_new_pdu` |
| `SecAddConsumer`, `SecSkipPdu`, `SecDataPdu`, `SecKeyFragmentPdu` | its loop over the batch |
| `SecSendFragment`, `SecSendTimeout` | the retries of `queue_key_for_reconstruction` |
| `SecBatchDone`, `SecNextConsumer`, `SecDeferredDone`, `SecRedoDone` | `handle_event_process_deferred_pdus` |
| `SecTakeDeferred`, `SecTakenDeferred`, `SecRedoPdu` | `process_deferred_queue` |
| `RecWait`, `RecCollect`, `RecCollected`, `RecFragment`, `RecBatchDone` | `reconstructor_main` and its handler |
| `RecCallback`, `RecAddKey`, `RecFindLru`, `RecRemoveLru`, `RecRequestDeferred`, `RecSignal` | `key_reconstruction_complete` |
| `RecRemoveKey` | the removal of the entry after the call-back |

*Scheduling.* `tasks_data.c` pins both tasks to core 1 with priorities 16 and 13, and
FreeRTOS runs the highest-priority task that is ready. `ReconstructorMain` therefore has the
guard `SecBlocked`: the processing task waits for an event, for a PDU, or for room in the
fragment queue. It may be preempted between any two of its actions. The authorisation task
runs at 17, so its enqueue and its event bit are one step. A section under a mutex is one
step: its holder inherits the waiter's priority. A time-out is a step that may happen
whenever its condition still holds, so time-outs race everything.

*Abstractions to know.* `RecFindLru` picks any occupied slot: `KeyCacheLru` shows why the
stamps may lead to a wrong one, and what holds for every victim holds for the code's. The
observers' call-backs and the log are taken not to block. `Traffic` is finite, so a behaviour ends when everything has been
broadcast and served; that is why these configurations say `CHECK_DEADLOCK FALSE`.

*What the code gives for random identifiers.* The cache and the collection keep the low byte of
an identifier, and take 0 there for a free place. The properties say what holds all the same:

- `KeysDoNotMix`: every fragment of the key a PDU is decrypted with is of a session of its own
  sender with its own low byte, or was left in a place that looks free by a session whose low byte
  is 0. The second happens: in `SecEviction` the fragment of a session with the identifier 512
  stays in an entry that looks free, and becomes part of the next session's key.
  `OwnSessionKey`, what the repository's README says, is stronger and violated
  (`SecKeyIdEightBits`).
- `CollectionConsistent` says the same of the entries of the collection.
- `KeyedPduRequested` speaks of PDUs whose look-up finds the key of their own session. For a
  PDU that finds another session's key under its low byte no request need stand.
- `InOrder` speaks of behaviours in which no deferred queue has outgrown a batch and no sender
  has come back to an identifier after another one; with identifiers 257, 300, 257 a PDU of the
  first session passes for one of the newest, and waits on while one of the second is
  delivered. 257, 300, 513 do no harm: `last_pdu_key_id` has 16 bits.

These conditions are parts of the properties, read off the state, and not assumptions about the
constants: the runs and the theorems have the behaviours in which they fail.

### 2.2 The authorisation (`AdvTimeAuthorize`)

The scan call-back runs in the Bluetooth host's task on the other core; the mutex of the
module is created and never taken. So the two processes interleave at every access: the
call-back is look-up and filter, send or time-out, and wake-up; the task is wait, the loop
over consumers, the receive loop, the comparison of each PDU and the saving of the last one.
`Air` gives what can be heard of each sender with real time stamps in microseconds, and
`InTime` compares in milliseconds as the code does. `AdvInterval` has the code's arithmetic
in integers. The code computes it with doubles; the two were compared outside TLC for all
16384 identifiers, and agree. Every interval is between 3040 and 5000 ms, so only the first
branch of the tolerance (5 %) is ever taken. The code subtracts as `uint32_t` and casts to `int`; for the
differences that occur this equals the signed subtraction of the model.
`accepted` and `authorized` are histories.

The filter remembers what was heard in `consumers[0]`, whoever the sender is, because the
code writes through the array's name (`adv_time_authorize.c:311-338`); the model does the
same. `PassedOnOnce` therefore speaks of times in which one sender alone was heard, and lets a
PDU be passed on again only when the sender left its session and came back to the identifier
(`CameBack`), since the filter keeps the last PDU alone. In `AdvSenders` the first identifier is
drawn again, and a PDU is passed on twice.

### 2.3 The cache and what it promises (`KeyCacheLru`, `KeyStore`)

The two tasks share the cache. The processing task looks keys up (`GetKeyFromCache`); the
reconstruction task finds that a key is not there (`KeyReconstructionComplete`), adds it
(`AddNewKey`) and, if no slot was free, chooses the least recently used slot (`FindLruKey`), empties
it (`RemoveLruKey`) and adds the key again. Each action is one hold of the mutex, so look-ups of the
processing task fall between any two of them: they may stamp the chosen slot, or miss while the
emptied slot waits for its key. The heap the map came from is a constant (`HeapStamp`), because
`reset_timestamp` assigns its own parameters only. `TICK_MODULUS` stands for 2^32 and
`ROLLOVER_MODULUS` for 2^8. `elapsed` is bounded by `MaxTicks`.

`KeyStore` is the abstract specification: a partial function from identifiers to keys of at
most `KEY_CACHE_SIZE` entries. A key is *wanted*, then *put in*; in between, if the store is full,
one key is *given up*, and none otherwise; look-ups answer right before, between and after.
`ImplementsKeyStore` maps the array to the function of its occupied slots, and "wanted" to the
identifier the reconstruction task is adding; the shortcut, the stamps and the free slots
disappear, and choosing a victim is a stutter. The identifier 0, the code's mark of a free
slot, is `Reserved`: the store promises nothing to who asks for it, except that other keys do
not suffer beyond what room for it takes. The store says nothing about *which* key goes;
that is `EvictsOldestKey`: the slot about to be emptied holds a key, and none was used longer
ago, unless that slot was used after it was chosen (`reused`). It speaks of slots whose
stamps have the same roll-over byte, since that byte starts as what `malloc` left, and of the time
before the tick count wraps.

### 2.4 The senders (`PayloadEncryption`, `BroadcastController`, `SenderApp`)

A key is the number of the session it was drawn for, and the identifier is drawn apart from it
from `RandomIds`, so a repeated identifier with another key is among the behaviours, and so is
0, which the call-back's `prev_key_id` holds before the first session.

| actions | code |
|---|---|
| `SerialDataReceived`, `SenderWaitForStartCmd`, `SenderTestStartPdu`, `SenderTestStarted`, `SenderBroadcastPdu`, `SenderTestEndPdu` | the main task's state machine |
| `PacketSendDone`, `PacketSendTimeout` | head of the timer call-back: counters, and `EncryptPayload` or `GetKeyFragmentPdu` |
| `CallbackNewSession`, `CallbackStopped`, `CallbackSetPayload`, `CallbackRestart` | a new identifier: stop, wait, set the PDU, start at the new interval |
| `CallbackSameSession` | the known identifier: the second program sets the PDU, the first has no such branch |
| `CallbackRearm` | the timer is started again |
| `GapComplete` | the stack serves the oldest request and `esp_gap_cb` sets its bit |
| `BcWait`, `BcServe` | the controller's task takes all bits, and serves one after the other |

Which program a device runs is the variable `app`, which never changes: one run covers both.
A call of the controller is one step, since it looks at the state variables and puts its
requests in the stack's queue without blocking; what it looks at may be out of date, and
that is where the model's interest lies.

*Time.* A delay is a step that may happen at any time, with two exceptions, because a delay of
seconds outlasts a stack that answers in milliseconds: the timer (2 s at least) does not fire while a
start of broadcasting is on its way (`StartAnswered`), and the main task does not repeat the
end PDU (10 s) before the stack has taken the last one (`EndPduTaken`, which also bounds the
queue of requests).

*Left out.* The stack completes what it is asked. `esp_gap_cb` does not look at the status of
a completion, so a refusal would leave the state variables wrong. The log, the seeds and the HMACs are left out. `SenderAssumption` asks for
payloads that fit into an advertisement, as the configured ones do.

### 2.5 The receiver program (`ReceiverApp`, `TestTable`)

The scan call-back (`HearStart`, `HearEnd`) sets bits; the main task (`AppMain`,
`WaitForTestStartPdu`, `ScanningPdus`, `CleanupState`, `CleanedUp`) takes *all* bits with
every wait and uses the one its state is about, so an end can be taken and dropped. The senders
are an environment that follows `docs/test_procedure_2_senders.plantuml`: off, start, data,
end, and a sender may be restarted `MaxRestarts` times. What is on the air is heard or not.

`TestTable` is driven by the three tasks that call the test framework. A task looks a sender
up under one hold of the mutex, adds it under the next and counts under the row's mutex:

| task | counts | functions `test_log_...` |
|---|---|---|
| processing | received, already decoded | `packet_received`, `packet_received_key_fragment_already_decoded` |
| reconstruction | already decoded, bad structure | the latter, `bad_structure_packet` |
| authorisation | not authorised | `adv_time_not_authorize` |

A fragment of a known key is counted for known senders only; a sender the table has no room
for is not counted; `test_log_adv_time_not_authorize` counts a known sender twice, as the code
does (no `else`). Whether a packet was decoded wrongly is not told apart. Times, queue fill levels, the time of reconstruction and the percentage of
deferred queues are measurements without influence on control and are left out.

## 3. Runs

| run | instance | shows |
|---|---|---|
| `SecTwoSessions` | 1 sender, 2 sessions of 2 fragments, 8 PDUs, one fragment repeated; queues 3/3/2, batches 2/3 | types, sleep bounds, no key-complete PDU forgotten, no duplicate, order, no complete entry left |
| `SecThreeSenders` | 3 senders, 2 consumers, one identifier for all, collection of 2 | requests survive, keys of two senders do not mix, the collection fills and stays consistent, the third sender is skipped, sends time out |
| `SecEviction` | 1 sender, 3 sessions of 2 fragments with identifiers 257, 512 (0 in its low byte) and 300, a forged fragment, cache of 1; queues 2/2/2, batches 2/3 | the counter of a deferred queue that refuses PDUs; an eviction between look-ups loses no request; which fragments a key and an entry may hold when an entry looks free |
| `SecLiveness` | 2 sessions, 5 PDUs, under `FairSpec` | fragments are taken and requests served if the processing task blocks time and again |
| `KeyCacheLru` | 2 slots, 4 identifiers (0 among them), 4 ticks with a wrap after 3, any of four stamps left on the heap in each slot | look-ups are right; evictions take the key that was oldest when it was chosen; the array implements `KeyStore` between any two holds of the mutex |
| `AdvSenders` | 3 senders, 2 consumers; 7 receptions of one sender (one repeated, one too late, a second session, the first identifier again), 2 and 1 of the others | types, sleep bound, nothing passed on twice, own queues, results that do not depend on the batches |
| `SenderApp` | both programs, 19 PDUs, a new key every 9, a fragment for each data PDU, identifiers 0, 1 and 9000 | state of the controller, interval and PDU on the air, whole keys, the end PDU has the last word; no deadlock |
| `ReceiverApp` | 2 senders, 1 restart, 2 counted packets, 2 rows | one test, which ends, after both senders ended; one row per sender; no deadlock |
| `SecStarvation`, `SecKeyIdEightBits`, `AdvRemaining`, `SenderFirstApp` | small | the findings of section 5 |

**Why the bounds are enough.** The sizes 100/20/80/15/20 keep their order: the processing
queue is larger than its batch, the fragment queue is not, the deferred queue is larger than a
batch. Each queue is smaller than the traffic, so it fills, refuses and times out;
in `SecTwoSessions` the PDU and deferred queues can outgrow their batch, as in the code. Two or three sessions are the least for a change of key, a cache that is full and
a key that is late. Two consumers and three senders are the code's own limit and one more.
Fragments are 1 or 2 instead of 4: two are needed for a partial key and a repeated fragment,
and the third and fourth are treated alike. `CONSUMER_PRIVATE_QUEUE_SIZE` is 3 with batches
and threshold of 2 (50, 6 and 6 in the code), so a queue can be full and can hold more than
a batch. In `AdvSenders` one sender is heard long enough for three batches and a change of
session; the other two are there for the shared filter, the second consumer and the sender for
whom there is none. In `KeyCacheLru` the ticks are few because equal stamps are the harder
case; two slots are the least among which there is a victim to choose, and the heap may already
hold stamps of the next two ticks and of the other roll-over. In `SenderApp` three sessions
give a first, a middle and a last one. A session of 9 PDUs and a ratio of 1 are the least that give all four fragments
wherever the turn stands (200 and 3 in the code). In `ReceiverApp` two packets are the least that let
two tasks race to add one sender, and one restart lets a start PDU be heard after an end.
`TestTable` with more senders than rows is covered by its theorems.

**Fairness.** `FairSpec` asks for weak fairness of each task as a whole, which is what a
priority scheduler gives: a task that could run for ever and has no other above it runs. In
`SecPduProcessing` the reconstruction task has it under its guard `SecBlocked`, so nothing
makes it run while the processing task is ready; that is no fairness the code lacks, and it
is exactly why `SecStarvation` is violated. `SecLiveness` states its properties under the
premise `[]<>SecBlocked`. In `AdvTimeAuthorize` the two processes have a core each. In
`SenderApp` the main task, the timer's task and the controller's task are each fair as a whole
(the main task sleeps 100 ms a round, the call-back 10 ms, so neither keeps the others off a core), the stack answers, and the PC gives
its command, which a tester does. `ReceiverApp` adds that every sender is started and comes to
its end, and that an end PDU, broadcast without limit, is heard at last. No fairness is
asked of start PDUs, restarts or the table's tasks; hence the premise of `TestEnds` that a
start was heard.

## 4. Theorems

TLC checks instances; the following hold for every number of senders, consumers, sessions and
fragments, every traffic and every queue size that satisfy the named assumptions of the modules
(`QueueAssumption`, `TrafficAssumption`, `SenderAssumption`, ...), which ask for positive sizes
and well-formed constants.

| theorem | module | argument |
|---|---|---|
| `TypeCorrect`: `Spec => []TypeOK` | `SecPduProcessing_proofs` | `TypeOK` is inductive as it stands, because it also says what each place in a task relies on: a PDU to send, a fragment to call back for, a slot to empty, a consumer to index. One lemma per group of actions; the operators of the cache and of the collection keep their types by lemmas on each, in `KeyCache_proofs` and at the head of the module. |
| `DeferredCounts`: `Spec => []QueueCounts` | `SecPduDelivery_proofs` | a lemma says which changes of a consumer keep count and length equal; every action that changes one is such a change. |
| `FragmentsWakeUp`: `Spec => []FragmentWakeup` | `SecPduDelivery_proofs` | the bound of the fragment queue, and that fragments left behind after a batch came with the bit set; needs `BatchAssumption` (15 <= 20 in the code), without which it is false. |
| `StrandedBound`: `Spec => []StrandedPdus` | `SecPduDelivery_proofs` | the same for the processing task, whose batch is smaller than its queue: with the bit clear the queue holds no more than its size less what the batch took. |
| `RequestsKept`: `Spec => []RequestNotForgotten` | `SecPduDelivery_proofs` | the property needs one conjunct more to be inductive: `consumerIndex` is 0 until the deferred round starts, so a round that is still to come passes every consumer. |
| `CollectionRight`: `Spec => []CollectionConsistent` | `SecPduProcessing_proofs` | the property is inductive with the types: one lemma per function of `key_management.c` says that it keeps an entry true (`EntrySound`) and keys unique. A fragment in an entry that looks free is one that may be held anywhere, so whoever takes the entry may hold it too (`FreeLooking`). |
| `NoneLeftComplete`: `Spec => []NoCompleteEntryLeft` | `SecPduProcessing_proofs` | at most one entry is complete, the one the call-back was called for, and every path of the call-back ends in its removal. |
| `OwnKeys`: `Spec => []KeysDoNotMix` | `SecPduProcessing_proofs` | follows a key through its places: entry, call-back's hands, cache slot, delivery. Needs that an entry is complete when its key is put together (`TakenIncomplete`, `OneComplete`), that a shortcut is never stale (`ShortcutsNext`) and whose PDUs are in which queue (`Placed`). |
| `PdusOnce`: `Spec => []NoPduTwice` | `SecPduDelivery_proofs` | queue and batch of new PDUs are in the order of the broadcasts, and everything else is behind them (`AirInv`, `BehindInv`). What is behind is one line per sender: what was delivered, the batch taken from its deferred queue, the rest of that queue; no two places of the line hold the same PDU (`InLine(Differ)`). |
| `DeliveredInOrder`: `Spec => []InOrder` | `SecPduDelivery_proofs` | the same line, now in the order of the broadcasts until a queue outgrows a batch or an identifier comes back (`InLine(Earlier)`), with `last_pdu_key_id` as the session of a PDU that was broadcast and is no older than any that waits (`NewestInv`), and `Keyless`: when a PDU waits again, no key of the ones behind it is there. |
| `KeyedPdusRequested`: `Spec => []KeyedPduRequested` | `SecPduDelivery_proofs` | while no request stands, every PDU that waits is younger than some PDU of each session whose own key is cached (`AskInv`), and a session is one stretch, so a PDU deferred only to keep the order never shares a session with a cached key. |
| `LookupSound`: `Spec => []LookupReturnsOwnKey` | `KeyCacheLru_proofs` | each occupied slot holds the key of its identifier and the shortcut, when it names an identifier, points at a slot that has it; a full cache always has a victim. Holds whatever the stamps say. |
| `TypeCorrect`: `Spec => []TypeOK` | `KeyCacheLru_proofs` | from the same invariant. |
| `OldestEvicted`: `Spec => []EvictsOldestKey` | `KeyCacheLru_proofs` | before a wrap every stamp that was written is the tick of the slot's last use (`Aged`), so among slots of one roll-over byte the order of stamps is the order of use; a look-up after the choice only makes other slots younger, or sets `reused`. For every heap. |
| `CacheIsStore`: `Spec => ImplementsKeyStore` | `KeyCacheLru_proofs` | refinement: besides the invariant, no identifier has two slots, so slots and stored keys are in bijection and "no free slot" is "store full"; while a victim is to be chosen or emptied the store is full, and afterwards there is room. Then each hold of the mutex is one step of the store or a stutter. |
| `TypeCorrect`, `QueuesOwned`: `[]TypeOK`, `[]OwnQueue` | `AdvTimeAuthorize_proofs` | a consumer's address is given once; what is in its queue, in the batch and in the hand of either process carries that address. |
| `SleepBounded`: `Spec => []SleepBound` | `AdvTimeAuthorize_proofs` | strengthened to every place of the task: with the bit clear, a consumer it has passed in this round holds no more than a batch leaves, and the one it is serving no more than the rest of the batch would leave, unless the call-back is about to set the bit. |
| `BatchesDoNotMatter`: `Spec => []BatchesInvisible` | `AdvTimeAuthorize_proofs` | history, queue and batch are cut as `accepted = compared, then batch, then queue`, and what was authorised is `InTimeUpto` of the compared part. That the recursive function exists and does not change on a prefix when something is appended is proved by a least counterexample, since the library's induction is out of reach. |
| `NoneTwice`: `Spec => []PassedOnOnce` | `AdvTimeAuthorize_proofs` | the filter remembers the last PDU heard, so what it accepts of a session increases, and a session that was left is heard again only if the sender came back to it (`Ahead`, `Behind`). What is passed on is picked from what was accepted, in its order (by a least counterexample). |
| `SessionWord` | `SenderApp_proofs` | identifier and fragment number come out of the 16-bit word again, for all 16384 and all four. |
| `TypeCorrect`: `Spec => []TypeOK` | `SenderApp_proofs` | inductive with the lengths and sizes of PDUs. |
| `StateFollowsStack`: `Spec => []ControllerFollowsStack` | `SenderApp_proofs` | the invariant tells what is on its way by where the call-back is: at most one stop or start between request, bit and service, and never both. |
| `IntervalRight`: `Spec => []IntervalFollowsKey` | `SenderApp_proofs` | the interval of the start on its way, or of what is on the air, is the call-back's, which goes with the identifier it acted on last (`IntervalOf`). |
| `WholeKeyGiven`: `Spec => SessionGivesWholeKey` | `SenderApp_proofs` | counts, within a session, how many PDUs must have passed for the fragments given; assumes a session longer than `4 * (PDU_TO_KEY_FRAGMENT_RATIO + 1)` (200 against 16 in the code). |
| `LaterPduOnAir`: `Spec => []SessionPduOnAir` | `SenderApp_proofs` | for a PDU that is not the first of its session the call-back changes no interval, and what it asks for last is what the stack will broadcast (`Latest`). |
| `TypeCorrect`: `Spec => []TypeOK` | `ReceiverApp_proofs` | inductive, table and controller included. |
| `RowsUnique`: `Spec => []OneRowPerSender` | `ReceiverApp_proofs` | a row is given to the first that is free or the sender's, under one hold of the mutex, and rows are never freed; a task's row is its sender's. |
| `OneMeasurement`: `Spec => []MeasuredOnce` | `ReceiverApp_proofs` | the start bit is set at most once, and is used up by the measurement. |
| `EndAfterAll`: `Spec => []EndsOnlyAfterAll` | `ReceiverApp_proofs` | the slots hold different senders whose end was heard; when all are full there are as many such senders as slots, by an injection and the library's cardinality facts. |

**What is assumed.** Sizes and well-formed constants, by the `ASSUME`s of the modules. Those that
say more than that:

| assumption | in words | why the code grants it |
|---|---|---|
| `BatchAssumption` | the batch of the reconstruction task is no smaller than its queue | 20 and 15 in `key_reconstructor.c` |
| `SessionsAreStretches` (in `TrafficAssumption`) | the PDUs of one key come one after the other | the sender replaces its key and never goes back to it (`key_replacement_cb`) |
| the hypothesis of `WholeKeyGiven` | a session outlasts four turns of the fragments | 200 PDUs and a ratio of 3 |

Nothing is assumed of the identifiers, the heap or the tick count: the theorems hold for every
choice, and for what the code does not give in all of them the properties say so themselves (sections 2.1 to 2.4).

**Only model-checked.** The liveness properties `FragmentsTakenIfIdle`, `RequestsServedIfIdle`,
`EndOnAir` and `TestEnds`, which the proof system does not reach. Every other property of a
passing run is a theorem.

## 5. Findings

- **Starvation** (`SecStarvation`). While PDUs of the newest session wait for their key,
  `process_deferred_queue` puts them back and the task sets its own event
  (`sec_pdu_processing.c:239`). It then never blocks, and the task that would complete the key
  has the lower priority on the same core. It needs a request made for one session while PDUs
  of the next wait, no new PDU, and logging that does not block.
- **Identifiers cut to eight bits** (`SecKeyIdEightBits`). The cache takes `uint8_t` where
  identifiers have 14 bits: two sessions equal modulo 256 share a key. A multiple of 256 is the
  mark of a free slot or entry: what is left there turns up in other keys (`KeysDoNotMix` says
  which, and `SecEviction` has such a session).
- **The rest of a queue** (`AdvRemaining`). Only an arrival wakes the authorisation task, so
  up to five PDUs of a sender that stops stay where they are.
- **PDUs that are not broadcast** (`SenderFirstApp`). The controller ignores a PDU that is set while
  nothing is broadcast. Both programs set the start PDU before they start broadcasting, so it
  is never on the air. The first program sets a PDU only at the beginning of a session, after
  it has stopped broadcasting, so none of its encrypted PDUs is; it broadcasts its end PDU only.
  In the second program the first PDU of every session is lost, and the last PDU of the
  session before is broadcast at the new interval until the next one is set.

Seen on the way, without a run of their own:

- A deferred PDU whose key was never in the cache is dropped when a later key arrives first
  (`sec_pdu_processing.c:309`, `316`); the comment there speaks of PDUs "from removed key".
- The stamps of the cache are never initialised, so a younger key can be evicted when the heap
  left different roll-over bytes; and each slot counts roll-overs on its own, which has the same
  effect once the 32-bit tick count wraps. Without its two conditions `EvictsOldestKey` fails in the run
  of `KeyCacheLru`; the other properties do not depend on stamps.
- A key that is looked up after it was chosen as the victim is evicted all the same (`reused`).
- A first session with the identifier 0 leaves a sender at the interval of before the first
  session: the call-back takes 0 for "no session yet" (`IntervalFollowsKey`).
- A sender that draws an earlier identifier again has its PDUs passed on again (`CameBack`).
- `test_log_adv_time_not_authorize` counts a known sender's packet twice.

## 6. Not modelled, and the plan

Not modelled:

- AES, HMAC and XOR beyond "which session" and "authentic", and the seeds: which
  bytes come out is arithmetic of libraries.
- The serial link, beyond the start command, and the measurements of the test framework
  (times, fill levels, percentages, reports): nothing in the program depends on them.
- Drivers and the Bluetooth stack, beyond answering requests in order; refusals by the stack.
- Creation and destruction at start-up, and registration of call-backs, which come before any PDU.
- Functions nothing calls: removal of consumers, `update_key_in_cache`,
  `remove_key_from_cache`, `set_key_replacement_pdu_count`.
- Timeouts of mutexes (50 ms and more around sections of microseconds).

The plan of the first survey, and where it stands: `PayloadEncryption`, `BroadcastController`,
`SenderApp`, `ReceiverApp`, the abstract `KeyStore` with its refinement and the proofs about
`AdvTimeAuthorize` are done. What is left, in order:

1. `Receiver`: `AdvTimeAuthorize` composed with `SecPduProcessing` over the processing queue.
   Each side now has the other as a free environment (any PDU may be lost, delayed or
   repeated on the way), so its safety properties hold in the composition; what it would add
   are properties from the air to the observers.
2. "Deliver once the key is known" as an abstract specification of `SecPduProcessing`, for
   traffic in which no deferred queue outgrows a batch.
   `PdusOnce`, `DeliveredInOrder`, `OwnKeys` and `KeyedPdusRequested` are its safety part.

## 7. Running

```
tlc -workers 2 -config SecTwoSessions.cfg MCSecPduProcessing
tlc -workers 2 -config SenderApp.cfg SenderApp
tlapm SecPduDelivery_proofs.tla
```
