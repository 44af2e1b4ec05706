# A TLA+ verification of the IoT Edge SDK

This directory specifies, model-checks and proves properties of the programs of
the repository *iot-edge-sdk-for-iot-parser*: the Modbus gateway, the
device-management client library and the BACnet gateway. The modules
are written from the C sources; `PROJECT.json` names, for every definition that
models code, the lines it stands for.

- [1. The system](#1-the-system)
- [2. The modules](#2-the-modules)
- [3. The runs](#3-the-runs)
- [4. Fairness](#4-fairness)
- [5. What is proved](#5-what-is-proved)
- [6. What the checks found](#6-what-the-checks-found)
- [7. What is not modelled](#7-what-is-not-modelled)
- [8. Plan](#8-plan)

To check: `tlc -config X.cfg MCModule.tla` for the runs, `tlapm M.tla` for the proofs.

## 1. The system

Three programs share a directory layout and nothing else.

### The Modbus gateway (`modbus/src`)

A gateway polls Modbus slaves and publishes what it reads over MQTT. The cloud
tells it, over MQTT as well, which slaves to poll how often (the *policies*).

| component | state | operations | talks to |
|---|---|---|---|
| ring buffer file, `ringbufi.c` | head, next, nomanland, blockCnt, sizeLimit, in memory and at the start of the file; the records | put, peek, pop, open after a crash | called by the sender's worker only |
| MQTT sender, `mqttsender.c` | incoming queue (under a lock), sending queue, connected clients, bad brokers, the ring buffer | `mqtt_send` (any thread), worker loop, close | Paho MQTT client; ring buffer |
| gateway, `business.c` | policy cache file and its flag, ordered list of policies, connection flag; three mutexes | config message, connection lost (MQTT threads), worker loop, start-up, shutdown | sender, Modbus contexts, cloud |
| Modbus contexts, `modbuslib.c`, `modbus-rtu-helper.c` | one connection per slave id (on Windows, slaves of a COM port share one) | connect, read, reconnect, clean up (worker); write (MQTT thread, no lock) | libmodbus |

Hard behaviours: the worker, the MQTT library's threads and the application
interleave; the process may die between any two writes to the cache file;
connections are lost at any time, also while they are being set up; a message
may be received although no acknowledgement came; the cache is a ring with a
limit in bytes and records of any length.

What makes it correct: the cache is a FIFO that forgets its oldest record when
it is full and survives a crash; messages are neither reordered nor lost below
its capacity and the backlog drains; every pushed configuration is loaded, every
loaded policy is polled again and again, in time order; a lost connection is
always noticed; what is published for a policy was read from its slave, and a
slave that is there is read again after every fault.

### The device-management client (`device-management/lib`)

A library. An application creates clients, connects them and sends shadow
requests (get, update, delete), each with a callback and a timeout.

| component | state | operations | talks to |
|---|---|---|---|
| requests and housekeeping, `device_management.c` | the group of clients (under a lock); per client the in-flight slots (under a recursive lock), the connection flags | create, connect, destroy, shadow get/update/delete; reply arrived, connected, connection lost (MQTT threads); housekeeping every second (own thread) | Paho asynchronous client, application callbacks |
| delta notifications | property handlers | register, delta arrived | application callbacks |

Hard behaviours: a reply races the timeout of its request, comes late or twice;
callbacks run with locks held, may send requests themselves or destroy their
client; a lost connection takes requests and replies with it; places and slots
are reused.

What makes it correct: the callback of each request runs once, and does run;
slots are neither leaked nor shared; no thread touches a client that was freed.

### The BACnet gateway (`bacnet/gateway`)

Discovers BACnet devices, reads and subscribes to their objects, and forwards
values over MQTT. One worker thread does everything except what the MQTT
library's threads do to the shared configuration.

| component | state | operations | talks to |
|---|---|---|---|
| device state machine, `baclib.c` | up to 255 devices, each with a state (reading its object list, subscribing, cancelling, main loop), its objects, a queue of requests, an invoke id | I-Am, acknowledgements, errors, notifications, time-outs | BACnet stack |
| worker and commands, `business.c` | configuration, intervals, change flags | worker loop; config and command messages | device state machine, MQTT |
| MQTT and its cache, `mqttutil.c` | ring of messages cached while offline | send, connect | Paho MQTT client |

Hard behaviours: answers that come after the worker has moved the device on,
invoke ids that are reused for another device, flags that are cleared after a
loop during which they may be raised again, retransmission of cached data.

What makes it correct: a device that subscribes or cancels reaches its main loop
whatever messages are lost, and never gets stuck on the way; an answer is applied
to the request it belongs to; the list of objects is complete; commands are
neither lost nor reordered; a message is sent, cached or known to have given way,
and the cache keeps the order; a lost session is replaced.

`bacnet/bacnet-stack` is vendored code with a patch of a few lines in `src/tsm.c`.

## 2. The modules

| module | models | lines of code |
|---|---|---|
| `CacheFifo` | what the ring buffer promises while all records have one length | abstract specification |
| `RingBuFi` | the ring buffer file | `ringbufi.c` |
| `MqttSender` | the sender; its cache is an instance of `CacheFifo` | `mqttsender.c` |
| `ShadowClient` | requests, replies and housekeeping of the device-management client | `device_management.c` |
| `PolicyWorker` | policy loading, polling, the connection of the gateway | `business.c` |
| `ModbusGateway` | `PolicyWorker` composed with the Modbus contexts | `business.c`, `modbuslib.c` |
| `BacnetDevice` | the BACnet devices: discovery, object lists, subscriptions, queues, commands | `baclib.c`, `business.c` |
| `BacnetCache` | what the cache of unsent messages promises | abstract specification |
| `BacnetLink` | the connection to the cloud and that cache | `mqttutil.c`, `business.c` |
| `BacnetGateway` | `BacnetDevice` and `BacnetLink` composed | `business.c` |
| `MC*` | instances of these for TLC | |
| `MqttSenderProofs`, `ShadowClientProofs`, `PolicyWorkerProofs`, `ModbusGatewayProofs`, `BacnetDeviceProofs`, `BacnetLinkProofs`, `BacnetGatewayProofs`, `RingBuFiProofs` | theorems about them | |

`RingBuFi` implements `CacheFifo` (run *ring_uniform*: `FifoSpec` is a property
of `RingBuFi` under the mapping `view`; theorem `FileIsFifo`), and `MqttSender`
uses `CacheFifo`: the sender is checked and proved about with what the file was
shown to do.

### RingBuFi

Offsets and lengths are in units of 8 bytes, the size of a `size_t`. A cell of
the file holds a length or one unit of a record's payload; a cell that was never
written or was cut off reads as a length of zero. A length read from a payload
cell may be any of `GarbageLen`. Subtractions are those of an unsigned `Word`.

`putRingBuFiRecord` is `PutEmpty` ... `PutReset`, one action per branch, then
`EraseOne`/`EraseEnd` (the loop of `eraseEnoughSpaceOrEof` and what the branch
does after it), `WriteLength`, `WritePayload`, `Save`; `popRingBuFiRecord` is
`Pop`, `Save`. They are separate steps because `Restart`, a crash and
`newRingBuFi`, may come between any two. A record is written by two `fwrite`s
with a flush each; `saveMeta` ends in one flush of 40 bytes and is one step.
`peekRingBuFiRecord` changes nothing: the property `PeekAgrees` compares its
test for emptiness with what is in the buffer.

`view` is a history variable: the sequence of records and the slot of the oldest,
as one finds them by following the metadata through the file; `Broken` for good
once they no longer match. They match (`Matches`) if `blockCnt` whole records
follow one another from `head`, each between `head` and `next` and the last, and
only that, ending at `next`. The records must lie between the two: a `blockCnt`
that went below zero, read as an unsigned number, could otherwise be "right" for
a walk that goes round the file several times. A slot is as long as the shortest
record (`SlotLen`); slots have a meaning when all records have one length.

### MqttSender

| action | code |
|---|---|
| `Accept` | `mqtt_send`: rejected for a known bad broker, else appended under the lock |
| `FlushBegin`, `FlushPut` | `flushIncomingQueueToFile`: take the queue under the lock, put its messages one by one |
| `Fetch` | peek, then pop, one record of the cache into the sending queue |
| `TakeIncoming` | the by-pass: nothing to send, nothing cached |
| `Discard`, `UseClient`, `Connect`, `ConnectRefused`, `ConnectFails` | from `isKnownBadBroker` to the connection |
| `Publish`, `PublishTimeout`, `PublishFails` | acknowledged; no acknowledgement in 10 s; the client is not connected any more |
| `LinkDown`, `LinkUp`, `Grant`, `ConnectionLost` | brokers, and the Paho client noticing a lost connection |
| `Restart` | the process is killed between two operations of the cache and started again |

A message is its number of acceptance, its broker (endpoint and user) and its
password. `lastRecv` and `lastAck` are history variables. `PublishTimeout` leaves
open whether the broker has received the message.

`isKnownBadBroker` is modelled as it is written: its `strcmp` is not compared
with 0, so a refused password makes *other* passwords of that user bad.

### ShadowClient

Threads: the application (`Create`, `Destroy`, `Add`, `Publish`), the MQTT
thread (`Match`/`NoMatch`, then `MqttReturns` when the callback returns;
`Connected`, `ConnectionLost`), the housekeeper (`KeeperStarts` ...
`KeeperReturns`, one slot at a time) and time (`Tick`). The locks are guards:
`allClients.mutex` is held while the housekeeper is not asleep, `messages.mutex`
of a client while the housekeeper or the MQTT thread is at its slots. The second
is recursive, so that a callback may send with the client it is called for;
`Add` is therefore possible during a callback.

A slot has the request and its age; ages stop at one second more than the
timeout, since only `age > timeout` is tested. The code reads the clock before
it takes the lock, so the real housekeeper may act on a time that is a little
old: it then times a request out one round later, never earlier.

`Destroy` may come during a callback of the MQTT thread, as nothing in the code
prevents it; `MqttReturns` then does not touch the client.

### PolicyWorker

The worker's loop is `Read`, `Build` or `NothingNew`; `AlreadyConnected`,
`ListenFails` or `ListenConnects`, `ListenDone`; then `Execute`, `Queried` for
each policy at the head that is due; `PassEnds`; `Wake`. The MQTT threads do
`PushBegin`, `PushEnd` (`handle_config_msg`; between them the file is torn) and
`ConnectionLost`. Guards stand for the locks: `pushing = None` for
`g_policy_update_lock`, `pc # "subscribe"` for `g_gateway_mutex`.

Times are relative: `due` is `nextRun - time(NULL)`, and `age` is how long ago
the worker took the `now` of its pass. `InsertAt`/`Position` are the loop of
`insert_slave_policy`. `Restart` keeps the file only.

### ModbusGateway

| action | code |
|---|---|
| `Load` | `load_slave_policy_from_cache`: `PolicyWorker!Build`, and with it `cleanup_modbus_ctxs` and `init_modbus_context` for each policy in turn |
| `NoContext`, `ReadSucceeds`, `ReadFails` | `read_modbus` for the policy at hand, `handle_read_modbus_error`, and what `execute_policy` does with its buffer; each is a `PolicyWorker!Queried` |
| `WriteBegin`, `WriteEnd` | `handle_back_control_msg` and `write_modbus` on the MQTT thread: the context is looked up, then used; no lock |
| `SlaveGoes`, `SlaveComes` | the slaves; a TCP connection breaks, a serial port stays open |
| `Push`, `WorkerElse`, `Elsewhere`, `GatewayRestarts` | the other actions of `PolicyWorker` |

A context is an address and whether its connection is alive. There is one for a
slave id, made from the first of its policies whose address can be opened; after
a failed read it is made anew from the policy that failed. A context that the
worker frees while the MQTT thread uses it stays in `writer`, marked `freed`:
whatever comes of it, no slave is reached. `payload` is the buffer on the stack
of `execute_policy`, which `read_modbus` does not touch when there is no context.

Every action is one of `PolicyWorker` or leaves its variables alone, so what is
proved of the worker holds of the composition.

### BacnetDevice

| action | code |
|---|---|
| `FoundWithRoom`, `FoundEvicting` | `my_iam_handler` for a new device; with a full table `free_invoke_id` |
| `ReadAnswer` | `my_read_property_ack_handler`: an element of the object list |
| `SubscribeAnswer`, `NullAnswer` | `my_subscribe_simple_ack_handler`; with a null object |
| `RpmAnswer`, `WpmAnswer` | the two handlers of multiple properties |
| `Refusal` | error, abort and reject: `handle_for_unexpected` |
| `StaleAnswer` | an answer for a place whose device was freed |
| `Visit` | the body of the worker's loop for one device: time-out, discovery, `add_request_if_need`, `send_next_request` |
| `SetType`, `SetIncrement` | `msg_arrived_config`, on the MQTT thread |
| `ApplyChange`, `ClearFlags` | the worker applies a change and takes the flags down, not in one step |
| `Reset` | `reset_gateway` |
| `LookUp`, `AddRequest`, `AddRequestToFreed` | a command on the MQTT thread: find the device, then queue the request |
| `Lose` | a request or its answer is lost |

The functions of `baclib.c` are operators from a device to a `Result`: the device
they leave behind and the requests they send (`SubscribeIfNeed`, `CancelIfNeed`,
`ReadListIfNeed`, `HandleForUnexpected`, `SendNextRequest`). The list of objects
is walked from its end, since the code inserts at the head.

The invoke id is the device's place in the table, and that of an answer is all
that says what it answers. `net` keeps, for each place, the requests that may
still be answered, in any order: answers may be late, and may reach a device
that took the place of the one that was asked. `mixed` is a history variable:
since the last reading of the list, the device at this place timed out, was
replaced, was given a changed configuration or was sent a request while another
request of that place was under way. `undefined` records the use of a null or
freed device, after which nothing is modelled.

### BacnetLink and BacnetCache

| action | code |
|---|---|
| `Connect`, `ConnectFails`, `Subscribed2Topics` | `start_mqtt_client`: the flag goes up only after two subscriptions |
| `Publish` | `send_data`: cached without a session |
| `SendNew`, `SendNewFails` | `send_message` for the new message; when it fails, the code locks `g_gateway_mutex`, which is never created (`phase = "crashed"`) |
| `SendCached`, `SendCachedFails`, `Drained` | the loop over the cache |
| `LoseSession`, `ConnectionLost` | the session ends; the library's thread calls back |

`BacnetCache` is a queue that forgets its oldest message when it is full.
`BacnetLink` implements it under the mapping `Cached`, the ring read from its head.

### BacnetGateway

The worker does one thing at a time: devices are visited and answers handled
only while it is not at the head of its loop or sending (`Devices` needs
`InLoop`), an answer that is published takes a `Publish` with it. Configurations
and commands need a session; the devices' network does not.

## 3. The runs

| run | bounds | shows |
|---|---|---|
| `ring_uniform` | 4 records of one length, 3 slots and a rest, 2 crashes | `FifoSpec`, `PeekAgrees`, `WithinLimit` |
| `ring_mixed` | records of 2, 3 and 5 units in 8 units, no crash | `OldestGoFirst` until the first mismatch |
| `ring_count` | the same | violates `BlockCntIsNumberOfRecords` |
| `sender_order` | 4 messages, 2 brokers, 2 passwords for one, cache of 2, 1 restart | `PipelineOrdered`, `OrderReserved`, `LossOnlyWhenFull`, `BacklogDrains` |
| `sender_full_cache` | the same | violates `CachedIsSent` |
| `sender_bad_broker` | the same | violates `RefusedIsDiscarded` |
| `shadow_callbacks` | 2 clients, 2 places, 2 slots, 2 requests, timeouts 0 and 1 | `CalledAtMostOnce`, `SlotUntilAnswered`, `OnlyLateRepliesIgnored`, `KeeperIsSafe`, `EveryWatchedRequestEnds` |
| `shadow_group_full` | the same with 1 place | violates `EveryRequestEnds` |
| `policy_updates` | two configurations (3 policies loaded out of order, 1 policy), passes of up to 1 s, 1 restart | `LoadedIsLatest`, `LossIsNoticed`, `ListIsLoaded`, `OrderedAfterFirstRound`, `UpdatesAreLoaded`, `EveryPolicyPolled`, `GatewayReconnects` |
| `policy_order` | the same | violates `HeadIsNext` |
| `modbus_contexts` | a configuration with two policies for one slave at different addresses, one with another slave; a TCP address and a serial port; 1 restart; 1 event (a slave that goes, a failed read, a write) | `ConnectionsArePolled`, `PublishedIsRead`, `SlavesAreRead` |
| `bacnet_gateway` | 3 devices for 2 places, the second of which can never send; 2 requests of a place under way, 3 in a queue; a cache of 2, up to 4 messages; 14 scenarios | `NeverStuck`, `AnswersMatch`, `ListComplete`, `UndefinedOnlyIfMixed`, `CommandsKept`, `SubscriptionsSettle`, `CommandsAreSent`, `NothingLost`, `CachedInOrder`, `CacheIsFifo`, `Reconnects` |

Every passing run also checks its module's type invariant, but for `ring_mixed`.
All runs but `bacnet_gateway` check for deadlock: that gateway may really stop,
at the null mutex or a freed device.

Why the bounds are enough. *Ring*: three slots and four distinct records let the
ring wrap, fill up and be overwritten past its first lap, with the oldest record
at each slot; one spare unit of file makes "fits" differ from "slot free". The
second crash may come in the operation that follows the first (a third one shows
nothing new). The three lengths 2, 3 and 5 take every branch of the put (TLC's
coverage shows all of them taken); `FileEnd` leaves room for one record beyond
the limit: leaving it would show. *Sender*: four
messages over a cache of two fill it with one message in each other queue; two
brokers are needed for one to block the other. The proofs lift the safety
properties to any size. *Shadow*: with two slots a request can take the slot of
an answered one while the other is in a callback; timeouts 0 and 1 make two
requests expire in different rounds; the proofs lift the safety properties.
*Policies*: three policies with intervals 1, 3, 2 are loaded in an order that is
not that of their times; a second configuration makes loading visible.
*Contexts*: two policies that disagree about their slave's address are needed for
a context to move, the second slave for one policy's reading to be found in the
buffer by another; with one event each fault is seen with every interleaving of
the worker, the pushes and the restart, and liveness needs faults to end anyway.
The proofs lift the safety properties. *BACnet*: a full product of the events is
out of reach, so a behaviour has the events of one scenario (`MCScenarios`, each
commented with what meets in it): a device that gives way, a reset, lost, late
and refused answers, a list read anew, consecutive configurations, expiring
subscriptions, polls and commands in one queue, and the connection lost under
these. `TsmSize = MaxDevices` keeps the relation of the code (255 and 255), by
which the last place never sends. Lists of two elements with one that is no
object take each branch of the walks. The proofs lift the safety properties to
any scenario.

`ring_mixed` has the constraint `Matched`: once metadata and records have parted
there are no records to speak of. `OldestGoFirst` names the two situations in
which they part; `ring_count` shows that they do.

Each property of a passing run is paired with a mutant, a small bug put into one
definition (the operators marked *Mutant* in the modules), that TLC finds with
that property.

## 4. Fairness

- `MqttSender!FairSpec`: weak fairness of the worker, a thread that nothing
  blocks for good (its waits have timeouts). Nothing is assumed of the brokers:
  `BacklogDrains` says what follows *if* they stay reachable and accept the
  passwords. In the run the bound on messages also ends their arrival, as it
  must for a backlog to drain.
- `ShadowClient!FairSpec`: time passes, the housekeeper runs, callbacks return.
  The last is an obligation of the application. Replies are not assumed to come.
  Application threads need no fairness.
- `PolicyWorker!FairSpec`: the worker runs (its queries have timeouts), a begun
  push and a begun `connection_lost` end, time passes. No connection is assumed
  to succeed.
- `ModbusGateway!ModbusFairSpec`: the same, and a write returns. No slave is
  assumed to come back: `SlavesAreRead` speaks of a configuration that stays and
  a slave that is there for good.
- `BacnetGateway!Fairness`: the worker connects at last and goes on with its
  loop; `connection_lost` is called at last; flags are taken down; and for each
  place an answer comes or `poll_interval` elapses, one or the other (`Progress`).
  No answer is assumed to come. The weak fairness of `Connect` is the assumption
  that the broker can be reached in the end.

## 5. What is proved

With TLAPS, for every value of the constants that satisfies the assumptions
(`RingAssumption`, `CapacityAssumption`, `ShadowAssumption`, `PolicyAssumption`,
`ContextAssumption`,
`DeviceAssumption`, `LinkAssumption`, `GatewayAssumption`: positive sizes, times
are naturals, `None` is none of the values it stands beside, the functions that
describe configurations and devices have their domains).

`RingBuFiProofs` rests on `RingAssumption`: the size limit is a `size_t` and lies
within the modelled offsets, what a payload is misread as is a natural. It has
two inductive invariants, one for records of one length and one for any.

*Types, any lengths.* `RingTyped`: every variable keeps its type and a put that
has yet to write has room in the file as modelled (`OpTyped`), whatever crashes
happen, and after metadata and records have parted too. The read position is then
only known to be a natural, for `popRingBuFiRecord` and the erasing loop add to it
a length they find in the file without looking at it.

*One length* (hypothesis `Uniform`: all records have one length, and the file has
room for one). Records lie in slots. `RingInv` says, until a crash breaks the file,
at each step of a put or pop:

- the metadata saved in the file describe the cache before the operation
  (`Describes`: `head` at the slot of the oldest record, `next` behind the
  youngest, `nomanland` at the end of the last slot or of the first lap);
- the slots hold its records (`Holds`), apart from the one slot a put overwrites,
  which is the oldest record's exactly if the buffer is full (`SaveOK`), and the
  one a pop empties (`PopOK`);
- the metadata in memory are what the branch taken has made of the saved ones
  (`BeforeWrite`, `AfterPop`), and a branch is taken only where it fits
  (`BranchFits`); the last three branches are never taken.

`ViewOf` links this to what a reader finds: the offsets in the file are defined
by recursion, and `OffsetsAre` shows by a least counterexample that a function
satisfying their equation is the one defined. `PutStarts` ... `RestartIsCrash`
then take one action each. Theorems: `RingInvariant`, the refinement `FileIsFifo`
(crashes included), `PeekAgreesAlways`, `TypesHoldUniform` (the module's `TypeOK`),
and, without crashes, `CountIsRightUniform`: `blockCnt` is the number of records.
`ring_count` shows that the last fails for several lengths.

*Any lengths.* Records lie in a `Chain`: offsets from `head` to `next`, each record
beginning where the one before it ends or, past `nomanland`, at the beginning of
the file. `MixedInv` says, until the view is broken:

- the saved metadata are `Sound` and count the records of the cache. `Sound` has
  what the branches rely on without saying so: `nomanland` is not before `next`
  while the records lie in one piece, except that a lone record may reach past a
  `nomanland` left by the lap before it. It is this exception that makes a later
  wrap erase by stale bytes;
- in the erasing loop (`Erasing`) the records not erased yet are a run of the
  youngest, in the file, and `blockCnt` counts them; in the branch `front` it
  counts more than these (the records it forgot), and in a wrap over a stale
  `nomanland` it may have gone below zero;
- before the record is written (`Writing`), it lands behind those records and on
  none of them (`Lands`), in each of the eight branches; after it (`Saving`) the
  records and the new one are a chain in the file;
- a pop has left the chain without its first record (`Popping`).

`ChainIsView` and `ViewIsChain` link a chain with a right count to the view, and
`MiscountIsMismatch` shows that with a wrong count metadata and records do not
match: for the two exempt ways of a put to end, the view is then broken and not by
chance another list of records. This lemma could not be proved of a first version of
`Matches`, which did not ask that the records lie between `head` and `next`, and
TLC found an instance where it was wrong (lengths 1 and 9, a size limit of 20).
Theorems, for any number of crashes: `MixedInvariant`, `OldestGoFirstAlways`, `WithinLimitAlways`.
Before it was proved, `MixedInv` was checked with TLC for the lengths 1 to 4, with
and without a crash.

`MqttSenderProofs`. The inductive invariant is `SenderInv`:

- `TypeOK`;
- `PipelineOrdered`: each of the four queues (sending, cache, being flushed,
  incoming) is in the order of acceptance, and everything in an earlier one is
  older than everything in a later one;
- `NumbersBounded`: no queue holds a number above `count` (else `Accept` could
  break the order) or below `lastRecv` (else a broker could receive something
  older than it has);
- `WorkerPhase`: the worker fetches only with an empty sending queue, and is
  inside the flush exactly while it holds a batch (else a fetch or a by-pass
  could overtake).

From it follow `TypesHold`, `QueuesStayOrdered`, the action property
`OrderIsReserved`, and `NothingLostBelowCapacity`, whose proof accounts for the
messages of each queue at each action. The lemmas about `Tail`, `Append` and the
operations of the cache are stated once at the head of the module.

`ShadowClientProofs`. `CalledAtMostOnce` alone is not inductive: a second call
could come from a slot that still holds an answered request. `ShadowInv` adds
`SlotInv` (what a slot holds belongs to its client, is in no second slot, and
was called exactly if the slot is in a callback), `RequestInv` (a request of a
living client was called or holds a slot; what is under way belongs to a living
client), `ThreadInv` (the slot of a running callback is taken) and `KeeperIsSafe`
(a member of the group is alive and the two threads are never at one client).
There is one lemma per action. Theorems: `CallbackRunsAtMostOnce`,
`RequestKeepsItsSlot`, `NoFirstReplyIsLost`, `HousekeeperIsSafe`,
`ShadowTypesHold`.

`PolicyWorkerProofs`. `PolicyInv` adds to the properties that a policy that was
executed since loading has nothing due later in front of it (`RanInOrder`: this
is what one round makes of the whole list), that no policy is listed twice
(`NoTwins`), who will deal with a session or its loss (`LinkInv`) and what the
worker has read (`WorkerInv`). Theorems: `NoUpdateIsLost`, `NoLossIsMissed`,
`NoPolicyIsLost`, `OneRoundOrdersTheList`, `PolicyTypesHold`.

`ModbusGatewayProofs`. `GatewayIsWorker` shows that `ModbusSpec` implements
`PolicyWorker`'s `Spec`, and with it `PolicyInv` holds here. `ContextInv` is
`ContextsTyped`, `ConnectionsArePolled` and `QueriedIsLoaded`: the policy that is
executed belongs to the loaded configuration, without which a reconnection could
bring back an address of the old one. Theorems: `ContextTypesHold`,
`ContextsFollowPolicies`, `OnlyAnswersArePublished`.

`BacnetDeviceProofs`. `DeviceInv` has, for each place, what `NeverStuck`,
`AnswersMatch` and `ListComplete` say and what makes them inductive: requests
under way and queued are well-formed, the object a device is at exists in every
state in which it is used, the objects are a prefix of the list up to the element
that was asked for. The operators on devices have a lemma each (what
`SubscribeIfNeed` returns, ...), the actions use only these. `CommandsKept` is
proved of each step from `DeviceInv`: an answer changes the queue of its device through an outcome (`QueueOutcome`), a visit
takes the head, which is then the last request under way (`SentIsUnderWay`).
Theorems: `DevicesNeverStuck`, `DeviceAnswersMatch`, `DeviceListComplete`,
`DeviceUndefinedOnlyIfMixed`, `DeviceCommandsKept`.

`BacnetLinkProofs`. `LinkInv` is `LinkTypeOK`, `NothingLost` and `CachedInOrder`;
the arithmetic of the ring is in lemmas about `Cached` after a put, a get and a
put back. Theorems: `LinkNothingLost`, `LinkCachedInOrder`, and the refinement
`LinkCacheIsFifo`.

`BacnetGatewayProofs`. Every step of the composition is a step or a stutter of
each side (`GatewayIsDevices`, `GatewayIsLink`); the theorems of the two sides
follow for the gateway.

Every safety property and action property of a passing run is proved; those of the
ring in `ring_uniform` and `ring_mixed` under the hypotheses above. Only
model-checked are the liveness properties: `BacklogDrains`,
`EveryWatchedRequestEnds`, `UpdatesAreLoaded`, `EveryPolicyPolled`,
`GatewayReconnects`, `SlavesAreRead`, `SubscriptionsSettle`, `CommandsAreSent`,
`Reconnects`. Liveness under fairness, ENABLED, and what a recursive definition
computes for every input are out of the prover's reach.

## 6. What the checks found

Runs that expect a violation; `PROJECT.json` quotes the lines.

1. `ring_count`. Records of different lengths: `putRingBuFiRecord` drops records
   without counting them off (`ringbufi.c:167`), after which blockCnt is wrong
   and pops read payload as lengths.
2. `sender_full_cache`. A full cache whose oldest record is not at the start of
   the file looks empty to the peek; the worker pops it all the same
   (`mqttsender.c:543`) and the record is lost.
3. `sender_bad_broker`. The comparison of passwords is inverted
   (`mqttsender.c:440`): a refused message blocks the queue for ever.
4. `shadow_group_full`. The eleventh client works, but its requests never time
   out (`device_management.c:297`).
5. `policy_order`. The list is not ordered when it is loaded (`business.c:285`).

Behaviour that no document contradicts, but a reader should know of, is an
explicit exception in a property:

- `PublishedIsRead`: when a slave cannot be connected, `read_modbus` returns
  before it empties the buffer, and `execute_policy` publishes what is in it, the
  reading of another slave for one (`modbuslib.c:182`, `business.c:562`).
- `Reconnects`: `connection_lost` may run before `start_mqtt_client` puts the flag
  up (`mqttutil.c:126`); the BACnet gateway then never reconnects.
- `Stopped`: a message that fails to be sent makes the BACnet gateway lock a mutex
  that is never created (`mqttutil.c:238`); a command may use a device that was
  freed after it was looked up; a confused answer may follow a null pointer.
- `AnswersMatch`, `ListComplete` hold only while `mixed` is false: a time-out, a
  changed configuration or a new device in a place used before makes a late
  answer count for the wrong request.

## 7. What is not modelled

- *Sender*: serialisation of a message (taken as faithful; all messages of one
  gateway have different lengths in general, and then finding 1 applies to the
  cache); `close_mqtt_sender` and the race of the worker with the end of
  `new_mqtt_sender`; reading the bad brokers without the lock while they are
  freed.
- *Gateway*: the gateway configuration file, a policy file that cannot be opened
  for writing, a subscription that fails, shutdown, policies with a function code
  that is not one for reading.
- *Modbus contexts*: the Windows build, in which slaves on one COM port share a
  context (`modbus-rtu-helper.c`); the values of registers.
- *Device management*: `device_management_connect` and its error message, delta
  notifications, `device_management_fini`; callbacks that use another client or
  create or destroy one from the housekeeper (the housekeeper holds the group's
  lock, which is not recursive).
- *BACnet gateway*: the policy file, the start of the local BACnet device,
  console commands, shutdown, JSON. Abstracted: time (any interval may elapse at
  any visit of the worker), which device gives way in a full table (any, the code
  takes the one not heard of for longest), the order of its cancellations, the
  splitting of requests at 50 objects, values. `ApplyChange` visits all devices
  in one step, and `SetType` writes its three variables in one; the code takes no
  lock for either.
- Vendored code (`bacnet-stack`), samples, tests and build files are no part of
  the model; pure helpers (`common.c`, `jsonutil.c`, `bacutil.c`,
  `device_management_util.c`) have no state. Nearly all lines of the repository
  are in `bacnet-stack`, a third-party protocol stack with ports to
  microcontrollers: the part of the lines that is modelled is therefore small
  and would stay so if every line of the three programs were covered.

`PROJECT.json` lists under *hazards* what of this can go wrong, with the line.

## 8. Plan

Done, in this order:

1. `CacheFifo`, `RingBuFi`: the cache file and its abstraction;
   `RingBuFiProofs`.
2. `MqttSender` over `CacheFifo`; `MqttSenderProofs`.
3. `ShadowClient`; `ShadowClientProofs`.
4. `PolicyWorker`; `PolicyWorkerProofs`.
5. The violations of documented behaviour met on the way.
6. `BacnetDevice`, `BacnetCache`, `BacnetLink`, their composition
   `BacnetGateway`, and the proofs about the four.
7. `ModbusGateway`: the contexts composed with `PolicyWorker`;
   `ModbusGatewayProofs`.

Left:

8. The connect call of the device-management client, with its error message, and
   the order of locks of callbacks that create or destroy clients.
9. Start and close of the sender against its worker.
10. The shared COM contexts of the Windows build.
11. Proofs: what a crash does to records of several lengths (which records
    survive it, as `Crash` of `CacheFifo` says for one length), and when `peek`
    is right about them.
