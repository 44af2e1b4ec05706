----------------------------- MODULE BacnetDevice -----------------------------
(***************************************************************************)
(* The BACnet gateway's devices (baclib.c) and the part of the worker that *)
(* drives them (business.c).  For each device the gateway reads the list   *)
(* of objects, element by element, subscribes to the objects one after the *)
(* other, and then polls them and sends the commands of the cloud from a   *)
(* queue.  It is meant to have one request outstanding for each device:    *)
(* the invoke id of all of them is the device's place in the table, and an *)
(* answer is taken for the answer to whatever was asked last.              *)
(*                                                                         *)
(* Time is abstracted: an interval of the configuration may elapse at any  *)
(* visit of the worker.  Requests and answers may be lost, and answers     *)
(* come in any order and after any delay, also to a device that has taken  *)
(* the place of the one that was asked.                                    *)
(***************************************************************************)
EXTENDS Integers, Sequences, FiniteSets

CONSTANTS
  Device,        \* instance numbers of the devices of the network
  ObjectList,    \* ObjectList[d]: kinds of the elements of d's object list
  MaxDevices,    \* DEVICE_NUM_MAX: places in the table
  TsmSize,       \* MAX_TSM_TRANSACTIONS of the stack
  SubscribeType, \* the values of subscribeType that are used
  Command,       \* commands the cloud may send
  Poll,          \* the content of a request that no command asked for
  MaxInFlight,   \* bound: requests of one place under way, the rest is lost
  MaxQueue,      \* bound: requests waiting for one device
  Budgets        \* bound: sets of events a behaviour may have, and how often

Kinds == {"analog", "binary", "other"}
SubscribeTypes == {"none", "object", "property", "increment"}
Events == {"found", "type", "increment", "reset", "discover", "hasty",
           "command", "refusal", "loss", "expiry", "poll"}

ASSUME DeviceAssumption ==
  /\ Device # {}
  /\ ObjectList \in [Device -> Seq(Kinds)]
  /\ MaxDevices \in Nat \ {0} /\ TsmSize \in Nat
  /\ SubscribeType \subseteq SubscribeTypes
  /\ Poll \notin Command
  /\ MaxInFlight \in Nat \ {0} /\ MaxQueue \in Nat
  /\ Budgets \subseteq [Events -> Nat]

VARIABLES
  devices,     \* g_all_devices: the device at each place in use
  type,        \* g_interval.subscribe_type
  typeChanged, \* g_subscribe_type_change
  covChanged,  \* g_cov_increment_change
  cancelType,  \* g_cancel_type
  pc,          \* "clear": the worker applied a change, its flags are still up
  pend,        \* commands whose device was looked up, not queued yet
  net,         \* requests of each place that may still be answered
  mixed,       \* since it last started to read the list, a device at this
               \* place was disturbed while a request was under way (history)
  undefined,   \* the undefined behaviour that was reached, or "no" (history)
  budget       \* events that are left

settings == <<type, typeChanged, covChanged, cancelType>>
dvars == <<devices, settings, pc, pend, net, mixed, undefined, budget>>

Place == 1..MaxDevices
Id == UNION {{d} \X DOMAIN ObjectList[d] : d \in Device}
KindOf(id) == ObjectList[id[1]][id[2]]

(* NEED_TO_CANCEL_OBJECT and _PROPERTY are "cancelObject", "cancelProperty" *)
Cov == {"unsupported", "support", "need", "subscribed",
        "cancelObject", "cancelProperty"}
Object == [id : Id, cov : Cov, unsupported : {"no", "object", "property"}]

Services == {"object", "property"}
Service(t) == IF t = "object" THEN "object" ELSE "property"

(* Requests, to the device they are sent to: an element of an object list  *)
(* (0: the length), a subscription, a cancellation, properties to read     *)
(* (rpm) or to write (wpm).  The list asked for is that of the device "of":*)
(* the request for the next element repeats what the last answer was about.*)
Request ==
  [op : {"read"}, to : Device, of : Device, index : Nat] \cup
  [op : {"sub", "cancel"}, to : Device, service : Services, id : Id] \cup
  [op : {"rpm", "wpm"}, to : Device, what : Command \cup {Poll}]

ReadElementOf(d, of, j) == [op |-> "read", to |-> d, of |-> of, index |-> j]
ReadElement(d, j) == ReadElementOf(d, d, j)
Subscription(d, id, service) ==
  [op |-> "sub", to |-> d, service |-> service, id |-> id]
Cancellation(d, id, service) ==
  [op |-> "cancel", to |-> d, service |-> service, id |-> id]
Properties(d, op, what) == [op |-> op, to |-> d, what |-> what]

(* A device of the table.  objects is in the order of insertion: the head  *)
(* of the code's list is its last element, the next of a node the element  *)
(* before it; handle is handle_next_object, 0 for NULL.                    *)
State == {"read", "subscribe", "cancel", "resubscribe", "main"}
Entry ==
  [dev : Device, state : State, disable : BOOLEAN, sendNext : BOOLEAN,
   update : BOOLEAN, size : Nat, next : Nat, objects : Seq(Object),
   handle : Nat, queue : Seq(Request)]

-----------------------------------------------------------------------------
(* What the functions of baclib.c make of a device, t being subscribe_type *)
(* at that time: the device they leave behind and the requests they send.  *)

Result(d, out) == [dev |-> d, out |-> out]

(* The first element satisfying the condition, walking the list from n; 0  *)
(* at the end of the list.                                                 *)
WalkFrom(n, S) ==
  IF \E k \in 1..n : k \in S /\ \A j \in S : j > k => j > n
  THEN CHOOSE k \in 1..n : k \in S /\ \A j \in S : j > k => j > n
  ELSE 0

WithCov(d, C) == {k \in DOMAIN d.objects : d.objects[k].cov \in C}
Start(d) == IF d.handle = 0 THEN Len(d.objects) ELSE d.handle - 1

\* Mutant: the device stays disabled.
EnterMainLoopDisabled(d) ==
  [d EXCEPT !.state = "main", !.handle = Len(d.objects), !.sendNext = TRUE]

EnterMainLoop(d) ==
  [d EXCEPT !.state = "main", !.handle = Len(d.objects),
            !.disable = FALSE, !.sendNext = TRUE]

(* is_need_to_subscribe *)
Wanted(o, t) ==
  /\ ~(t = "object" /\ o.unsupported = "object")
  /\ ~(t \in {"property", "increment"} /\ o.unsupported = "property")

(* subscribe_if_need: objects that refused this kind of subscription are   *)
(* passed over, the first other one that needs it is subscribed to.        *)
SubscribeIfNeed(d, t) ==
  LET need == WithCov(d, {"need"})
      target == IF t = "none" THEN 0
                ELSE WalkFrom(Start(d),
                              {k \in need : Wanted(d.objects[k], t)})
      passed == {k \in need : t # "none" /\ target <= k /\ k <= Start(d)}
      walked == [d EXCEPT !.objects =
                   [k \in DOMAIN d.objects |->
                      IF k \in passed
                      THEN [d.objects[k] EXCEPT !.cov = "support"]
                      ELSE d.objects[k]]]
  IN IF target = 0
     THEN Result(EnterMainLoop(walked), <<>>)
     ELSE Result([walked EXCEPT !.handle = target],
                 <<Subscription(d.dev, d.objects[target].id, Service(t))>>)

StartSubscribing(d, t) ==
  SubscribeIfNeed([d EXCEPT !.handle = 0, !.state = "subscribe"], t)

(* cancel_subscribe_object_if_need *)
CancelIfNeed(d, t) ==
  LET target == WalkFrom(Start(d),
                         WithCov(d, {"cancelObject", "cancelProperty"}))
      service == IF d.objects[target].cov = "cancelProperty"
                 THEN "property" ELSE "object"
      again == IF d.state = "resubscribe" THEN "need" ELSE "support"
  IN IF target # 0
     THEN Result([d EXCEPT !.handle = target,
                           !.objects[target].cov = again],
                 <<Cancellation(d.dev, d.objects[target].id, service)>>)
     ELSE IF d.state = "resubscribe"
     THEN StartSubscribing(d, t)
     ELSE Result(EnterMainLoop(d), <<>>)

(* read_object_list_if_need *)
ReadListIfNeed(d, t) ==
  IF d.next <= d.size
  THEN Result(d, <<ReadElement(d.dev, d.next)>>)
  ELSE StartSubscribing(d, t)

(* send_read_struct_list *)
ReadStructList(d) ==
  Result([d EXCEPT !.sendNext = FALSE, !.update = TRUE, !.disable = TRUE,
                   !.state = "read", !.next = 0],
         <<ReadElement(d.dev, 0)>>)

\* Mutant: handle_next_object stays where it is.
SendNextRequestUnmarked(d, t) ==
  LET r == Head(d.queue)
      sent == [d EXCEPT !.queue = Tail(d.queue), !.sendNext = FALSE]
  IN IF d.disable \/ d.queue = <<>> THEN Result(d, <<>>)
     ELSE Result(sent, IF r.op = "sub" /\ t = "none" THEN <<>> ELSE <<r>>)

\* Mutant: handle_next_object is NULL after the search for the object.
SendNextRequestPastEnd(d, t) ==
  LET r == Head(d.queue)
      sent == [d EXCEPT !.queue = Tail(d.queue), !.sendNext = FALSE]
  IN IF d.disable \/ d.queue = <<>> THEN Result(d, <<>>)
     ELSE IF r.op = "sub" THEN Result([sent EXCEPT !.handle = 0], <<r>>)
     ELSE Result(sent, <<r>>)

(* send_next_request; mark_object_for_subscribe leaves the object a queued *)
(* subscription is for at handle_next_object.                              *)
SendNextRequest(d, t) ==
  LET r == Head(d.queue)
      sent == [d EXCEPT !.queue = Tail(d.queue), !.sendNext = FALSE]
      found == WalkFrom(Len(d.objects),
                        {k \in DOMAIN d.objects : d.objects[k].id = r.id})
  IN IF d.disable \/ d.queue = <<>> THEN Result(d, <<>>)
     ELSE IF r.op # "sub" THEN Result(sent, <<r>>)
     ELSE IF t = "none" THEN Result(sent, <<>>)
     ELSE Result([sent EXCEPT !.handle = IF found = 0 THEN d.handle
                                         ELSE found], <<r>>)

(* handle_for_unexpected, called for an error, an abort, a reject and,     *)
(* outside the main loop, when no answer came in time.                     *)
Refused(o, t) ==
  IF o.unsupported = (IF Service(t) = "object" THEN "property" ELSE "object")
  THEN [o EXCEPT !.cov = "unsupported"]
  ELSE [o EXCEPT !.cov = "support", !.unsupported = Service(t)]

HandleForUnexpected(d, t) ==
  CASE d.state = "read" ->
         IF d.size = 0 THEN ReadStructList(d) ELSE ReadListIfNeed(d, t)
    [] d.state = "subscribe" ->
         SubscribeIfNeed(IF d.handle = 0 \/ t = "none" THEN d
                         ELSE [d EXCEPT !.objects[d.handle] =
                                 Refused(d.objects[d.handle], t)], t)
    [] d.state \in {"cancel", "resubscribe"} -> CancelIfNeed(d, t)
    [] OTHER -> SendNextRequest([d EXCEPT !.sendNext = TRUE], t)

(* my_read_property_ack_handler: device from answers with element j of its *)
(* list.  The first answer after the list was asked for anew empties the   *)
(* old list, and the queue with it.                                        *)
\* Mutant: the objects of the old list stay.
CleanUpKeepsObjects(d) ==
  IF d.update THEN [d EXCEPT !.queue = <<>>, !.update = FALSE, !.size = 0]
  ELSE d

CleanUp(d) ==
  IF d.update
  THEN [d EXCEPT !.handle = 0, !.objects = <<>>, !.queue = <<>>,
                 !.update = FALSE, !.size = 0]
  ELSE d

NewObject(id) == [id |-> id, cov |-> "need", unsupported |-> "no"]

TakeElement(d, from, j) ==
  IF j = 0
  THEN [d EXCEPT !.size = Len(ObjectList[from]), !.state = "read"]
  ELSE IF ObjectList[from][j] = "other" THEN d
  ELSE [d EXCEPT !.objects = Append(d.objects, NewObject(<<from, j>>))]

ListAnswer(d, t, from, j) ==
  LET taken == TakeElement(CleanUp(d), from, j)
  IN IF j < taken.size
     THEN Result([taken EXCEPT !.next = j + 1],
                 <<ReadElementOf(d.dev, from, j + 1)>>)
     ELSE IF t # "none" THEN StartSubscribing(taken, t)
     ELSE Result(EnterMainLoop(taken), <<>>)

(* my_subscribe_simple_ack_handler, for subscriptions and cancellations;   *)
(* not defined without an object it is about (a null pointer).             *)
NullObject(d) == d.handle = 0 /\ d.state \notin {"cancel", "resubscribe"}

SimpleAnswer(d, t) ==
  LET marked == [d EXCEPT !.objects[d.handle].cov = "subscribed"]
  IN CASE d.state = "subscribe" -> SubscribeIfNeed(marked, t)
       [] d.state \in {"cancel", "resubscribe"} -> CancelIfNeed(d, t)
       [] OTHER -> SendNextRequest([marked EXCEPT !.sendNext = TRUE], t)

(* my_read_property_multiple_ack_handler, after it published the answer,   *)
(* and my_write_property_multiple_ack_handler                              *)
PropertiesAnswer(d, t) == SendNextRequest([d EXCEPT !.sendNext = TRUE], t)

-----------------------------------------------------------------------------
(* Requests under way, and the table.                                      *)

(* tsm_next_free_invokeID: the invoke id is the place; when that equals    *)
(* MAX_TSM_TRANSACTIONS there is no room for it and nothing is sent.       *)
Sendable(i) == i # TsmSize

UnderWay(i, requests) ==
  IF ~Sendable(i) THEN <<>>
  ELSE IF Len(requests) <= MaxInFlight THEN requests
  ELSE SubSeq(requests, 1, MaxInFlight)

(* Once the list is read anew what was mixed up before does not matter.    *)
Mixed(i, before, rest, result) ==
  /\ Sendable(i)
  /\ \/ before /\ ~(result.dev.update /\ result.out # <<>>)
     \/ result.out # <<>> /\ Len(rest \o result.out) > 1

Without(s, k) == SubSeq(s, 1, k - 1) \o SubSeq(s, k + 1, Len(s))

(* A handler ran for the device at place i, of whose requests only rest    *)
(* may still be answered.                                                  *)
Handled(i, rest, outcome) ==
  /\ \E result \in {outcome} :
       /\ devices' = [devices EXCEPT ![i] = result.dev]
       /\ net' = [net EXCEPT ![i] = UnderWay(i, rest \o result.out)]
       /\ mixed' = [mixed EXCEPT ![i] = Mixed(i, @, rest, result)]
  /\ UNCHANGED <<settings, pc, pend, undefined>>

Spend(e) == budget[e] > 0 /\ budget' = [budget EXCEPT ![e] = @ - 1]

WorkerRuns == undefined = "no" /\ pc = "loop"

(* The elements of a set of indices in increasing order.                   *)
Listings(S) ==
  {q \in UNION {[1..n -> S] : n \in 0..Cardinality(S)} :
     /\ \A a, b \in DOMAIN q : a < b => q[a] < q[b]
     /\ \A k \in S : \E a \in DOMAIN q : q[a] = k}

DeviceInit ==
  /\ devices = <<>>
  /\ type = "none" /\ typeChanged = FALSE
  /\ covChanged = FALSE /\ cancelType = "none"
  /\ pc = "loop"
  /\ pend = {}
  /\ net = [i \in Place |-> <<>>]
  /\ mixed = [i \in Place |-> FALSE]
  /\ undefined = "no"
  /\ budget \in Budgets

-----------------------------------------------------------------------------
(* Answers: element k of what is under way for place i is answered.        *)

Answered(i, k, ops) ==
  /\ WorkerRuns
  /\ i \in DOMAIN devices /\ k \in DOMAIN net[i]
  /\ net[i][k].op \in ops

(* A device has no answer but an error for an element past its list or for *)
(* the list of another device.                                             *)
Exists(r) ==
  r.op = "read" =>
    r.of = r.to /\ (r.index # 0 => r.index \in DOMAIN ObjectList[r.to])

ReadAnswer(i, k) ==
  LET r == net[i][k] IN
  /\ Answered(i, k, {"read"})
  /\ Exists(r)
  /\ Handled(i, Without(net[i], k), ListAnswer(devices[i], type, r.to, r.index))
  /\ UNCHANGED budget

SubscribeAnswer(i, k) ==
  /\ Answered(i, k, {"sub", "cancel"})
  /\ ~NullObject(devices[i])
  /\ Handled(i, Without(net[i], k), SimpleAnswer(devices[i], type))
  /\ UNCHANGED budget

(* The answer to an rpm request is published, the one to a wpm is not.     *)
RpmAnswer(i, k) ==
  /\ Answered(i, k, {"rpm"})
  /\ Handled(i, Without(net[i], k), PropertiesAnswer(devices[i], type))
  /\ UNCHANGED budget

WpmAnswer(i, k) ==
  /\ Answered(i, k, {"wpm"})
  /\ Handled(i, Without(net[i], k), PropertiesAnswer(devices[i], type))
  /\ UNCHANGED budget

(* my_error_handler, my_abort_handler, my_reject_handler                   *)
Refusal(i, k) ==
  /\ Answered(i, k, {"read", "sub", "cancel", "rpm", "wpm"})
  /\ Handled(i, Without(net[i], k), HandleForUnexpected(devices[i], type))
  /\ IF Exists(net[i][k]) THEN Spend("refusal") ELSE UNCHANGED budget

(* The request or its answer is lost. *)
Lose(i, k) ==
  /\ k \in DOMAIN net[i]
  /\ undefined = "no"
  /\ Spend("loss")
  /\ net' = [net EXCEPT ![i] = Without(@, k)]
  /\ UNCHANGED <<devices, settings, pc, pend, mixed, undefined>>

(* A subscription is acknowledged to a device that has no object for it.   *)
NullAnswer(i, k) ==
  /\ Answered(i, k, {"sub", "cancel"})
  /\ NullObject(devices[i])
  /\ undefined' = "null object"
  /\ UNCHANGED <<devices, settings, pc, pend, net, mixed, budget>>

(* An answer for a place that is not in use: cleanup_device leaves the     *)
(* freed device there.  It may go unnoticed.                               *)
StaleAnswer(i, k) ==
  /\ WorkerRuns
  /\ i \notin DOMAIN devices /\ k \in DOMAIN net[i]
  /\ undefined' \in {"no", "freed device"}
  /\ net' = [net EXCEPT ![i] = Without(@, k)]
  /\ UNCHANGED <<devices, settings, pc, pend, mixed, budget>>

-----------------------------------------------------------------------------
(* my_iam_handler for a device that is not in the table.                   *)

NewDevice(d) ==
  ReadStructList(
    [dev |-> d, state |-> "read", disable |-> TRUE, sendNext |-> TRUE,
     update |-> FALSE, size |-> 0, next |-> 0, objects |-> <<>>,
     handle |-> 0, queue |-> <<>>])

Known == {devices[i].dev : i \in DOMAIN devices}

FoundWithRoom(d) ==
  LET i == Len(devices) + 1 IN
  /\ WorkerRuns /\ d \notin Known /\ Len(devices) < MaxDevices
  /\ Spend("found")
  /\ devices' = Append(devices, NewDevice(d).dev)
  /\ net' = [net EXCEPT ![i] = UnderWay(i, @ \o NewDevice(d).out)]
  /\ mixed' = [mixed EXCEPT ![i] = Mixed(i, FALSE, net[i], NewDevice(d))]
  /\ UNCHANGED <<settings, pc, pend, undefined>>

(* free_invoke_id: the device not heard of for longest goes, any one here; *)
(* its subscriptions are cancelled, all as subscriptions to objects.       *)
Subscribed(i) ==
  {k \in WithCov(devices[i], {"subscribed"}) : type # "none"}

Freed(i) == {[p EXCEPT !.freed = @ \/ p.place = i] : p \in pend}

FoundEvicting(d, i) ==
  /\ WorkerRuns /\ d \notin Known /\ Len(devices) >= MaxDevices
  /\ Spend("found")
  /\ \E q \in Listings(Subscribed(i)) :
       LET old == devices[i]
           cancels == [n \in DOMAIN q |->
                         Cancellation(old.dev, old.objects[q[n]].id, "object")]
           result == Result(NewDevice(d).dev, cancels \o NewDevice(d).out)
       IN /\ net' = [net EXCEPT ![i] = UnderWay(i, @ \o result.out)]
          /\ mixed' = [mixed EXCEPT ![i] = Mixed(i, FALSE, net[i], result)]
          /\ devices' = [devices EXCEPT ![i] = result.dev]
  /\ pend' = Freed(i)
  /\ UNCHANGED <<settings, pc, undefined>>

(* reset_gateway *)
Reset ==
  /\ WorkerRuns
  /\ Spend("reset")
  /\ devices' = <<>>
  /\ pend' = {[p EXCEPT !.freed = TRUE] : p \in pend}
  /\ mixed' = [i \in Place |-> mixed[i] \/ net[i] # <<>>]
  /\ UNCHANGED <<settings, pc, net, undefined>>

-----------------------------------------------------------------------------
(* The worker visits a device.                                             *)

\* Mutant: a disabled device does not time out.
TimedOutEnabled(d, t) ==
  IF d.disable THEN Result(d, <<>>)
  ELSE IF d.state # "main" THEN HandleForUnexpected(d, t)
  ELSE SendNextRequest([d EXCEPT !.sendNext = TRUE], t)

\* Mutant: nothing is sent after a lost rpmack.
TimedOutWaits(d, t) ==
  IF d.state # "main" THEN HandleForUnexpected(d, t) ELSE Result(d, <<>>)

(* No answer for poll_interval. *)
TimedOut(d, t) ==
  IF d.state # "main" THEN HandleForUnexpected(d, t)
  ELSE IF d.disable THEN Result(d, <<>>)
  ELSE SendNextRequest([d EXCEPT !.sendNext = TRUE], t)

(* add_request_if_need, when the subscriptions to the objects in expired   *)
(* have run out: the objects in renewed get theirs renewed, and an rpm     *)
(* request is queued if due.                                               *)
Expire(d, t, expired) ==
  [d EXCEPT !.objects =
     [k \in DOMAIN d.objects |->
        IF t # "none" /\ k \in expired /\ d.objects[k].cov = "subscribed"
        THEN [d.objects[k] EXCEPT !.cov = "need"]
        ELSE d.objects[k]]]

Renewable(d, t) ==
  {k \in WithCov(d, {"need"}) : t # "none" /\ Wanted(d.objects[k], t)}

\* Mutant: the requests replace those that wait.
AddRequestsAfresh(d, t, q, due) ==
  [d EXCEPT
     !.objects =
       [k \in DOMAIN d.objects |->
          IF t # "none" /\ d.objects[k].cov = "need"
          THEN [d.objects[k] EXCEPT !.cov = "support"]
          ELSE d.objects[k]],
     !.queue =
       (IF due THEN <<Properties(d.dev, "rpm", Poll)>> ELSE <<>>)
         \o [n \in DOMAIN q |->
               Subscription(d.dev, d.objects[q[n]].id, Service(t))]]

AddRequests(d, t, q, due) ==
  [d EXCEPT
     !.objects =
       [k \in DOMAIN d.objects |->
          IF t # "none" /\ d.objects[k].cov = "need"
          THEN [d.objects[k] EXCEPT !.cov = "support"]
          ELSE d.objects[k]],
     !.queue =
       @ \o (IF due THEN <<Properties(d.dev, "rpm", Poll)>> ELSE <<>>)
         \o [n \in DOMAIN q |->
               Subscription(d.dev, d.objects[q[n]].id, Service(t))]]

Polled(d, t, expired, due) ==
  {IF r.sendNext THEN SendNextRequest(r, t) ELSE Result(r, <<>>) :
     r \in UNION {{AddRequests(left, t, q, due) :
                      q \in Listings(Renewable(left, t))} :
                    left \in {Expire(d, t, expired)}}}

(* The body of the loop over the devices: first the time-out, then, unless *)
(* the device is disabled, either the list of objects is due to be read    *)
(* again or the objects are polled.                                        *)
Second(d, t, discover, expired, due) ==
  IF d.disable THEN {Result(d, <<>>)}
  ELSE IF discover THEN {ReadStructList(d)}
  ELSE Polled(d, t, expired, due)

(* A time-out is hasty when the answer is still under way.                 *)
Spends(i, late, discover, expired, due) ==
  {e \in Events :
     \/ e = "hasty" /\ late /\ net[i] # <<>>
     \/ e = "discover" /\ discover
     \/ e = "expiry" /\ expired # {}
     \/ e = "poll" /\ due}

Visit(i, late, discover, expired, due) ==
  /\ WorkerRuns
  /\ i \in DOMAIN devices
  /\ expired \subseteq DOMAIN devices[i].objects
  /\ \A e \in Spends(i, late, discover, expired, due) : budget[e] > 0
  /\ \E first \in {IF late THEN TimedOut(devices[i], type)
                  ELSE Result(devices[i], <<>>)} :
     \E second \in Second(first.dev, type, discover, expired, due) :
     \E both \in {Result(second.dev, first.out \o second.out)} :
       /\ Len(both.dev.queue) <= MaxQueue
       /\ devices' = [devices EXCEPT ![i] = both.dev]
       /\ net' = [net EXCEPT ![i] = UnderWay(i, @ \o both.out)]
       /\ mixed' = [mixed EXCEPT ![i] =
                      Mixed(i, @ \/ (late /\ net[i] # <<>>), net[i], both)]
  /\ budget' = [e \in Events |->
                  IF e \in Spends(i, late, discover, expired, due)
                  THEN budget[e] - 1 ELSE budget[e]]
  /\ UNCHANGED <<settings, pc, pend, undefined>>

-----------------------------------------------------------------------------
(* The configuration (msg_arrived_config, on the MQTT thread).             *)

CancelKind(t) == IF t \in {"none", "object"} THEN t ELSE "property"

SetType(t) ==
  /\ undefined = "no"
  /\ Spend("type")
  /\ type' = t
  /\ typeChanged' = (typeChanged \/ t # type)
  /\ cancelType' = CancelKind(type)
  /\ UNCHANGED <<devices, covChanged, pc, pend, net, mixed, undefined>>

SetIncrement ==
  /\ undefined = "no"
  /\ Spend("increment")
  /\ type # "none" /\ covChanged' = TRUE
  /\ UNCHANGED <<devices, type, typeChanged, cancelType, pc, pend, net, mixed,
                 undefined>>

(* The worker applies the change to every device that is not reading its   *)
(* list ...                                                                *)
ToDo(o) ==
  CASE o.cov = "unsupported" -> o.cov
    [] typeChanged /\ cancelType = "object" -> "cancelObject"
    [] typeChanged /\ cancelType = "property" -> "cancelProperty"
    [] typeChanged -> "need"
    [] KindOf(o.id) = "analog" -> "cancelProperty"
    [] OTHER -> o.cov

Changed(d) ==
  IF d.state = "read" THEN Result(d, <<>>)
  ELSE CancelIfNeed(
         [d EXCEPT !.handle = 0, !.disable = TRUE, !.sendNext = FALSE,
                   !.state = IF type = "none" THEN "cancel" ELSE "resubscribe",
                   !.objects = [k \in DOMAIN d.objects |->
                      [d.objects[k] EXCEPT !.cov = ToDo(d.objects[k])]]], type)

ApplyChange ==
  /\ WorkerRuns
  /\ (covChanged /\ type = "increment") \/ typeChanged
  /\ devices' = [i \in DOMAIN devices |-> Changed(devices[i]).dev]
  /\ net' = [i \in Place |->
               IF i \in DOMAIN devices
               THEN UnderWay(i, net[i] \o Changed(devices[i]).out) ELSE net[i]]
  /\ mixed' = [i \in Place |->
                 \/ mixed[i]
                 \/ i \in DOMAIN devices /\ devices[i].state # "read"
                      /\ net[i] # <<>>]
  /\ pc' = "clear"
  /\ UNCHANGED <<settings, pend, undefined, budget>>

(* ... and then takes the flags down, also if they were raised meanwhile.  *)
ClearFlags ==
  /\ undefined = "no" /\ pc = "clear"
  /\ typeChanged' = FALSE /\ covChanged' = FALSE /\ cancelType' = "none"
  /\ pc' = "loop"
  /\ UNCHANGED <<devices, type, pend, net, mixed, undefined, budget>>

-----------------------------------------------------------------------------
(* send_rpm_immediately and send_wpm_immediately, on the MQTT thread: the  *)
(* device is looked up, and the command queued for it (add_request).       *)

LookUp(i, op, c) ==
  /\ undefined = "no"
  /\ i \in DOMAIN devices
  /\ Spend("command")
  /\ pend' = pend \cup {[place |-> i, op |-> op, what |-> c, freed |-> FALSE]}
  /\ UNCHANGED <<devices, settings, pc, net, mixed, undefined>>

AddRequest(p) ==
  /\ undefined = "no" /\ ~p.freed
  /\ Len(devices[p.place].queue) < MaxQueue
  /\ devices' = [devices EXCEPT ![p.place].queue =
                   Append(@, Properties(devices[p.place].dev, p.op, p.what))]
  /\ pend' = pend \ {p}
  /\ UNCHANGED <<settings, pc, net, mixed, undefined, budget>>

(* The worker has freed the device in the meantime. *)
AddRequestToFreed(p) ==
  /\ undefined = "no" /\ p.freed
  /\ undefined' = "freed while looked up"
  /\ pend' = pend \ {p}
  /\ UNCHANGED <<devices, settings, pc, net, mixed, budget>>

-----------------------------------------------------------------------------
(* The steps of the worker while it handles answers and visits devices,    *)
(* but for those that publish something, which come first; then those of   *)
(* the network and of the MQTT thread.                                     *)
PublishingStep ==
  \/ \E i \in Place : \E k \in DOMAIN net[i] : RpmAnswer(i, k)
  \/ \E d \in Device : FoundWithRoom(d)
  \/ \E d \in Device, i \in Place : FoundEvicting(d, i)

QuietStep ==
  \/ \E i \in Place : \E k \in DOMAIN net[i] :
       \/ ReadAnswer(i, k) \/ SubscribeAnswer(i, k) \/ WpmAnswer(i, k)
       \/ Refusal(i, k) \/ NullAnswer(i, k) \/ StaleAnswer(i, k)
  \/ \E i \in DOMAIN devices, late, discover, due \in BOOLEAN :
       \E expired \in SUBSET DOMAIN devices[i].objects :
         Visit(i, late, discover, expired, due)
  \/ ApplyChange
  \/ Reset

ClearStep == ClearFlags

NetworkStep == \E i \in Place : \E k \in DOMAIN net[i] : Lose(i, k)

ArrivalStep ==
  \/ \E t \in SubscribeType : SetType(t)
  \/ SetIncrement
  \/ \E i \in Place, op \in {"rpm", "wpm"}, c \in Command : LookUp(i, op, c)

QueueingStep == \E p \in pend : AddRequest(p) \/ AddRequestToFreed(p)

OutsideStep == NetworkStep \/ ArrivalStep \/ QueueingStep

DeviceNext == PublishingStep \/ QuietStep \/ ClearStep \/ OutsideStep

DeviceSpec == DeviceInit /\ [][DeviceNext]_dvars

-----------------------------------------------------------------------------
(* Types of the variables. *)
Pending ==
  [place : Place, op : {"rpm", "wpm"}, what : Command, freed : BOOLEAN]

DeviceTypeOK ==
  /\ devices \in Seq(Entry) /\ Len(devices) <= MaxDevices
  /\ type \in SubscribeTypes /\ typeChanged \in BOOLEAN
  /\ covChanged \in BOOLEAN /\ cancelType \in {"none", "object", "property"}
  /\ pc \in {"loop", "clear"}
  /\ pend \subseteq Pending
  /\ net \in [Place -> Seq(Request)]
  /\ mixed \in [Place -> BOOLEAN]
  /\ undefined \in {"no", "null object", "freed device",
                     "freed while looked up"}
  /\ budget \in [Events -> Nat]

(* Whatever is answered, lost or changed, a device in the main loop is not *)
(* disabled (no visit would send its requests any more, and no time-out    *)
(* would wake it, business.c:627), a device that subscribes or cancels     *)
(* knows the object its last request was about (baclib.c:872 follows that  *)
(* pointer), and a device waiting for a new list still has to read it from *)
(* its start.                                                              *)
NeverStuck ==
  \A i \in DOMAIN devices :
    LET d == devices[i] IN
    /\ d.state = "main" => ~d.disable
    /\ d.handle <= Len(d.objects)
    /\ d.state \in {"subscribe", "cancel", "resubscribe"} => d.handle # 0
    /\ d.update => d.state = "read" /\ d.next = 0 /\ d.disable

(* An answer is taken for the answer to what was asked last.  That is so   *)
(* as long as no device at that place was disturbed (sent a request, given *)
(* a changed configuration, timed out, replaced) while a request was under *)
(* way: then at most one request is under way, and it is the one that the  *)
(* state of the device stands for.                                         *)
AskedLast(d, r) ==
  /\ r.to = d.dev
  /\ CASE d.state = "read" -> r.op = "read" /\ r.index = d.next
       [] d.state = "subscribe" -> r.op = "sub" /\ r.id = d.objects[d.handle].id
       [] d.state = "main" ->
            /\ ~d.sendNext
            /\ \/ r.op \in {"rpm", "wpm"}
               \/ /\ r.op = "sub" /\ d.handle # 0
                  /\ r.id = d.objects[d.handle].id
       [] OTHER -> r.op = "cancel" /\ r.id = d.objects[d.handle].id

AnswersMatch ==
  \A i \in DOMAIN devices :
    ~mixed[i] /\ net[i] # <<>> =>
      Len(net[i]) = 1 /\ AskedLast(devices[i], net[i][1])

(* And the gateway then knows each object of the device that it supports,  *)
(* once, in the order of the device's list, up to the element it reads.    *)
ListComplete ==
  \A i \in DOMAIN devices :
    LET d == devices[i]
        n == IF d.state = "read" THEN d.next - 1 ELSE Len(ObjectList[d.dev])
    IN ~mixed[i] /\ ~d.update =>
         /\ \A a, b \in DOMAIN d.objects :
              a < b => d.objects[a].id[2] < d.objects[b].id[2]
         /\ {d.objects[k].id : k \in DOMAIN d.objects} =
              {id \in Id : id[1] = d.dev /\ id[2] <= n /\ KindOf(id) # "other"}

(* Only answers that were mixed up make the worker follow a null pointer   *)
(* (baclib.c:884) or a pointer to a device it has freed (business.c:746).  *)
UndefinedOnlyIfMixed ==
  undefined \in {"null object", "freed device"} => \E i \in Place : mixed[i]

(* The queue of a device is first in, first out: a request leaves it at    *)
(* its head, one at a time, when it is sent, unless the subscriptions it   *)
(* is for were given up; or all leave it when a new list of objects begins *)
(* to arrive, or with the device.                                          *)
QueueKept(i) ==
  LET q == devices[i].queue
      r == devices'[i].queue
      kept(n) == \A k \in (n + 1)..Len(q) :
                   k - n \in DOMAIN r /\ r[k - n] = q[k]
      sent == \/ \E k \in DOMAIN net'[i] : net'[i][k] = Head(q)
              \/ ~Sendable(i) \/ Len(net'[i]) = MaxInFlight
              \/ Head(q).op = "sub" /\ type = "none"
  IN \/ kept(0)
     \/ kept(1) /\ sent
     \/ devices[i].update /\ ~devices'[i].update /\ r = <<>>
     \/ devices[i].dev # devices'[i].dev

CommandsKept ==
  [][\A i \in DOMAIN devices : devices' = <<>> \/ QueueKept(i)]_dvars
=============================================================================
