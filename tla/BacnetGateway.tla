---------------------------- MODULE BacnetGateway ----------------------------
(***************************************************************************)
(* The BACnet gateway: its worker (worker_func in business.c) connects to  *)
(* the cloud, visits the devices, handles their answers and publishes what *)
(* they say, one after the other in one thread.  While a message is being  *)
(* sent the devices wait; while there is no connection nobody listens to   *)
(* them.  The MQTT library's thread brings configurations and commands.    *)
(***************************************************************************)
EXTENDS BacnetDevice, BacnetLink

CONSTANT Scenarios  \* bound: what of the devices goes with which traffic

ASSUME GatewayAssumption == Scenarios \subseteq Budgets \X Traffic

vars == <<dvars, lvars>>

Init ==
  /\ DeviceInit /\ LinkInit
  /\ <<budget, left>> \in Scenarios

InLoop == phase = "loop"

(* What the gateway hears of the devices is handed to send_data; messages  *)
(* beyond the bound do not count.                                          *)
PublishIfAny == IF left.messages > 0 THEN Publish ELSE UNCHANGED lvars

Devices ==
  /\ InLoop
  /\ \/ PublishingStep /\ PublishIfAny
     \/ (QuietStep \/ ClearStep) /\ UNCHANGED lvars

(* A heartbeat is due, a device in the table answered who-is again or sent *)
(* a COV notification.                                                     *)
Report ==
  /\ WorkerRuns /\ Publish
  /\ UNCHANGED dvars

(* Configurations and commands come with a session; the network of the     *)
(* devices is independent of it.                                           *)
Outside ==
  /\ phase # "crashed"
  /\ \/ NetworkStep
     \/ session /\ ArrivalStep
     \/ QueueingStep
  /\ UNCHANGED lvars

Link ==
  /\ undefined = "no"
  /\ LinkWorker \/ LinkOutside
  /\ UNCHANGED dvars

Next == Devices \/ Report \/ Outside \/ Link

(* The worker goes on with its loop; the broker accepts a connection at    *)
(* last; connection_lost is called at last; for each device an answer      *)
(* comes, or else poll_interval elapses.                                   *)
Progress(i) ==
  \/ \E k \in DOMAIN net[i] :
       \/ ReadAnswer(i, k) /\ UNCHANGED lvars
       \/ SubscribeAnswer(i, k) /\ UNCHANGED lvars
       \/ WpmAnswer(i, k) /\ UNCHANGED lvars
       \/ Refusal(i, k) /\ UNCHANGED lvars
       \/ RpmAnswer(i, k) /\ PublishIfAny
  \/ i \in DOMAIN devices /\ Visit(i, TRUE, FALSE, {}, FALSE) /\ UNCHANGED lvars

Fairness ==
  /\ WF_vars(undefined = "no" /\ Connect /\ UNCHANGED dvars)
  /\ WF_vars(undefined = "no" /\ LinkWorker /\ UNCHANGED dvars)
  /\ WF_vars(undefined = "no" /\ ConnectionLost /\ UNCHANGED dvars)
  /\ WF_vars(InLoop /\ ClearFlags /\ UNCHANGED lvars)
  /\ \A i \in Place : WF_vars(InLoop /\ Progress(i))

SafetySpec == Init /\ [][Next]_vars
Spec == SafetySpec /\ Fairness

-----------------------------------------------------------------------------
TypeOK == DeviceTypeOK /\ LinkTypeOK

(* A null pointer or a freed device was used, or a mutex that does not     *)
(* exist was locked: nothing is promised any more.                         *)
Stopped == undefined # "no" \/ phase = "crashed"

(* A device that subscribes or cancels gets to its main loop, though all   *)
(* its answers may be refusals or lost, unless it reads its list again     *)
(* because of a late answer, or the worker stops.                          *)
At(i, states) == i \in DOMAIN devices /\ devices[i].state \in states

SubscriptionsSettle ==
  \A i \in Place :
    At(i, {"subscribe", "cancel", "resubscribe"}) ~>
      ~At(i, {"subscribe", "cancel", "resubscribe"}) \/ Stopped

(* A command queued for a device is sent, also over lost connections,      *)
(* unless the device is to read its list (a device that never answers then *)
(* keeps its queue for good) or the worker stops.                          *)
Queued(i, c) ==
  /\ i \in DOMAIN devices
  /\ \E k \in DOMAIN devices[i].queue :
       devices[i].queue[k].op # "sub" /\ devices[i].queue[k].what = c

CommandsAreSent ==
  \A i \in Place : \A c \in Command :
    Queued(i, c) ~> ~Queued(i, c) \/ At(i, {"read"}) \/ Stopped

(* "Connection lost, ... will reconnect later" (business.c:46): a session  *)
(* that is lost is replaced, unless the loss goes unnoticed, as it does    *)
(* when connection_lost ran before start_mqtt_client put the flag up       *)
(* (mqttutil.c:126), or the worker stops.                                  *)
Reconnects == ~session ~> session \/ Unnoticed \/ Stopped
=============================================================================
