---------------------------- MODULE ShadowClient ----------------------------
(***************************************************************************)
(* The device-management client (device_management.c): the application     *)
(* sends shadow requests and gives each a callback and a timeout.  A       *)
(* request waits in a slot of its client until the MQTT thread finds the   *)
(* reply to it, or the housekeeping thread finds that it timed out; that   *)
(* thread runs the callback, inside the lock of the slots, and then frees  *)
(* the slot.                                                               *)
(*                                                                         *)
(* The group of clients the housekeeper walks over has MaxClient places.   *)
(***************************************************************************)
EXTENDS Naturals

CONSTANTS
  Client,       \* clients the application may create
  Request,      \* requests the application may send, each has its own UUID
  Timeouts,     \* timeouts, in seconds, a request may have
  MaxClient,    \* MAX_CLIENT
  MaxInFlight,  \* MAX_IN_FLIGHT_MESSAGE
  None          \* no client, no request

ASSUME ShadowAssumption ==
  /\ MaxClient \in Nat \ {0} /\ MaxInFlight \in Nat \ {0}
  /\ Timeouts \subseteq Nat
  /\ None \notin Client /\ None \notin Request

VARIABLES
  life,     \* life[c]: not yet created, alive, or freed
  group,    \* allClients.members
  online,   \* online[c]: connected and subscribed
  vault,    \* vault[c]: c->messages.vault
  owner,    \* owner[r]: the client r was sent with (history)
  toSend,   \* requests that have a slot and are about to be published
  wire,     \* requests on their way to the server
  replies,  \* requests whose reply is on its way to the client
  keeper,   \* the housekeeping thread: where it is, at which member and slot
  mqtt,     \* the MQTT thread: idle, or in the callback of a slot
  calls,    \* calls[r]: how often the callback of r was run (history)
  ignored   \* requests to which a reply found no slot (history)

network == <<toSend, wire, replies>>
history == <<calls, ignored>>
vars == <<life, group, online, vault, owner, network, keeper, mqtt, history>>

Place == 1 .. MaxClient
Slot == 1 .. MaxInFlight

(* Age is counted up to one second more than the timeout.                  *)
Free == [req |-> None, age |-> 0, timeout |-> 0]

Asleep == [at |-> "sleep", place |-> 0, slot |-> 0]
Idle == [at |-> "idle", client |-> None, slot |-> 0]

Init ==
  /\ life = [c \in Client |-> "absent"]
  /\ group = [i \in Place |-> None]
  /\ online = [c \in Client |-> FALSE]
  /\ vault = [c \in Client |-> [s \in Slot |-> Free]]
  /\ owner = [r \in Request |-> None]
  /\ toSend = {} /\ wire = {} /\ replies = {}
  /\ keeper = Asleep
  /\ mqtt = Idle
  /\ calls = [r \in Request |-> 0]
  /\ ignored = {}

-----------------------------------------------------------------------------
(***************************************************************************)
(* Locks.  The housekeeper holds allClients.mutex while it walks over the  *)
(* group, and messages.mutex of a member while it looks at its slots; the  *)
(* MQTT thread holds messages.mutex of a client while it runs a callback.  *)
(***************************************************************************)
GroupLocked == keeper.at # "sleep"

KeeperIn(c) == keeper.at \in {"slots", "callback"} /\ group[keeper.place] = c

MqttIn(c) == mqtt.at = "callback" /\ mqtt.client = c

Lowest(S) == {i \in S : \A j \in S : i <= j}

-----------------------------------------------------------------------------
(* device_management_create.  The result of client_group_add is ignored:   *)
(* with the group full the client is created all the same.                 *)
Vacant == {i \in Place : group[i] = None}

Create(c) ==
  /\ life[c] = "absent"
  /\ ~GroupLocked
  /\ life' = [life EXCEPT ![c] = "alive"]
  /\ \/ Vacant = {} /\ UNCHANGED group
     \/ \E i \in Lowest(Vacant) : group' = [group EXCEPT ![i] = c]
  /\ UNCHANGED <<online, vault, owner, network, keeper, mqtt, history>>

(* device_management_destroy, in_flight requests and all.  The caller has  *)
(* no request with this client half sent.  Nothing keeps the MQTT thread   *)
(* from being in a callback of the client.                                 *)
Mine(R, c) == {r \in R : owner[r] = c}

\* Mutant: the client stays in the group.
DestroyLeavesMember(c) ==
  /\ life[c] = "alive"
  /\ ~GroupLocked
  /\ Mine(toSend, c) = {}
  /\ life' = [life EXCEPT ![c] = "freed"]
  /\ online' = [online EXCEPT ![c] = FALSE]
  /\ vault' = [vault EXCEPT ![c] = [s \in Slot |-> Free]]
  /\ wire' = wire \ Mine(wire, c) /\ replies' = replies \ Mine(replies, c)
  /\ UNCHANGED <<group, owner, toSend, keeper, mqtt, history>>

Destroy(c) ==
  /\ life[c] = "alive"
  /\ ~GroupLocked
  /\ Mine(toSend, c) = {}
  /\ life' = [life EXCEPT ![c] = "freed"]
  /\ group' = [i \in Place |-> IF group[i] = c THEN None ELSE group[i]]
  /\ online' = [online EXCEPT ![c] = FALSE]
  /\ vault' = [vault EXCEPT ![c] = [s \in Slot |-> Free]]
  /\ wire' = wire \ Mine(wire, c) /\ replies' = replies \ Mine(replies, c)
  /\ UNCHANGED <<owner, toSend, keeper, mqtt, history>>

(* The connection comes up with its subscriptions, and is lost.  Sessions  *)
(* are clean: what is under way is lost with the connection.               *)
Connected(c) ==
  /\ life[c] = "alive" /\ ~online[c]
  /\ online' = [online EXCEPT ![c] = TRUE]
  /\ UNCHANGED <<life, group, vault, owner, network, keeper, mqtt, history>>

ConnectionLost(c) ==
  /\ online[c]
  /\ online' = [online EXCEPT ![c] = FALSE]
  /\ wire' = wire \ Mine(wire, c) /\ replies' = replies \ Mine(replies, c)
  /\ UNCHANGED <<life, group, vault, owner, toSend, keeper, mqtt, history>>

-----------------------------------------------------------------------------
(***************************************************************************)
(* device_management_shadow_send: a slot first, in_flight_message_add,     *)
(* then the publication.  The lock is recursive: a callback may send with  *)
(* the client it is called for.                                            *)
(***************************************************************************)
FreeSlots(c) == {s \in Slot : vault[c][s].req = None}

\* Mutant: a slot is taken whether it is free or not.
AddToFirst(c, r, t) ==
  /\ owner[r] = None
  /\ life[c] = "alive" /\ online[c]
  /\ ~(keeper.at = "slots" /\ KeeperIn(c))
  /\ vault' = [vault EXCEPT ![c][1] = [req |-> r, age |-> 0, timeout |-> t]]
  /\ owner' = [owner EXCEPT ![r] = c]
  /\ toSend' = toSend \cup {r}
  /\ UNCHANGED <<life, group, online, wire, replies, keeper, mqtt, history>>

Add(c, r, t) ==
  /\ owner[r] = None
  /\ life[c] = "alive" /\ online[c]
  /\ ~(keeper.at = "slots" /\ KeeperIn(c))
  /\ \E s \in Lowest(FreeSlots(c)) :
       vault' = [vault EXCEPT ![c][s] = [req |-> r, age |-> 0, timeout |-> t]]
  /\ owner' = [owner EXCEPT ![r] = c]
  /\ toSend' = toSend \cup {r}
  /\ UNCHANGED <<life, group, online, wire, replies, keeper, mqtt, history>>

(* The result of MQTTAsync_sendMessage is ignored: a request that is not   *)
(* published keeps its slot until it times out.                            *)
Publish(r) ==
  /\ r \in toSend
  /\ toSend' = toSend \ {r}
  /\ wire' = IF online[owner[r]] THEN wire \cup {r} ELSE wire
  /\ UNCHANGED <<life, group, online, vault, owner, replies, keeper, mqtt, history>>

(* The server accepts or rejects a request.                                *)
ServerReplies(r) ==
  /\ r \in wire
  /\ wire' = wire \ {r}
  /\ replies' = replies \cup {r}
  /\ UNCHANGED <<life, group, online, vault, owner, toSend, keeper, mqtt, history>>

-----------------------------------------------------------------------------
(***************************************************************************)
(* mqtt_on_message_arrived, device_management_shadow_handle_response.  A   *)
(* reply may be delivered again (QoS 1).                                   *)
(***************************************************************************)
Deliver(r) ==
  /\ mqtt = Idle
  /\ r \in replies
  /\ ~KeeperIn(owner[r])
  /\ replies' \in {replies, replies \ {r}}

Waiting(r) == {s \in Slot : vault[owner[r]][s].req = r}

Match(r) ==
  /\ Deliver(r)
  /\ \E s \in Lowest(Waiting(r)) :
       mqtt' = [at |-> "callback", client |-> owner[r], slot |-> s]
  /\ calls' = [calls EXCEPT ![r] = @ + 1]
  /\ UNCHANGED <<life, group, online, vault, owner, toSend, wire, keeper, ignored>>

NoMatch(r) ==
  /\ Deliver(r)
  /\ Waiting(r) = {}
  /\ ignored' = ignored \cup {r}
  /\ UNCHANGED <<life, group, online, vault, owner, toSend, wire, keeper, mqtt, calls>>

Release(c, s) == [vault EXCEPT ![c][s] = Free]

\* Mutant: the slot of an answered request is not freed.
MqttReturnsKeepsSlot ==
  /\ mqtt.at = "callback"
  /\ mqtt' = Idle
  /\ UNCHANGED <<life, group, online, vault, owner, network, keeper, history>>

(* The callback returns.  If it, or another thread, destroyed the client   *)
(* in the meantime, the code marks a slot in freed memory.                 *)
MqttReturns ==
  /\ mqtt.at = "callback"
  /\ mqtt' = Idle
  /\ vault' = IF life[mqtt.client] = "alive" THEN Release(mqtt.client, mqtt.slot) ELSE vault
  /\ UNCHANGED <<life, group, online, owner, network, keeper, history>>

-----------------------------------------------------------------------------
(***************************************************************************)
(* in_flight_message_house_keep_proc: every second the housekeeper walks   *)
(* over the group and over the slots of each member.                       *)
(***************************************************************************)
\* Mutant: one place more than there are.
NextPlaceOneMore(k) ==
  IF k.place <= MaxClient
  THEN [at |-> "group", place |-> k.place + 1, slot |-> 0]
  ELSE Asleep

NextPlace(k) ==
  IF k.place < MaxClient
  THEN [at |-> "group", place |-> k.place + 1, slot |-> 0]
  ELSE Asleep

\* Mutant: the last slot is not looked at.
NextSlotSkipsLast(k) ==
  IF k.slot + 1 < MaxInFlight
  THEN [at |-> "slots", place |-> k.place, slot |-> k.slot + 1]
  ELSE NextPlace(k)

NextSlot(k) ==
  IF k.slot < MaxInFlight
  THEN [at |-> "slots", place |-> k.place, slot |-> k.slot + 1]
  ELSE NextPlace(k)

KeeperStarts ==
  /\ keeper = Asleep
  /\ keeper' = [at |-> "group", place |-> 1, slot |-> 0]
  /\ UNCHANGED <<life, group, online, vault, owner, network, mqtt, history>>

Member == group[keeper.place]

KeeperSkips ==
  /\ keeper.at = "group"
  /\ Member = None
  /\ keeper' = NextPlace(keeper)
  /\ UNCHANGED <<life, group, online, vault, owner, network, mqtt, history>>

KeeperEnters ==
  /\ keeper.at = "group"
  /\ Member # None
  /\ ~MqttIn(Member)
  /\ keeper' = [keeper EXCEPT !.at = "slots", !.slot = 1]
  /\ UNCHANGED <<life, group, online, vault, owner, network, mqtt, history>>

Entry == vault[Member][keeper.slot]

Expired(e) == e.req # None /\ e.age > e.timeout

KeeperPasses ==
  /\ keeper.at = "slots"
  /\ ~Expired(Entry)
  /\ keeper' = NextSlot(keeper)
  /\ UNCHANGED <<life, group, online, vault, owner, network, mqtt, history>>

KeeperExpires ==
  /\ keeper.at = "slots"
  /\ Expired(Entry)
  /\ calls' = [calls EXCEPT ![Entry.req] = @ + 1]
  /\ keeper' = [keeper EXCEPT !.at = "callback"]
  /\ UNCHANGED <<life, group, online, vault, owner, network, mqtt, ignored>>

KeeperReturns ==
  /\ keeper.at = "callback"
  /\ vault' = Release(Member, keeper.slot)
  /\ keeper' = NextSlot(keeper)
  /\ UNCHANGED <<life, group, online, owner, network, mqtt, history>>

(* A second passes.                                                        *)
Older(e) ==
  IF e.req # None /\ e.age <= e.timeout THEN [e EXCEPT !.age = @ + 1] ELSE e

Tick ==
  /\ vault' = [c \in Client |-> [s \in Slot |-> Older(vault[c][s])]]
  /\ UNCHANGED <<life, group, online, owner, network, keeper, mqtt, history>>

-----------------------------------------------------------------------------
Keeper ==
  \/ KeeperStarts \/ KeeperSkips \/ KeeperEnters
  \/ KeeperPasses \/ KeeperExpires \/ KeeperReturns

Next ==
  \/ \E c \in Client :
       \/ Create(c) \/ Destroy(c) \/ Connected(c) \/ ConnectionLost(c)
       \/ \E r \in Request, t \in Timeouts : Add(c, r, t)
  \/ \E r \in Request : Publish(r) \/ ServerReplies(r) \/ Match(r) \/ NoMatch(r)
  \/ MqttReturns
  \/ Keeper
  \/ Tick

Spec == Init /\ [][Next]_vars

(* Time passes, the housekeeping thread runs, and callbacks return.        *)
FairSpec == Spec /\ WF_vars(Tick) /\ WF_vars(Keeper) /\ WF_vars(MqttReturns)

-----------------------------------------------------------------------------
(***************************************************************************)
(* Properties.                                                             *)
(***************************************************************************)
Entries == [req : Request \cup {None}, age : Nat, timeout : Nat]

TypeOK ==
  /\ life \in [Client -> {"absent", "alive", "freed"}]
  /\ group \in [Place -> Client \cup {None}]
  /\ online \in [Client -> BOOLEAN]
  /\ vault \in [Client -> [Slot -> Entries]]
  /\ owner \in [Request -> Client \cup {None}]
  /\ toSend \subseteq Request /\ wire \subseteq Request /\ replies \subseteq Request
  /\ keeper \in [at : {"sleep"}, place : {0}, slot : {0}]
                \cup [at : {"group"}, place : Place, slot : {0}]
                \cup [at : {"slots", "callback"}, place : Place, slot : Slot]
  /\ mqtt \in {Idle} \cup [at : {"callback"}, client : Client, slot : Slot]
  /\ calls \in [Request -> Nat]
  /\ ignored \subseteq Request

(* The callback of a request runs at most once: a reply that races the     *)
(* timeout, comes late or comes twice does not run it again.               *)
CalledAtMostOnce == \A r \in Request : calls[r] <= 1

InCallback(c, s) ==
  \/ KeeperIn(c) /\ keeper.at = "callback" /\ keeper.slot = s
  \/ MqttIn(c) /\ mqtt.slot = s

(* A request keeps a slot of its client, and only one, exactly until its   *)
(* callback has run: none is forgotten, and none is answered and kept.     *)
Holds(c, s, r) == vault[c][s].req = r /\ ~InCallback(c, s)

SlotUntilAnswered ==
  \A r \in Request : owner[r] # None /\ life[owner[r]] = "alive" =>
    /\ calls[r] = 0 <=> \E s \in Slot : Holds(owner[r], s, r)
    /\ \A c \in Client, s, t \in Slot :
         vault[owner[r]][s].req = r /\ vault[c][t].req = r => c = owner[r] /\ t = s

(* A reply finds no slot only if the request was answered before: it is    *)
(* the second reply, or it came after the timeout.                         *)
OnlyLateRepliesIgnored == \A r \in ignored : calls[r] > 0

(* The housekeeper never touches a client that was freed, and never looks  *)
(* at the slots of a client whose reply is being handled.                  *)
KeeperIsSafe ==
  /\ keeper.at \in {"slots", "callback"} => Member \in Client /\ ~MqttIn(Member)
  /\ \A i \in Place : group[i] # None => life[group[i]] = "alive"

(* Why: who is in a callback, what holds a slot, and what a request that   *)
(* is somewhere on its way has in common with its client.                  *)
ThreadInv ==
  /\ keeper.at = "callback" => Entry.req # None
  /\ mqtt.at = "callback" =>
       /\ life[mqtt.client] # "absent"
       /\ life[mqtt.client] = "alive" => vault[mqtt.client][mqtt.slot].req # None

SlotInv ==
  \A c \in Client, s \in Slot : vault[c][s].req # None =>
    /\ life[c] = "alive"
    /\ owner[vault[c][s].req] = c
    /\ calls[vault[c][s].req] = IF InCallback(c, s) THEN 1 ELSE 0
    /\ \A t \in Slot : vault[c][t].req = vault[c][s].req => t = s

RequestInv ==
  \A r \in Request :
    /\ IF owner[r] = None THEN calls[r] = 0 ELSE life[owner[r]] # "absent"
    /\ r \in toSend \cup wire \cup replies => owner[r] # None /\ life[owner[r]] = "alive"
    /\ owner[r] # None /\ life[owner[r]] = "alive" =>
         calls[r] > 0 \/ \E s \in Slot : vault[owner[r]][s].req = r

ShadowInv ==
  /\ TypeOK /\ CalledAtMostOnce /\ OnlyLateRepliesIgnored /\ KeeperIsSafe
  /\ ThreadInv /\ SlotInv /\ RequestInv

(* "the callback after an ACK or a timeout" (device_management.h): the     *)
(* callback of a request sent with a member of the group does run.         *)
Done(r) == calls[r] > 0 \/ \E c \in Client : owner[r] = c /\ life[c] = "freed"

Watched(r) == \E i \in Place : group[i] # None /\ group[i] = owner[r]

EveryWatchedRequestEnds == \A r \in Request : Watched(r) ~> Done(r)

(* The same of every request, as device_management.h says it.              *)
EveryRequestEnds == \A r \in Request : owner[r] # None ~> Done(r)
=============================================================================
