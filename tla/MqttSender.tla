----------------------------- MODULE MqttSender -----------------------------
(***************************************************************************)
(* The MQTT sender of the Modbus gateway (mqttsender.c): application       *)
(* threads append messages to a queue, one worker thread delivers them,    *)
(* and while a broker cannot be reached the messages wait in the offline   *)
(* cache, a file.                                                          *)
(*                                                                         *)
(* The cache is CacheFifo, which RingBuFi is shown to implement when the   *)
(* records have one length.  A broker here is an endpoint and a user.      *)
(***************************************************************************)
EXTENDS Naturals, Sequences

CONSTANTS
  Broker,       \* pairs of an endpoint and a user
  Passwords,    \* Passwords[b]: passwords that come with a message for b
  Capacity,     \* records the cache file has room for
  MaxMsgs,      \* bound: messages accepted in a behaviour
  MaxRestarts   \* bound: restarts of the gateway in a behaviour

ASSUME CapacityAssumption == Capacity \in Nat \ {0}

VARIABLES
  incoming,   \* sender->incomingQueue
  taken,      \* the messages being moved from incoming to the cache
  cache,      \* sender->ringbuf
  sending,    \* the worker's sendingQueue
  conn,       \* conn[b]: the client of b in sender->mqttClients
  bad,        \* sender->badBrokers
  pc,         \* where the worker is in its loop
  up,         \* up[b]: broker b can be reached (environment)
  granted,    \* granted[b]: the password broker b accepts (environment)
  count,      \* messages accepted so far (history)
  lastRecv,   \* number of the last message a broker received (history)
  lastAck,    \* number of the last message a broker confirmed (history)
  restarts    \* restarts so far

queues == <<incoming, taken, cache, sending>>
links == <<conn, bad>>
history == <<count, lastAck, restarts>>
brokers == <<up, granted>>
vars == <<queues, links, pc, brokers, lastRecv, history>>

Password == UNION {Passwords[b] : b \in Broker}

Message == [num : Nat, broker : Broker, pwd : Password]

Fifo == INSTANCE CacheFifo WITH Record <- Message

Init ==
  /\ incoming = << >>
  /\ taken = << >>
  /\ Fifo!Init
  /\ sending = << >>
  /\ conn = [b \in Broker |-> "none"]
  /\ bad = {}
  /\ pc = "top"
  /\ up = [b \in Broker |-> TRUE]
  /\ granted \in {g \in [Broker -> Password] : \A b \in Broker : g[b] \in Passwords[b]}
  /\ count = 0
  /\ lastRecv = 0
  /\ lastAck = 0
  /\ restarts = 0

-----------------------------------------------------------------------------
(***************************************************************************)
(* isKnownBadBroker.  strcmp returns 0 for equal strings, and the code     *)
(* takes its result for the password as it is: a refused password makes    *)
(* every other password of that broker a known bad one.                    *)
(***************************************************************************)
KnownBad(b, p) == \E e \in bad : e.broker = b /\ e.pwd # p

(* mqtt_send.  A message of a known bad broker is rejected.                *)
Accept(b, p) ==
  /\ count < MaxMsgs
  /\ ~KnownBad(b, p)
  /\ count' = count + 1
  /\ incoming' = Append(incoming, [num |-> count + 1, broker |-> b, pwd |-> p])
  /\ UNCHANGED <<taken, cache, sending, links, pc, brokers, lastRecv, lastAck, restarts>>

-----------------------------------------------------------------------------
(***************************************************************************)
(* The worker.  pc = "top": head of the loop; "flush": inside              *)
(* flushIncomingQueueToFile; "fetch": about to read the cache; "send": a   *)
(* message is to be sent; "publish": its client is connected.              *)
(***************************************************************************)
\* Mutant: the incoming queue may by-pass a cache that is not empty.
HasWorkIgnoringCache == sending # << >>

HasWork == sending # << >> \/ ~Fifo!IsEmpty(cache)

AfterFlush == IF sending # << >> THEN "send" ELSE "fetch"

(* The worker takes the whole incoming queue under the lock.               *)
FlushBegin ==
  /\ pc = "top" /\ HasWork
  /\ IF incoming = << >> THEN pc' = AfterFlush ELSE pc' = "flush"
  /\ taken' = incoming
  /\ incoming' = << >>
  /\ UNCHANGED <<cache, sending, links, brokers, lastRecv, history>>

FlushPut ==
  /\ pc = "flush"
  /\ Fifo!Put(Head(taken))
  /\ taken' = Tail(taken)
  /\ pc' = IF Len(taken) = 1 THEN AfterFlush ELSE "flush"
  /\ UNCHANGED <<incoming, sending, links, brokers, lastRecv, history>>

(* peekRingBuFiRecord, popRingBuFiRecord: the pop does not depend on the   *)
(* outcome of the peek.                                                    *)
Fetch ==
  /\ pc = "fetch"
  /\ sending' = IF Fifo!Readable(cache) THEN <<Head(cache.recs)>> ELSE << >>
  /\ Fifo!Pop
  /\ pc' = IF Fifo!Readable(cache) THEN "send" ELSE "top"
  /\ UNCHANGED <<incoming, taken, links, brokers, lastRecv, history>>

(* With nothing to send and nothing cached the file is by-passed.          *)
TakeIncoming ==
  /\ pc = "top" /\ ~HasWork
  /\ incoming # << >>
  /\ sending' = incoming
  /\ incoming' = << >>
  /\ pc' = "send"
  /\ UNCHANGED <<taken, cache, links, brokers, lastRecv, history>>

Msg == Head(sending)

Discard ==
  /\ pc = "send"
  /\ KnownBad(Msg.broker, Msg.pwd)
  /\ sending' = Tail(sending)
  /\ pc' = "top"
  /\ UNCHANGED <<incoming, taken, cache, links, brokers, lastRecv, history>>

(* findExistingClient compares the endpoint and the user, not the password.*)
UseClient ==
  /\ pc = "send"
  /\ ~KnownBad(Msg.broker, Msg.pwd)
  /\ conn[Msg.broker] # "none"
  /\ pc' = "publish"
  /\ UNCHANGED <<queues, links, brokers, lastRecv, history>>

Connecting ==
  /\ pc = "send"
  /\ ~KnownBad(Msg.broker, Msg.pwd)
  /\ conn[Msg.broker] = "none"

Connect ==
  /\ Connecting
  /\ up[Msg.broker] /\ Msg.pwd = granted[Msg.broker]
  /\ conn' = [conn EXCEPT ![Msg.broker] = "live"]
  /\ pc' = "publish"
  /\ UNCHANGED <<queues, bad, brokers, lastRecv, history>>

ConnectRefused ==
  /\ Connecting
  /\ up[Msg.broker] /\ Msg.pwd # granted[Msg.broker]
  /\ bad' = bad \cup {[broker |-> Msg.broker, pwd |-> Msg.pwd]}
  /\ pc' = "top"
  /\ UNCHANGED <<queues, conn, brokers, lastRecv, history>>

ConnectFails ==
  /\ Connecting
  /\ ~up[Msg.broker]
  /\ pc' = "top"
  /\ UNCHANGED <<queues, links, brokers, lastRecv, history>>

(* Publish and the wait for its acknowledgement both succeed.              *)
Publish ==
  /\ pc = "publish"
  /\ conn[Msg.broker] = "live" /\ up[Msg.broker]
  /\ sending' = Tail(sending)
  /\ lastRecv' = Msg.num
  /\ lastAck' = Msg.num
  /\ pc' = "top"
  /\ UNCHANGED <<incoming, taken, cache, links, brokers, count, restarts>>

\* Mutant: what was not acknowledged goes to the end of the queue.
RequeueOnTimeout ==
  /\ pc = "publish"
  /\ conn[Msg.broker] = "live" /\ ~up[Msg.broker]
  /\ lastRecv' \in {lastRecv, Msg.num}
  /\ sending' = Tail(sending)
  /\ incoming' = Append(incoming, Msg)
  /\ pc' = "top"
  /\ UNCHANGED <<taken, cache, links, brokers, history>>

\* Mutant: what was not acknowledged is given up.
DropOnTimeout ==
  /\ pc = "publish"
  /\ conn[Msg.broker] = "live" /\ ~up[Msg.broker]
  /\ lastRecv' \in {lastRecv, Msg.num}
  /\ sending' = Tail(sending)
  /\ pc' = "top"
  /\ UNCHANGED <<incoming, taken, cache, links, brokers, history>>

(* The broker went away and the client has not noticed: no acknowledgement *)
(* within 10 seconds, whether or not the broker got the message.           *)
PublishTimeout ==
  /\ pc = "publish"
  /\ conn[Msg.broker] = "live" /\ ~up[Msg.broker]
  /\ lastRecv' \in {lastRecv, Msg.num}
  /\ pc' = "top"
  /\ UNCHANGED <<queues, links, brokers, history>>

\* Mutant: the client that lost its connection is used again.
PublishFailsKeepsClient ==
  /\ pc = "publish"
  /\ conn[Msg.broker] = "stale"
  /\ pc' = "top"
  /\ UNCHANGED <<queues, links, brokers, lastRecv, history>>

PublishFails ==
  /\ pc = "publish"
  /\ conn[Msg.broker] = "stale"
  /\ conn' = [conn EXCEPT ![Msg.broker] = "none"]
  /\ pc' = "top"
  /\ UNCHANGED <<queues, bad, brokers, lastRecv, history>>

Worker ==
  \/ FlushBegin \/ FlushPut \/ Fetch \/ TakeIncoming
  \/ Discard \/ UseClient
  \/ Connect \/ ConnectRefused \/ ConnectFails
  \/ Publish \/ PublishTimeout \/ PublishFails

-----------------------------------------------------------------------------
(***************************************************************************)
(* The environment: brokers come and go, a client notices that its         *)
(* connection is lost, the gateway is restarted.                           *)
(***************************************************************************)
LinkDown(b) ==
  /\ up[b]
  /\ up' = [up EXCEPT ![b] = FALSE]
  /\ UNCHANGED <<queues, links, pc, granted, lastRecv, history>>

LinkUp(b) ==
  /\ ~up[b]
  /\ up' = [up EXCEPT ![b] = TRUE]
  /\ UNCHANGED <<queues, links, pc, granted, lastRecv, history>>

(* The password is changed at the broker.                                  *)
Grant(b, p) ==
  /\ granted' = [granted EXCEPT ![b] = p]
  /\ UNCHANGED <<queues, links, pc, up, lastRecv, history>>

ConnectionLost(b) ==
  /\ ~up[b] /\ conn[b] = "live"
  /\ conn' = [conn EXCEPT ![b] = "stale"]
  /\ UNCHANGED <<queues, bad, pc, brokers, lastRecv, history>>

(* Only the cache survives.  (RingBuFi models a crash inside one of its    *)
(* operations; here the gateway is restarted between two of them.)         *)
Restart ==
  /\ restarts < MaxRestarts
  /\ restarts' = restarts + 1
  /\ incoming' = << >> /\ taken' = << >> /\ sending' = << >>
  /\ conn' = [b \in Broker |-> "none"]
  /\ bad' = {}
  /\ pc' = "top"
  /\ UNCHANGED <<cache, brokers, count, lastRecv, lastAck>>

Next ==
  \/ \E b \in Broker : \E p \in Passwords[b] : Accept(b, p)
  \/ Worker
  \/ \E b \in Broker : LinkDown(b) \/ LinkUp(b) \/ ConnectionLost(b)
  \/ \E b \in Broker : \E p \in Passwords[b] : Grant(b, p)
  \/ Restart

Spec == Init /\ [][Next]_vars

(* The worker thread keeps running; nothing is promised about the links.   *)
FairSpec == Spec /\ WF_vars(Worker)

-----------------------------------------------------------------------------
(***************************************************************************)
(* Properties.                                                             *)
(***************************************************************************)
TypeOK ==
  /\ incoming \in Seq(Message)
  /\ taken \in Seq(Message)
  /\ cache \in Fifo!Cache
  /\ sending \in Seq(Message)
  /\ conn \in [Broker -> {"none", "live", "stale"}]
  /\ bad \subseteq [broker : Broker, pwd : Password]
  /\ pc \in {"top", "flush", "fetch", "send", "publish"}
  /\ up \in [Broker -> BOOLEAN]
  /\ granted \in [Broker -> Password]
  /\ count \in Nat
  /\ lastRecv \in Nat
  /\ lastAck \in Nat
  /\ restarts \in Nat

Elements(s) == {s[i] : i \in DOMAIN s}

InFlight ==
  Elements(sending) \cup Elements(cache.recs) \cup Elements(taken) \cup Elements(incoming)

(* Every queue is in the order the messages were accepted in, and what is  *)
(* in an earlier queue was accepted before what is in a later one: no      *)
(* message is in two queues, and none can overtake another.                *)
Increasing(s) == \A i, j \in 1 .. Len(s) : i < j => s[i].num < s[j].num

Before(s, t) ==
  \A i \in 1 .. Len(s), j \in 1 .. Len(t) : s[i].num < t[j].num

PipelineOrdered ==
  /\ Increasing(sending) /\ Increasing(cache.recs)
  /\ Increasing(taken) /\ Increasing(incoming)
  /\ Before(sending, cache.recs) /\ Before(sending, taken) /\ Before(sending, incoming)
  /\ Before(cache.recs, taken) /\ Before(cache.recs, incoming)
  /\ Before(taken, incoming)

(* Why the orders survive: numbers above count are not in use, no queue    *)
(* holds a message older than one a broker has received, and the worker    *)
(* holds a message exactly where its code relies on one.                   *)
Within(s, lo, hi) == \A i \in 1 .. Len(s) : lo <= s[i].num /\ s[i].num <= hi

NumbersBounded ==
  /\ lastRecv <= count
  /\ Within(sending, lastRecv, count) /\ Within(cache.recs, lastRecv, count)
  /\ Within(taken, lastRecv, count) /\ Within(incoming, lastRecv, count)

WorkerPhase ==
  /\ pc = "flush" <=> taken # << >>
  /\ pc \in {"send", "publish"} => sending # << >>
  /\ pc = "fetch" => sending = << >>

SenderInv == TypeOK /\ PipelineOrdered /\ NumbersBounded /\ WorkerPhase

(* "order will be reserved" (mqttsender.h): brokers receive the messages   *)
(* in the order mqtt_send accepted them, over outages, retries and         *)
(* restarts.  A message may be received twice, never after a younger one.  *)
OrderReserved == [][lastRecv' >= lastRecv]_vars

(* Below its capacity the sender loses nothing: a message leaves it        *)
(* undelivered only when the cache is full, when its broker is taken for a *)
(* bad one, or with the memory of a restarted gateway.                     *)
LossOnlyWhenFull ==
  [][ \A m \in InFlight \ InFlight' :
        \/ m.num = lastAck'
        \/ Fifo!IsFull(cache)
        \/ KnownBad(m.broker, m.pwd)
        \/ restarts' # restarts /\ m \notin Elements(cache.recs) ]_vars

(* Once every broker stays reachable the backlog drains, provided no       *)
(* message carries a password its broker refuses.                          *)
AllUp == \A b \in Broker : up[b]
AllAccepted == \A m \in InFlight : m.pwd = granted[m.broker]

BacklogDrains == (<>[]AllUp /\ []AllAccepted) => []<>(InFlight = {})

(* "data will be cached if mqtt connection is disconnected" (mqttsender.h):*)
(* what leaves the cache is on its way to the broker, or had to make room  *)
(* for a younger message.                                                  *)
CachedIsSent ==
  [][ Elements(cache.recs) \subseteq
        Elements(cache'.recs) \cup Elements(sending') \/ pc = "flush" ]_vars

(* "it's known bad broker?  discord this message and continue": once a     *)
(* broker has refused a user's password, a message that carries it is      *)
(* thrown away, and the messages behind it get their turn.                 *)
Refused(m) == [broker |-> m.broker, pwd |-> m.pwd] \in bad

RefusedIsDiscarded ==
  [][ pc = "send" /\ Refused(Msg) /\ pc' = "top" =>
        sending' = Tail(sending) \/ restarts' # restarts ]_vars
=============================================================================
