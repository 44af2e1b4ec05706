------------------------------ MODULE BacnetLink ------------------------------
(***************************************************************************)
(* The BACnet gateway's connection to the cloud (mqttutil.c, and the head  *)
(* of the worker's loop in business.c).  The worker connects when the flag *)
(* g_gateway_connected is down.  It publishes what the devices report, and *)
(* keeps it in a ring buffer while there is no session, to send it after   *)
(* the next message that could be sent.  The MQTT library calls            *)
(* connection_lost from a thread of its own.                               *)
(***************************************************************************)
EXTENDS Naturals, Sequences

CONSTANTS
  Size,         \* MSG_BUF_SIZE
  None,         \* no message
  MaxMessages,  \* bound: messages published in any behaviour
  Traffic       \* bound: how many messages a behaviour publishes and how
                \* many sessions it loses

ASSUME LinkAssumption ==
  /\ Size \in Nat \ {0}
  /\ MaxMessages \in Nat /\ None \notin Nat
  /\ Traffic \subseteq [messages : 0..MaxMessages, drops : Nat]

VARIABLES
  session,     \* the MQTT client has a session with the broker
  lost,        \* connection_lost is about to be called
  connected,   \* g_gateway_connected
  phase,       \* where the worker is: in the rest of its loop ("loop"), at
               \* its head without a connection ("down"), connected but
               \* still subscribing, between the test of the session and the
               \* publish ("sending"), sending what was cached ("draining"),
               \* or stopped by a signal ("crashed")
  current,     \* the message send_data was called with
  ring,        \* g_data_to_send
  head, size,  \* g_buff_head, g_buff_size
  count,       \* messages published so far; they are numbered
  delivered,   \* the messages sent, in that order (history)
  overwritten, \* the messages that gave way in the ring (history)
  putBack,     \* a cached message could not be sent (history)
  raced,       \* connection_lost was called before the flag went up (history)
  left         \* messages and losses of the session that are left

buffer == <<ring, head, size, overwritten>>
lvars == <<session, lost, connected, phase, current, buffer, count, delivered,
           putBack, raced, left>>

Message == 1..MaxMessages

LinkInit ==
  /\ session = FALSE /\ lost = FALSE /\ connected = FALSE
  /\ phase = "down" /\ current = None
  /\ ring = [i \in 0..(Size - 1) |-> None]
  /\ head = 0 /\ size = 0
  /\ count = 0
  /\ delivered = <<>> /\ overwritten = {}
  /\ putBack = FALSE /\ raced = FALSE
  /\ left \in Traffic

-----------------------------------------------------------------------------
(* put_buff_data and get_buff_data *)

IsFullTooEarly == size >= Size - 1   \* mutant

IsFull == size >= Size
IsEmpty == size <= 0
Last == (size + head) % Size

\* Mutant: the head stays when the ring is full.
PutBuffDataKeepsHead(m) ==
  /\ ring' = [ring EXCEPT ![Last] = m]
  /\ IF IsFull
     THEN overwritten' = overwritten \cup {ring[Last]} /\ UNCHANGED size
     ELSE size' = size + 1 /\ UNCHANGED overwritten
  /\ UNCHANGED head

PutBuffData(m) ==
  /\ ring' = [ring EXCEPT ![Last] = m]
  /\ IF IsFull
     THEN /\ head' = (head + 1) % Size
          /\ size' = Size
          /\ overwritten' = overwritten \cup {ring[Last]}
     ELSE /\ size' = size + 1
          /\ UNCHANGED <<head, overwritten>>

\* Mutant: the head runs off the ring.
GetBuffDataUnwrapped ==
  /\ head' = head + 1
  /\ size' = size - 1
  /\ UNCHANGED <<ring, overwritten>>

GetBuffData ==
  /\ head' = (head + 1) % Size
  /\ size' = size - 1
  /\ UNCHANGED <<ring, overwritten>>

-----------------------------------------------------------------------------
(* start_mqtt_client, at the head of the worker's loop *)

Connect ==
  /\ phase \in {"loop", "down"} /\ ~connected
  /\ session' = TRUE
  /\ phase' = "subscribing"
  /\ UNCHANGED <<lost, connected, current, buffer, count, delivered, putBack,
                 raced, left>>

ConnectFails ==
  /\ phase \in {"loop", "down"} /\ ~connected
  /\ phase' = "down"
  /\ UNCHANGED <<session, lost, connected, current, buffer, count, delivered,
                 putBack, raced, left>>

(* The flag goes up after two calls to MQTTClient_subscribe, whatever has  *)
(* become of the session.                                                  *)
Subscribed2Topics ==
  /\ phase = "subscribing"
  /\ connected' = TRUE
  /\ phase' = "loop"
  /\ UNCHANGED <<session, lost, current, buffer, count, delivered, putBack,
                 raced, left>>

(* send_data is called with a new message. *)
Publish ==
  /\ phase = "loop" /\ left.messages > 0
  /\ left' = [left EXCEPT !.messages = @ - 1]
  /\ count' = count + 1
  /\ IF session
     THEN /\ phase' = "sending" /\ current' = count + 1
          /\ UNCHANGED buffer
     ELSE /\ PutBuffData(count + 1)
          /\ UNCHANGED <<phase, current>>
  /\ UNCHANGED <<session, lost, connected, delivered, putBack, raced>>

(* send_message for the new message ... *)
SendNew ==
  /\ phase = "sending" /\ session
  /\ delivered' = Append(delivered, current)
  /\ phase' = "draining" /\ current' = None
  /\ UNCHANGED <<session, lost, connected, buffer, count, putBack, raced, left>>

(* ... which fails: after caching the message send_data locks              *)
(* g_gateway_mutex, which nothing ever creates.                            *)
SendNewFails ==
  /\ phase = "sending" /\ ~session
  /\ connected' = FALSE
  /\ PutBuffData(current)
  /\ phase' = "crashed" /\ current' = None
  /\ UNCHANGED <<session, lost, count, delivered, putBack, raced, left>>

(* ... and for the cached ones *)
SendCached ==
  /\ phase = "draining" /\ session /\ ~IsEmpty
  /\ delivered' = Append(delivered, ring[head])
  /\ GetBuffData
  /\ UNCHANGED <<session, lost, connected, phase, current, count, putBack,
                 raced, left>>

\* Mutant: it is forgotten.
SendCachedFailsForgets ==
  /\ phase = "draining" /\ ~session /\ ~IsEmpty
  /\ connected' = FALSE
  /\ GetBuffData
  /\ phase' = "loop"
  /\ UNCHANGED <<session, lost, current, count, delivered, putBack, raced,
                 left>>

(* A cached message that cannot be sent goes to the end of the ring.       *)
SendCachedFails ==
  /\ phase = "draining" /\ ~session /\ ~IsEmpty
  /\ connected' = FALSE
  /\ ring' = [ring EXCEPT ![(size - 1 + ((head + 1) % Size)) % Size] = ring[head]]
  /\ head' = (head + 1) % Size
  /\ phase' = "loop"
  /\ putBack' = TRUE
  /\ UNCHANGED <<session, lost, current, size, overwritten, count, delivered,
                 raced, left>>

Drained ==
  /\ phase = "draining" /\ IsEmpty
  /\ phase' = "loop"
  /\ UNCHANGED <<session, lost, connected, current, buffer, count, delivered,
                 putBack, raced, left>>

-----------------------------------------------------------------------------
(* The broker or the network ends the session; the library then calls      *)
(* connection_lost, which takes no lock.                                   *)

LoseSession ==
  /\ session /\ left.drops > 0
  /\ session' = FALSE /\ lost' = TRUE
  /\ left' = [left EXCEPT !.drops = @ - 1]
  /\ UNCHANGED <<connected, phase, current, buffer, count, delivered, putBack, raced>>

\* Mutant: the flag stays up.
ConnectionLostKeepsFlag ==
  /\ lost
  /\ lost' = FALSE
  /\ UNCHANGED <<session, connected, phase, current, buffer, count, delivered,
                 putBack, raced, left>>

ConnectionLost ==
  /\ lost
  /\ lost' = FALSE /\ connected' = FALSE
  /\ raced' = (raced \/ phase = "subscribing")
  /\ UNCHANGED <<session, phase, current, buffer, count, delivered, putBack,
                 left>>

LinkWorker ==
  \/ Connect \/ ConnectFails \/ Subscribed2Topics
  \/ SendNew \/ SendNewFails \/ SendCached \/ SendCachedFails \/ Drained

LinkOutside == phase # "crashed" /\ (LoseSession \/ ConnectionLost)

LinkNext == Publish \/ LinkWorker \/ LinkOutside

LinkSpec == LinkInit /\ [][LinkNext]_lvars

-----------------------------------------------------------------------------
LinkTypeOK ==
  /\ session \in BOOLEAN /\ lost \in BOOLEAN /\ connected \in BOOLEAN
  /\ phase \in {"loop", "down", "subscribing", "sending", "draining", "crashed"}
  /\ current \in Message \cup {None} /\ (current = None <=> phase # "sending")
  /\ ring \in [0..(Size - 1) -> Message \cup {None}]
  /\ head \in 0..(Size - 1) /\ size \in 0..Size
  /\ count \in 0..MaxMessages
  /\ delivered \in Seq(Message) /\ overwritten \subseteq Message
  /\ putBack \in BOOLEAN /\ raced \in BOOLEAN
  /\ left \in [messages : Nat, drops : Nat]
  /\ count + left.messages <= MaxMessages

Cached == [n \in 1..size |-> ring[(head + n - 1) % Size]]

(* The ring is a queue that forgets its oldest message when it is full,    *)
(* wherever its head is.                                                   *)
Cache == INSTANCE BacnetCache WITH queue <- Cached
CacheIsFifo == Cache!Spec

(* A message handed to send_data was sent, is in the cache, gave way to a  *)
(* newer one in a full cache, or is being sent: one of the four, and once. *)
NothingLost ==
  LET sent == {delivered[n] : n \in DOMAIN delivered}
      kept == {Cached[n] : n \in DOMAIN Cached}
      now == {current} \ {None}
  IN /\ 1..count = sent \cup kept \cup overwritten \cup now
     /\ sent \cap (kept \cup overwritten \cup now) = {}
     /\ kept \cap (overwritten \cup now) = {} /\ overwritten \cap now = {}
     /\ \A m, n \in DOMAIN delivered : m # n => delivered[m] # delivered[n]
     /\ \A m, n \in DOMAIN Cached : m # n => Cached[m] # Cached[n]

(* The cache is in the order of publication, and everything in it is older *)
(* than the message being sent, as long as no cached message had to be put *)
(* back.                                                                   *)
CachedInOrder ==
  ~putBack =>
    /\ \A m, n \in DOMAIN Cached : m < n => Cached[m] < Cached[n]
    /\ \A n \in DOMAIN Cached : current # None => Cached[n] < current

(* The flag is up, there is no session, and nobody will take it down:      *)
(* connection_lost was called before the flag went up.                     *)
Unnoticed == raced /\ connected /\ ~session /\ ~lost
=============================================================================
