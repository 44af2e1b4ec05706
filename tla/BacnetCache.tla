----------------------------- MODULE BacnetCache -----------------------------
(***************************************************************************)
(* What the BACnet gateway's cache of unsent messages (mqttutil.c) is to   *)
(* be: a queue of at most Size messages, in the order in which they were   *)
(* put, that forgets its oldest message to make room for a new one.        *)
(***************************************************************************)
EXTENDS Naturals, Sequences

CONSTANTS Message, Size

VARIABLE queue

Init == queue = <<>>

Put(m) ==
  queue' = Append(IF Len(queue) < Size THEN queue ELSE Tail(queue), m)

Take ==
  /\ queue # <<>>
  /\ queue' = Tail(queue)

(* A message that could not be sent after all is put back, at the end.     *)
PutBack ==
  /\ queue # <<>>
  /\ queue' = Append(Tail(queue), Head(queue))

Spec == Init /\ [][Take \/ PutBack \/ \E m \in Message : Put(m)]_queue
=============================================================================
