----------------------------- MODULE CacheFifo -----------------------------
(***************************************************************************)
(* What the offline cache of the Modbus gateway promises to its only       *)
(* client, the MQTT sender, as long as every record has the same length: a *)
(* FIFO of at most Capacity records that forgets the oldest record when a  *)
(* put finds it full.  RingBuFi is the file that implements it, MqttSender *)
(* the client that uses it.                                                *)
(*                                                                         *)
(* One detail of the file shows through, and is kept here: where in the    *)
(* file the oldest record lies.  A full cache whose oldest record is not   *)
(* at the start of the file cannot be read (see Readable).                 *)
(***************************************************************************)
EXTENDS Naturals, Sequences

CONSTANTS
  Record,    \* the records a client may put
  Capacity   \* number of records the file has room for

VARIABLE
  cache      \* the records, oldest first, and the slot of the oldest one

Cache == [recs : Seq(Record), slot : 0 .. Capacity - 1]

(* A file whose metadata and records no longer belong together; it is not  *)
(* a member of Cache and nothing is promised about it.                     *)
Broken == [recs |-> << >>, slot |-> Capacity]

Empty == [recs |-> << >>, slot |-> 0]

IsEmpty(c) == c.recs = << >>

IsFull(c) == Len(c.recs) = Capacity

\* Mutant: the end of the file is not recognised.
NextSlotPastEnd(s) == s + 1

NextSlot(s) == IF s + 1 = Capacity THEN 0 ELSE s + 1

(***************************************************************************)
(* What a put, and a pop, make of a cache.  Emptying the cache and putting *)
(* into an empty one both start over at the beginning of the file.         *)
(***************************************************************************)
PutInto(c, r) ==
  IF IsFull(c)
  THEN [recs |-> Append(Tail(c.recs), r), slot |-> NextSlot(c.slot)]
  ELSE [c EXCEPT !.recs = Append(@, r)]

PopFrom(c) ==
  IF Len(c.recs) <= 1
  THEN Empty
  ELSE [recs |-> Tail(c.recs), slot |-> NextSlot(c.slot)]

(* peek takes "the write position equals the read position" for an empty   *)
(* file; a full one that does not start at slot 0 looks the same.          *)
Readable(c) == ~IsEmpty(c) /\ ~(IsFull(c) /\ c.slot # 0)

TypeOK == cache \in Cache \cup {Broken}

-----------------------------------------------------------------------------
Init == cache = Empty

Put(r) == cache # Broken /\ cache' = PutInto(cache, r)

Pop == cache # Broken /\ cache' = PopFrom(cache)

(***************************************************************************)
(* The process dies and starts again.  Every record but the oldest         *)
(* survives in its place.  The oldest one may have been replaced by the    *)
(* record of an unfinished put, and a file whose only record was being     *)
(* popped may be left broken.                                              *)
(***************************************************************************)
Crash ==
  \/ UNCHANGED cache
  \/ /\ cache # Broken /\ IsFull(cache)
     /\ \E r \in Record : cache' = [cache EXCEPT !.recs[1] = r]
  \/ /\ cache # Broken /\ Len(cache.recs) = 1
     /\ cache' = Broken

Next ==
  \/ \E r \in Record : Put(r)
  \/ Pop
  \/ Crash

Spec == Init /\ [][Next]_cache
=============================================================================
