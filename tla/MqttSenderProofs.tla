-------------------------- MODULE MqttSenderProofs --------------------------
(***************************************************************************)
(* Proofs about MqttSender for every set of brokers and passwords, every   *)
(* capacity of the cache and every number of messages and restarts: the    *)
(* queues stay in order, brokers receive the messages in the order         *)
(* mqtt_send accepted them, and below its capacity the cache loses none.   *)
(***************************************************************************)
EXTENDS MqttSender, SequenceTheorems, TLAPS

-----------------------------------------------------------------------------
(* What the operations on queues do to the order of their messages.        *)

LEMMA EmptyQueue ==
  /\ << >> \in Seq(Message)
  /\ Increasing(<< >>)
  /\ \A s \in Seq(Message) : Before(<< >>, s) /\ Before(s, << >>)
  /\ \A lo, hi \in Nat : Within(<< >>, lo, hi)
  BY DEF Increasing, Before, Within

LEMMA QueueLength ==
  ASSUME NEW s \in Seq(Message)
  PROVE  Len(s) \in Nat /\ (s = << >> <=> Len(s) = 0)
  BY EmptySeq, LenProperties

LEMMA TailQueue ==
  ASSUME NEW s \in Seq(Message), s # << >>
  PROVE  /\ Head(s) \in Message
         /\ Head(s) = s[1]
         /\ Tail(s) \in Seq(Message)
         /\ Len(Tail(s)) = Len(s) - 1
         /\ Len(s) \in Nat \ {0}
         /\ \A i \in 1 .. Len(Tail(s)) : Tail(s)[i] = s[i + 1]
  BY HeadTailProperties, ElementOfSeq, LenProperties, EmptySeq

LEMMA AppendQueue ==
  ASSUME NEW s \in Seq(Message), NEW m \in Message
  PROVE  /\ Append(s, m) \in Seq(Message)
         /\ Append(s, m) # << >>
         /\ Len(s) \in Nat
         /\ Len(Append(s, m)) = Len(s) + 1
         /\ \A i \in 1 .. Len(s) : Append(s, m)[i] = s[i]
         /\ Append(s, m)[Len(s) + 1] = m
  BY AppendProperties, LenProperties

LEMMA NumIsNat ==
  ASSUME NEW s \in Seq(Message)
  PROVE  \A i \in 1 .. Len(s) : s[i] \in Message /\ s[i].num \in Nat
  <1>1. \A i \in 1 .. Len(s) : s[i] \in Message
    BY ElementOfSeq
  <1>2. \A m \in Message : m.num \in Nat
    BY DEF Message
  <1> QED
    BY <1>1, <1>2

LEMMA TailOrder ==
  ASSUME NEW s \in Seq(Message), s # << >>, Increasing(s)
  PROVE  /\ Increasing(Tail(s))
         /\ \A i \in 1 .. Len(Tail(s)) : Head(s).num < Tail(s)[i].num
  BY TailQueue DEF Increasing

LEMMA TailBefore ==
  ASSUME NEW s \in Seq(Message), NEW t \in Seq(Message), s # << >>, Before(s, t)
  PROVE  /\ Before(Tail(s), t)
         /\ \A j \in 1 .. Len(t) : Head(s).num < t[j].num
  BY TailQueue DEF Before

LEMMA BeforeTail ==
  ASSUME NEW s \in Seq(Message), NEW t \in Seq(Message), t # << >>, Before(s, t)
  PROVE  /\ Before(s, Tail(t))
         /\ \A i \in 1 .. Len(s) : s[i].num < Head(t).num
  BY TailQueue DEF Before

LEMMA TailWithin ==
  ASSUME NEW s \in Seq(Message), s # << >>, NEW lo \in Nat, NEW hi \in Nat, Within(s, lo, hi)
  PROVE  Within(Tail(s), lo, hi) /\ lo <= Head(s).num /\ Head(s).num <= hi
  BY TailQueue DEF Within

LEMMA AppendOrder ==
  ASSUME NEW s \in Seq(Message), NEW m \in Message, Increasing(s),
         \A i \in 1 .. Len(s) : s[i].num < m.num
  PROVE  Increasing(Append(s, m))
  <1> SUFFICES ASSUME NEW i \in 1 .. Len(Append(s, m)), NEW j \in 1 .. Len(Append(s, m)), i < j
               PROVE  Append(s, m)[i].num < Append(s, m)[j].num
    BY DEF Increasing
  <1>1. i \in 1 .. Len(s)
    BY AppendQueue
  <1>2. CASE j = Len(s) + 1
    BY <1>1, <1>2, AppendQueue
  <1>3. CASE j \in 1 .. Len(s)
    BY <1>1, <1>3, AppendQueue DEF Increasing
  <1> QED
    BY <1>2, <1>3, AppendQueue

LEMMA AppendBefore ==
  ASSUME NEW s \in Seq(Message), NEW t \in Seq(Message), NEW m \in Message, Before(s, t),
         \A j \in 1 .. Len(t) : m.num < t[j].num
  PROVE  Before(Append(s, m), t)
  BY AppendQueue DEF Before

LEMMA BeforeAppend ==
  ASSUME NEW s \in Seq(Message), NEW t \in Seq(Message), NEW m \in Message, Before(s, t),
         \A i \in 1 .. Len(s) : s[i].num < m.num
  PROVE  Before(s, Append(t, m))
  BY AppendQueue DEF Before

LEMMA AppendWithin ==
  ASSUME NEW s \in Seq(Message), NEW m \in Message, NEW lo \in Nat, NEW hi \in Nat,
         Within(s, lo, hi), lo <= m.num, m.num <= hi
  PROVE  Within(Append(s, m), lo, hi)
  BY AppendQueue DEF Within

LEMMA WiderWithin ==
  ASSUME NEW s \in Seq(Message), NEW lo \in Nat, NEW hi \in Nat, NEW top \in Nat,
         Within(s, lo, hi), hi <= top
  PROVE  Within(s, lo, top)
  BY NumIsNat DEF Within

(* A queue of one message is ordered like the message.                     *)
LEMMA OneMessage ==
  ASSUME NEW m \in Message
  PROVE  /\ <<m>> \in Seq(Message)
         /\ <<m>> # << >>
         /\ Increasing(<<m>>)
         /\ \A t \in Seq(Message) :
              (\A j \in 1 .. Len(t) : m.num < t[j].num) => Before(<<m>>, t)
         /\ \A lo, hi \in Nat : lo <= m.num /\ m.num <= hi => Within(<<m>>, lo, hi)
  BY DEF Increasing, Before, Within

-----------------------------------------------------------------------------
(* What the cache makes of its records.                                    *)

LEMMA PutCache ==
  ASSUME NEW c \in Fifo!Cache, NEW m \in Message
  PROVE  /\ c.recs \in Seq(Message)
         /\ Fifo!PutInto(c, m) \in Fifo!Cache
         /\ \/ Fifo!PutInto(c, m).recs = Append(c.recs, m)
            \/ /\ Fifo!IsFull(c)
               /\ c.recs # << >>
               /\ Fifo!PutInto(c, m).recs = Append(Tail(c.recs), m)
  <1>1. c.recs \in Seq(Message) /\ c.slot \in 0 .. Capacity - 1
    BY DEF Fifo!Cache
  <1>2. CASE ~Fifo!IsFull(c)
    <2>1. Fifo!PutInto(c, m) = [recs |-> Append(c.recs, m), slot |-> c.slot]
      BY <1>2 DEF Fifo!PutInto, Fifo!Cache
    <2> QED
      BY <1>1, <2>1, AppendQueue DEF Fifo!Cache
  <1>3. CASE Fifo!IsFull(c)
    <2>1. c.recs # << >>
      BY <1>1, <1>3, EmptySeq, CapacityAssumption DEF Fifo!IsFull
    <2>2. Fifo!NextSlot(c.slot) \in 0 .. Capacity - 1
      BY <1>1, CapacityAssumption DEF Fifo!NextSlot
    <2>3. Append(Tail(c.recs), m) \in Seq(Message)
      BY <1>1, <2>1, TailQueue, AppendQueue
    <2>4. Fifo!PutInto(c, m)
            = [recs |-> Append(Tail(c.recs), m), slot |-> Fifo!NextSlot(c.slot)]
      BY <1>3 DEF Fifo!PutInto
    <2> QED
      BY <1>1, <1>3, <2>1, <2>2, <2>3, <2>4 DEF Fifo!Cache
  <1> QED
    BY <1>2, <1>3

LEMMA PopCache ==
  ASSUME NEW c \in Fifo!Cache
  PROVE  /\ c.recs \in Seq(Message)
         /\ Fifo!PopFrom(c) \in Fifo!Cache
         /\ \/ /\ Len(c.recs) <= 1
               /\ Fifo!PopFrom(c).recs = << >>
            \/ /\ c.recs # << >>
               /\ Fifo!PopFrom(c).recs = Tail(c.recs)
  <1>1. c.recs \in Seq(Message) /\ c.slot \in 0 .. Capacity - 1
    BY DEF Fifo!Cache
  <1>2. CASE Len(c.recs) <= 1
    <2>1. Fifo!PopFrom(c) = [recs |-> << >>, slot |-> 0]
      BY <1>2 DEF Fifo!PopFrom, Fifo!Empty
    <2> QED
      BY <1>1, <1>2, <2>1, EmptyQueue, CapacityAssumption DEF Fifo!Cache
  <1>3. CASE ~(Len(c.recs) <= 1)
    <2>1. c.recs # << >>
      BY <1>3, EmptySeq
    <2>2. Fifo!NextSlot(c.slot) \in 0 .. Capacity - 1
      BY <1>1, CapacityAssumption DEF Fifo!NextSlot
    <2>3. Fifo!PopFrom(c) = [recs |-> Tail(c.recs), slot |-> Fifo!NextSlot(c.slot)]
      BY <1>3 DEF Fifo!PopFrom
    <2> QED
      BY <1>1, <2>1, <2>2, <2>3, TailQueue DEF Fifo!Cache
  <1> QED
    BY <1>2, <1>3

(* A full cache gives up its oldest record, otherwise a put only appends.  *)
(* Whatever held of the order of the records still holds, as long as the   *)
(* new record is younger than all of them.                                 *)
LEMMA PutOrder ==
  ASSUME NEW c \in Fifo!Cache, NEW m \in Message, Increasing(c.recs),
         \A i \in 1 .. Len(c.recs) : c.recs[i].num < m.num
  PROVE  Increasing(Fifo!PutInto(c, m).recs)
  <1> DEFINE d == Fifo!PutInto(c, m).recs
  <1>1. CASE d = Append(c.recs, m)
    BY <1>1, PutCache, AppendOrder
  <1>2. CASE c.recs # << >> /\ d = Append(Tail(c.recs), m)
    <2>1. \A i \in 1 .. Len(Tail(c.recs)) : Tail(c.recs)[i].num < m.num
      BY <1>2, PutCache, TailQueue
    <2> QED
      BY <1>2, <2>1, PutCache, TailQueue, TailOrder, AppendOrder
  <1> QED
    BY <1>1, <1>2, PutCache

LEMMA PutBefore ==
  ASSUME NEW c \in Fifo!Cache, NEW m \in Message, NEW t \in Seq(Message),
         Before(c.recs, t), \A j \in 1 .. Len(t) : m.num < t[j].num
  PROVE  Before(Fifo!PutInto(c, m).recs, t)
  <1> DEFINE d == Fifo!PutInto(c, m).recs
  <1>1. CASE d = Append(c.recs, m)
    BY <1>1, PutCache, AppendBefore
  <1>2. CASE c.recs # << >> /\ d = Append(Tail(c.recs), m)
    <2>1. c.recs \in Seq(Message) /\ Tail(c.recs) \in Seq(Message)
      BY <1>2, PutCache, TailQueue
    <2>2. Before(Tail(c.recs), t)
      BY <1>2, <2>1, TailBefore
    <2> QED
      BY <1>2, <2>1, <2>2, AppendBefore
  <1> QED
    BY <1>1, <1>2, PutCache

LEMMA BeforePut ==
  ASSUME NEW c \in Fifo!Cache, NEW m \in Message, NEW t \in Seq(Message),
         Before(t, c.recs), \A i \in 1 .. Len(t) : t[i].num < m.num
  PROVE  Before(t, Fifo!PutInto(c, m).recs)
  <1> DEFINE d == Fifo!PutInto(c, m).recs
  <1>1. CASE d = Append(c.recs, m)
    BY <1>1, PutCache, BeforeAppend
  <1>2. CASE c.recs # << >> /\ d = Append(Tail(c.recs), m)
    <2>1. c.recs \in Seq(Message) /\ Tail(c.recs) \in Seq(Message)
      BY <1>2, PutCache, TailQueue
    <2>2. Before(t, Tail(c.recs))
      BY <1>2, <2>1, BeforeTail
    <2> QED
      BY <1>2, <2>1, <2>2, BeforeAppend
  <1> QED
    BY <1>1, <1>2, PutCache

LEMMA PutWithin ==
  ASSUME NEW c \in Fifo!Cache, NEW m \in Message, NEW lo \in Nat, NEW hi \in Nat,
         Within(c.recs, lo, hi), lo <= m.num, m.num <= hi
  PROVE  Within(Fifo!PutInto(c, m).recs, lo, hi)
  <1> DEFINE d == Fifo!PutInto(c, m).recs
  <1>1. CASE d = Append(c.recs, m)
    BY <1>1, PutCache, AppendWithin
  <1>2. CASE c.recs # << >> /\ d = Append(Tail(c.recs), m)
    <2>1. c.recs \in Seq(Message) /\ Tail(c.recs) \in Seq(Message)
      BY <1>2, PutCache, TailQueue
    <2>2. Within(Tail(c.recs), lo, hi)
      BY <1>2, <2>1, TailWithin
    <2> QED
      BY <1>2, <2>1, <2>2, AppendWithin
  <1> QED
    BY <1>1, <1>2, PutCache

-----------------------------------------------------------------------------
(* The message being sent is the oldest one in the sender.                 *)
LEMMA HeadOldest ==
  ASSUME SenderInv, sending # << >>
  PROVE  /\ Msg \in Message
         /\ lastRecv <= Msg.num /\ Msg.num <= count
         /\ Within(sending, Msg.num, count) /\ Within(Tail(sending), Msg.num, count)
         /\ Within(cache.recs, Msg.num, count)
         /\ Within(taken, Msg.num, count)
         /\ Within(incoming, Msg.num, count)
  <1> USE DEF SenderInv, Msg
  <1>1. /\ sending \in Seq(Message) /\ cache.recs \in Seq(Message)
        /\ taken \in Seq(Message) /\ incoming \in Seq(Message)
        /\ count \in Nat /\ lastRecv \in Nat
    BY DEF TypeOK, Fifo!Cache
  <1>2. Msg \in Message /\ Msg = sending[1] /\ Msg.num \in Nat /\ Len(sending) \in Nat \ {0}
    BY <1>1, TailQueue, NumIsNat
  <1>3. lastRecv <= Msg.num /\ Msg.num <= count
    BY <1>1, TailWithin DEF NumbersBounded
  <1>4. Within(Tail(sending), Msg.num, count)
    BY <1>1, <1>2, TailQueue, TailOrder, TailWithin, NumIsNat
       DEF PipelineOrdered, NumbersBounded, Within
  <1>5. Within(sending, Msg.num, count)
    <2> SUFFICES ASSUME NEW i \in 1 .. Len(sending)
                 PROVE  Msg.num <= sending[i].num /\ sending[i].num <= count
      BY DEF Within
    <2>1. sending[i].num \in Nat /\ sending[i].num <= count
      BY <1>1, NumIsNat DEF NumbersBounded, Within
    <2>2. 1 < i => sending[1].num < sending[i].num
      BY <1>2 DEF PipelineOrdered, Increasing
    <2> QED
      BY <1>2, <2>1, <2>2
  <1>6. ASSUME NEW t \in Seq(Message), Before(sending, t), Within(t, lastRecv, count)
        PROVE  Within(t, Msg.num, count)
    BY <1>1, <1>2, <1>6, NumIsNat, SMTT(40) DEF Before, Within
  <1> QED
    BY <1>1, <1>2, <1>3, <1>4, <1>5, <1>6 DEF PipelineOrdered, NumbersBounded

-----------------------------------------------------------------------------
(* One lemma per kind of step: the inductive invariant is preserved.       *)

LEMMA InitInv == Init => SenderInv
  <1> SUFFICES ASSUME Init PROVE SenderInv
    OBVIOUS
  <1> USE DEF Init, Fifo!Init, Fifo!Empty
  <1>1. TypeOK
    <2>1. cache \in Fifo!Cache
      BY CapacityAssumption, EmptyQueue DEF Fifo!Cache
    <2>2. granted \in [Broker -> Password]
      OBVIOUS
    <2> QED
      BY <2>1, <2>2, EmptyQueue DEF TypeOK
  <1>2. PipelineOrdered /\ NumbersBounded
    <2>1. cache.recs = << >>
      OBVIOUS
    <2>2. 0 <= 0 /\ Within(<< >>, 0, 0)
      BY EmptyQueue
    <2> QED
      BY <2>1, <2>2, EmptyQueue DEF PipelineOrdered, NumbersBounded
  <1>3. WorkerPhase
    BY DEF WorkerPhase
  <1> QED
    BY <1>1, <1>2, <1>3 DEF SenderInv

LEMMA AcceptStep ==
  ASSUME SenderInv, NEW b \in Broker, NEW p \in Passwords[b], Accept(b, p)
  PROVE  SenderInv'
  <1> DEFINE m == [num |-> count + 1, broker |-> b, pwd |-> p]
  <1> USE DEF SenderInv
  <1>1. /\ m \in Message
        /\ count \in Nat /\ lastRecv \in Nat
        /\ sending \in Seq(Message) /\ cache.recs \in Seq(Message)
        /\ taken \in Seq(Message) /\ incoming \in Seq(Message)
    BY DEF TypeOK, Message, Password, Fifo!Cache
  <1>2. incoming' = Append(incoming, m) /\ count' = count + 1
    BY DEF Accept
  <1>3. UNCHANGED <<taken, cache, sending, conn, bad, pc, up, granted, lastRecv, lastAck, restarts>>
    BY DEF Accept, links, brokers
  <1>4. TypeOK'
    BY <1>1, <1>2, <1>3, AppendQueue DEF TypeOK
  <1>5. ASSUME NEW t \in Seq(Message), Within(t, lastRecv, count)
        PROVE  /\ \A i \in 1 .. Len(t) : t[i].num < m.num
               /\ Within(t, lastRecv, count + 1)
    BY <1>1, <1>5, NumIsNat DEF Within
  <1>6. PipelineOrdered'
    <2>1. Increasing(Append(incoming, m))
      BY <1>1, <1>5, AppendOrder DEF PipelineOrdered, NumbersBounded
    <2>2. /\ Before(sending, Append(incoming, m))
          /\ Before(cache.recs, Append(incoming, m))
          /\ Before(taken, Append(incoming, m))
      BY <1>1, <1>5, BeforeAppend DEF PipelineOrdered, NumbersBounded
    <2> QED
      BY <1>2, <1>3, <2>1, <2>2 DEF PipelineOrdered
  <1>7. NumbersBounded'
    <2>1. Within(Append(incoming, m), lastRecv, count + 1)
      BY <1>1, <1>5, AppendWithin DEF NumbersBounded
    <2> QED
      BY <1>1, <1>2, <1>3, <1>5, <2>1 DEF NumbersBounded
  <1>8. WorkerPhase'
    BY <1>3 DEF WorkerPhase
  <1> QED
    BY <1>4, <1>6, <1>7, <1>8

LEMMA FlushBeginStep ==
  ASSUME SenderInv, FlushBegin
  PROVE  SenderInv'
  <1> USE DEF SenderInv
  <1>1. /\ taken' = incoming /\ incoming' = << >>
        /\ pc' = IF incoming = << >> THEN AfterFlush ELSE "flush"
        /\ UNCHANGED <<cache, sending, conn, bad, up, granted, lastRecv, count, lastAck, restarts>>
    BY DEF FlushBegin, links, brokers, history
  <1>2. TypeOK'
    BY <1>1, EmptyQueue DEF TypeOK, AfterFlush
  <1>3. PipelineOrdered'
    BY <1>1, EmptyQueue DEF TypeOK, Fifo!Cache, PipelineOrdered
  <1>4. NumbersBounded'
    BY <1>1, EmptyQueue DEF TypeOK, NumbersBounded
  <1>5. WorkerPhase'
    BY <1>1 DEF WorkerPhase, AfterFlush
  <1> QED
    BY <1>2, <1>3, <1>4, <1>5

LEMMA FlushPutStep ==
  ASSUME SenderInv, FlushPut
  PROVE  SenderInv'
  <1> DEFINE m == Head(taken)
  <1> USE DEF SenderInv
  <1>1. /\ cache' = Fifo!PutInto(cache, m) /\ taken' = Tail(taken)
        /\ pc' = IF Len(taken) = 1 THEN AfterFlush ELSE "flush"
        /\ UNCHANGED <<incoming, sending, conn, bad, up, granted,
                       lastRecv, count, lastAck, restarts>>
    BY DEF FlushPut, Fifo!Put, links, brokers, history
  <1>2. /\ sending \in Seq(Message) /\ cache \in Fifo!Cache /\ cache.recs \in Seq(Message)
        /\ taken \in Seq(Message) /\ incoming \in Seq(Message) /\ taken # << >>
        /\ count \in Nat /\ lastRecv \in Nat
    BY DEF TypeOK, Fifo!Cache, WorkerPhase, FlushPut
  <1>3. m \in Message /\ Tail(taken) \in Seq(Message) /\ m.num \in Nat
    BY <1>2, TailQueue, NumIsNat
  <1>4. TypeOK'
    <2>1. pc' \in {"top", "flush", "fetch", "send", "publish"}
      BY <1>1 DEF AfterFlush
    <2> QED
      BY <1>1, <1>2, <1>3, <2>1, PutCache DEF TypeOK
  <1>5. PipelineOrdered'
    <2> DEFINE d == Fifo!PutInto(cache, m).recs
    <2>1. Increasing(d)
      <3>1. \A i \in 1 .. Len(cache.recs) : cache.recs[i].num < m.num
        BY <1>2, BeforeTail DEF PipelineOrdered
      <3> QED
        BY <1>2, <1>3, <3>1, PutOrder DEF PipelineOrdered
    <2>2. Increasing(Tail(taken)) /\ Before(d, Tail(taken))
      <3>1. Before(cache.recs, Tail(taken))
        BY <1>2, BeforeTail DEF PipelineOrdered
      <3>2. \A j \in 1 .. Len(Tail(taken)) : m.num < Tail(taken)[j].num
        BY <1>2, TailOrder DEF PipelineOrdered
      <3> QED
        BY <1>2, <1>3, <3>1, <3>2, TailOrder, PutBefore DEF PipelineOrdered
    <2>3. Before(sending, d) /\ Before(sending, Tail(taken))
      <3>1. \A i \in 1 .. Len(sending) : sending[i].num < m.num
        BY <1>2, BeforeTail DEF PipelineOrdered
      <3> QED
        BY <1>2, <1>3, <3>1, BeforeTail, BeforePut DEF PipelineOrdered
    <2>4. Before(d, incoming) /\ Before(Tail(taken), incoming)
      <3>1. Before(Tail(taken), incoming) /\ \A j \in 1 .. Len(incoming) : m.num < incoming[j].num
        BY <1>2, TailBefore DEF PipelineOrdered
      <3> QED
        BY <1>2, <1>3, <3>1, PutBefore DEF PipelineOrdered
    <2> QED
      BY <1>1, <2>1, <2>2, <2>3, <2>4 DEF PipelineOrdered
  <1>6. NumbersBounded'
    <2>1. Within(Tail(taken), lastRecv, count) /\ lastRecv <= m.num /\ m.num <= count
      BY <1>2, TailWithin DEF NumbersBounded
    <2>2. Within(Fifo!PutInto(cache, m).recs, lastRecv, count)
      BY <1>2, <1>3, <2>1, PutWithin DEF NumbersBounded
    <2> QED
      BY <1>1, <2>1, <2>2 DEF NumbersBounded
  <1>7. WorkerPhase'
    <2>1. Len(taken) = 1 <=> Tail(taken) = << >>
      <3>1. Tail(taken) = << >> <=> Len(Tail(taken)) = 0
        BY <1>3, QueueLength
      <3>2. Len(taken) \in Nat /\ Len(Tail(taken)) = Len(taken) - 1
        BY <1>2, TailQueue
      <3> QED
        BY <3>1, <3>2
    <2>2. sending # << >> => AfterFlush = "send"
      BY DEF AfterFlush
    <2>3. sending = << >> => AfterFlush = "fetch"
      BY DEF AfterFlush
    <2> QED
      BY <1>1, <2>1, <2>2, <2>3 DEF WorkerPhase
  <1> QED
    BY <1>4, <1>5, <1>6, <1>7

LEMMA FetchStep ==
  ASSUME SenderInv, Fetch
  PROVE  SenderInv'
  <1> DEFINE m == Head(cache.recs)
             read == Fifo!Readable(cache)
  <1> USE DEF SenderInv
  <1>1. /\ sending' = IF read THEN <<m>> ELSE << >>
        /\ cache' = Fifo!PopFrom(cache)
        /\ pc' = IF read THEN "send" ELSE "top"
        /\ UNCHANGED <<incoming, taken, conn, bad, up, granted,
                       lastRecv, count, lastAck, restarts>>
    BY DEF Fetch, Fifo!Pop, links, brokers, history
  <1>2. /\ cache \in Fifo!Cache /\ cache.recs \in Seq(Message)
        /\ taken \in Seq(Message) /\ incoming \in Seq(Message)
        /\ count \in Nat /\ lastRecv \in Nat
        /\ pc = "fetch" /\ taken = << >>
    BY DEF TypeOK, Fifo!Cache, WorkerPhase, Fetch
  <1> DEFINE d == Fifo!PopFrom(cache).recs
  <1>3. read => cache.recs # << >> /\ m \in Message
    BY <1>2, TailQueue DEF Fifo!Readable, Fifo!IsEmpty
  <1>4. d \in Seq(Message) /\ (d = << >> \/ (cache.recs # << >> /\ d = Tail(cache.recs)))
    BY <1>2, PopCache DEF Fifo!Cache
  <1>5. TypeOK'
    BY <1>1, <1>2, <1>3, PopCache, OneMessage, EmptyQueue DEF TypeOK
  <1>6. /\ Increasing(d) /\ Before(d, taken) /\ Before(d, incoming)
        /\ Within(d, lastRecv, count)
    <2>1. CASE d = << >>
      BY <1>2, <2>1, EmptyQueue
    <2>2. CASE cache.recs # << >> /\ d = Tail(cache.recs)
      BY <1>2, <2>2, TailOrder, TailBefore, TailWithin DEF PipelineOrdered, NumbersBounded
    <2> QED
      BY <1>4, <2>1, <2>2
  <1>7. /\ Increasing(sending') /\ Before(sending', d)
        /\ Before(sending', taken) /\ Before(sending', incoming)
        /\ Within(sending', lastRecv, count)
    <2>1. CASE ~read
      BY <1>1, <1>2, <1>4, <2>1, EmptyQueue
    <2>2. CASE read
      <3>1. m \in Message /\ cache.recs # << >> /\ sending' = <<m>>
        BY <1>1, <1>3, <2>2
      <3>2. \A j \in 1 .. Len(d) : m.num < d[j].num
        <4>1. CASE d = << >>
          BY <4>1
        <4>2. CASE d = Tail(cache.recs)
          BY <1>2, <3>1, <4>2, TailOrder DEF PipelineOrdered
        <4> QED
          BY <1>4, <4>1, <4>2
      <3>3. /\ \A j \in 1 .. Len(taken) : m.num < taken[j].num
            /\ \A j \in 1 .. Len(incoming) : m.num < incoming[j].num
        BY <1>2, <3>1, TailBefore DEF PipelineOrdered
      <3>4. lastRecv <= m.num /\ m.num <= count
        BY <1>2, <3>1, TailWithin DEF NumbersBounded
      <3> QED
        BY <1>2, <1>4, <3>1, <3>2, <3>3, <3>4, OneMessage
    <2> QED
      BY <2>1, <2>2
  <1>8. PipelineOrdered' /\ NumbersBounded'
    BY <1>1, <1>6, <1>7 DEF PipelineOrdered, NumbersBounded
  <1>9. WorkerPhase'
    BY <1>1, <1>2 DEF WorkerPhase
  <1> QED
    BY <1>5, <1>8, <1>9

LEMMA TakeIncomingStep ==
  ASSUME SenderInv, TakeIncoming
  PROVE  SenderInv'
  <1> USE DEF SenderInv
  <1>1. /\ sending' = incoming /\ incoming' = << >> /\ pc' = "send" /\ incoming # << >>
        /\ UNCHANGED <<taken, cache, conn, bad, up, granted,
                       lastRecv, count, lastAck, restarts>>
    BY DEF TakeIncoming, links, brokers, history
  <1>2. cache.recs = << >> /\ taken = << >>
    BY DEF TakeIncoming, HasWork, Fifo!IsEmpty, WorkerPhase
  <1>3. TypeOK'
    BY <1>1, EmptyQueue DEF TypeOK
  <1>4. PipelineOrdered'
    BY <1>1, <1>2, EmptyQueue DEF TypeOK, PipelineOrdered
  <1>5. NumbersBounded'
    BY <1>1, EmptyQueue DEF TypeOK, NumbersBounded
  <1>6. WorkerPhase'
    BY <1>1, <1>2 DEF WorkerPhase
  <1> QED
    BY <1>3, <1>4, <1>5, <1>6

(* Discard and Publish take the message being sent out of its queue.       *)
LEMMA DropHeadStep ==
  ASSUME SenderInv, Discard \/ Publish
  PROVE  SenderInv'
  <1> USE DEF SenderInv
  <1>1. /\ sending' = Tail(sending) /\ pc' = "top"
        /\ UNCHANGED <<taken, cache, incoming, conn, bad, up, granted, count, restarts>>
        /\ \/ UNCHANGED <<lastRecv, lastAck>>
           \/ lastRecv' = Msg.num /\ lastAck' = Msg.num
    BY DEF Discard, Publish, links, brokers, history
  <1>2. /\ sending \in Seq(Message) /\ cache.recs \in Seq(Message) /\ sending # << >>
        /\ taken \in Seq(Message) /\ incoming \in Seq(Message) /\ taken = << >>
        /\ count \in Nat /\ lastRecv \in Nat
    BY DEF TypeOK, Fifo!Cache, WorkerPhase, Discard, Publish
  <1>3. Msg \in Message /\ Msg.num \in Nat /\ Tail(sending) \in Seq(Message)
    BY <1>2, TailQueue, NumIsNat DEF Msg
  <1>4. TypeOK'
    BY <1>1, <1>3 DEF TypeOK
  <1>5. PipelineOrdered'
    <2>1. Increasing(Tail(sending))
      BY <1>2, TailOrder DEF PipelineOrdered
    <2>2. /\ Before(Tail(sending), cache.recs)
          /\ Before(Tail(sending), taken)
          /\ Before(Tail(sending), incoming)
      BY <1>2, TailBefore DEF PipelineOrdered
    <2> QED
      BY <1>1, <2>1, <2>2 DEF PipelineOrdered
  <1>6. NumbersBounded'
    <2>1. CASE lastRecv' = lastRecv
      BY <1>1, <1>2, <2>1, TailWithin DEF NumbersBounded
    <2>2. CASE lastRecv' = Msg.num
      BY <1>1, <1>2, <2>2, HeadOldest DEF NumbersBounded
    <2> QED
      BY <1>1, <2>1, <2>2
  <1>7. WorkerPhase'
    BY <1>1, <1>2 DEF WorkerPhase
  <1> QED
    BY <1>4, <1>5, <1>6, <1>7

(* Steps of the worker that leave every queue alone: at most a client, a   *)
(* bad broker or a message received twice is new.                          *)
LEMMA AttemptStep ==
  ASSUME SenderInv,
         UseClient \/ Connect \/ ConnectRefused \/ ConnectFails \/ PublishTimeout \/ PublishFails
  PROVE  SenderInv'
  <1> USE DEF SenderInv
  <1>1. /\ UNCHANGED <<incoming, taken, cache, sending, up, granted, count, lastAck, restarts>>
        /\ pc \in {"send", "publish"}
        /\ pc' \in {"top", "publish"}
        /\ lastRecv' \in {lastRecv, Msg.num}
    BY DEF UseClient, Connecting, Connect, ConnectRefused, ConnectFails,
           PublishTimeout, PublishFails, queues, links, brokers, history
  <1>2. sending # << >> /\ taken = << >> /\ sending \in Seq(Message) /\ lastRecv \in Nat
    BY <1>1 DEF WorkerPhase, TypeOK
  <1>3. Msg \in Message /\ Msg.broker \in Broker /\ Msg.pwd \in Password /\ Msg.num \in Nat
    BY <1>2, HeadOldest DEF Message
  <1>4. conn' \in [Broker -> {"none", "live", "stale"}]
    BY <1>3 DEF TypeOK, UseClient, Connecting, Connect, ConnectRefused, ConnectFails,
           PublishTimeout, PublishFails, links
  <1>5. bad' \subseteq [broker : Broker, pwd : Password]
    BY <1>3 DEF TypeOK, UseClient, Connecting, Connect, ConnectRefused, ConnectFails,
           PublishTimeout, PublishFails, links
  <1>6. TypeOK'
    BY <1>1, <1>2, <1>3, <1>4, <1>5 DEF TypeOK
  <1>7. PipelineOrdered'
    BY <1>1 DEF PipelineOrdered
  <1>8. NumbersBounded'
    BY <1>1, <1>2, HeadOldest DEF NumbersBounded
  <1>9. WorkerPhase'
    BY <1>1, <1>2 DEF WorkerPhase
  <1> QED
    BY <1>6, <1>7, <1>8, <1>9

LEMMA EnvironmentStep ==
  ASSUME SenderInv,
         NEW b \in Broker,
         \/ LinkDown(b) \/ LinkUp(b) \/ ConnectionLost(b)
         \/ \E p \in Passwords[b] : Grant(b, p)
  PROVE  SenderInv'
  <1> USE DEF SenderInv
  <1>1. UNCHANGED <<incoming, taken, cache, sending, bad, pc, count, lastRecv, lastAck, restarts>>
    BY DEF LinkDown, LinkUp, ConnectionLost, Grant, queues, links, brokers, history
  <1>2. /\ up' \in [Broker -> BOOLEAN]
        /\ conn' \in [Broker -> {"none", "live", "stale"}]
    BY DEF TypeOK, LinkDown, LinkUp, ConnectionLost, Grant, links, brokers
  <1>3. granted' \in [Broker -> Password]
    <2>1. ASSUME NEW p \in Passwords[b], Grant(b, p)
          PROVE  granted' \in [Broker -> Password]
      BY <2>1 DEF TypeOK, Grant, Password
    <2> QED
      BY <2>1 DEF TypeOK, LinkDown, LinkUp, ConnectionLost, brokers
  <1>4. TypeOK'
    BY <1>1, <1>2, <1>3 DEF TypeOK
  <1>5. (PipelineOrdered /\ NumbersBounded /\ WorkerPhase)'
    BY <1>1 DEF PipelineOrdered, NumbersBounded, WorkerPhase
  <1> QED
    BY <1>4, <1>5

LEMMA RestartStep ==
  ASSUME SenderInv, Restart
  PROVE  SenderInv'
  <1> USE DEF SenderInv
  <1>1. /\ incoming' = << >> /\ taken' = << >> /\ sending' = << >> /\ pc' = "top"
        /\ UNCHANGED <<cache, up, granted, count, lastRecv, lastAck>>
    BY DEF Restart, brokers
  <1>2. TypeOK'
    BY <1>1, EmptyQueue DEF TypeOK, Restart
  <1>3. PipelineOrdered' /\ NumbersBounded'
    BY <1>1, EmptyQueue DEF TypeOK, Fifo!Cache, PipelineOrdered, NumbersBounded
  <1>4. WorkerPhase'
    BY <1>1 DEF WorkerPhase
  <1> QED
    BY <1>2, <1>3, <1>4

LEMMA NextInv == SenderInv /\ [Next]_vars => SenderInv'
  <1> SUFFICES ASSUME SenderInv, [Next]_vars PROVE SenderInv'
    OBVIOUS
  <1>1. ASSUME NEW b \in Broker, NEW p \in Passwords[b], Accept(b, p) PROVE SenderInv'
    BY <1>1, AcceptStep
  <1>2. CASE FlushBegin
    BY <1>2, FlushBeginStep
  <1>3. CASE FlushPut
    BY <1>3, FlushPutStep
  <1>4. CASE Fetch
    BY <1>4, FetchStep
  <1>5. CASE TakeIncoming
    BY <1>5, TakeIncomingStep
  <1>6. CASE Discard \/ Publish
    BY <1>6, DropHeadStep
  <1>7. CASE UseClient \/ Connect \/ ConnectRefused \/ ConnectFails \/ PublishTimeout \/ PublishFails
    BY <1>7, AttemptStep
  <1>8. ASSUME NEW b \in Broker,
               \/ LinkDown(b) \/ LinkUp(b) \/ ConnectionLost(b)
               \/ \E p \in Passwords[b] : Grant(b, p)
        PROVE  SenderInv'
    BY <1>8, EnvironmentStep
  <1>9. CASE Restart
    BY <1>9, RestartStep
  <1>10. CASE UNCHANGED vars
    BY <1>10 DEF SenderInv, TypeOK, PipelineOrdered, NumbersBounded, WorkerPhase,
                 vars, queues, links, brokers, history
  <1> QED
    BY <1>1, <1>2, <1>3, <1>4, <1>5, <1>6, <1>7, <1>8, <1>9, <1>10 DEF Next, Worker

(* The inductive invariant, and with it the types, holds of every          *)
(* behaviour.                                                              *)
THEOREM InvariantHolds == Spec => []SenderInv
  BY InitInv, NextInv, PTL DEF Spec

(* Every queue, client and flag of the sender keeps its type; the worker   *)
(* never takes the head of an empty queue.                                 *)
THEOREM TypesHold == Spec => []TypeOK
  <1>1. SenderInv => TypeOK
    BY DEF SenderInv
  <1> QED
    BY InvariantHolds, <1>1, PTL

(* No message is in two queues of mqttsender.c and none overtakes another. *)
THEOREM QueuesStayOrdered == Spec => []PipelineOrdered
  <1>1. SenderInv => PipelineOrdered
    BY DEF SenderInv
  <1> QED
    BY InvariantHolds, <1>1, PTL

-----------------------------------------------------------------------------
(* "order will be reserved": over outages, retries and restarts no broker  *)
(* receives a message of mqtt_send after a younger one.                    *)
THEOREM OrderIsReserved == Spec => OrderReserved
  <1>1. SenderInv /\ [Next]_vars => [lastRecv' >= lastRecv]_vars
    <2> SUFFICES ASSUME SenderInv, Next PROVE lastRecv' >= lastRecv
      OBVIOUS
    <2>1. lastRecv \in Nat
      BY DEF SenderInv, TypeOK
    <2>2. CASE Publish \/ PublishTimeout
      <3>1. sending # << >>
        BY <2>2 DEF SenderInv, WorkerPhase, Publish, PublishTimeout
      <3>2. lastRecv <= Msg.num /\ Msg.num \in Nat
        BY <3>1, HeadOldest DEF Message
      <3> QED
        BY <2>1, <2>2, <3>2 DEF Publish, PublishTimeout
    <2>3. CASE ~(Publish \/ PublishTimeout)
      <3>1. lastRecv' = lastRecv
        BY <2>3 DEF Next, Worker, Accept, FlushBegin, FlushPut, Fetch, TakeIncoming, Discard,
             UseClient, Connect, ConnectRefused, ConnectFails, PublishFails,
             LinkDown, LinkUp, ConnectionLost, Grant, Restart
      <3> QED
        BY <2>1, <3>1
    <2> QED
      BY <2>2, <2>3
  <1> QED
    BY <1>1, InvariantHolds, PTL DEF Spec, OrderReserved

-----------------------------------------------------------------------------
(* What the operations on queues do to the set of their messages.          *)

LEMMA ElementsOfEmpty == Elements(<< >>) = {}
  BY DEF Elements

LEMMA ElementsOfOne ==
  ASSUME NEW m
  PROVE  Elements(<<m>>) = {m}
  <1>1. <<m>>[1] = m /\ DOMAIN <<m>> = {1}
    OBVIOUS
  <1> QED
    BY <1>1 DEF Elements

LEMMA ElementsOfTail ==
  ASSUME NEW s \in Seq(Message), s # << >>
  PROVE  Elements(s) \subseteq {Head(s)} \cup Elements(Tail(s))
  <1> SUFFICES ASSUME NEW i \in 1 .. Len(s), s[i] # Head(s)
               PROVE  s[i] \in Elements(Tail(s))
    BY LenProperties DEF Elements
  <1>1. i - 1 \in 1 .. Len(Tail(s))
    BY TailQueue
  <1>2. Tail(s)[i - 1] = s[i]
    BY <1>1, TailQueue
  <1>3. DOMAIN Tail(s) = 1 .. Len(Tail(s))
    BY TailQueue, LenProperties
  <1> QED
    BY <1>1, <1>2, <1>3 DEF Elements

LEMMA ElementsOfAppend ==
  ASSUME NEW s \in Seq(Message), NEW m \in Message
  PROVE  Elements(s) \cup {m} \subseteq Elements(Append(s, m))
  <1>1. DOMAIN Append(s, m) = 1 .. Len(s) + 1 /\ DOMAIN s = 1 .. Len(s)
    BY AppendQueue, LenProperties
  <1> QED
    BY <1>1, AppendQueue DEF Elements

(* A put loses a record only when the cache is full.                       *)
LEMMA ElementsOfPut ==
  ASSUME NEW c \in Fifo!Cache, NEW m \in Message
  PROVE  /\ m \in Elements(Fifo!PutInto(c, m).recs)
         /\ ~Fifo!IsFull(c) => Elements(c.recs) \subseteq Elements(Fifo!PutInto(c, m).recs)
  <1>1. CASE Fifo!PutInto(c, m).recs = Append(c.recs, m)
    BY <1>1, PutCache, ElementsOfAppend
  <1>2. CASE /\ Fifo!IsFull(c)
             /\ c.recs # << >>
             /\ Fifo!PutInto(c, m).recs = Append(Tail(c.recs), m)
    <2>1. Tail(c.recs) \in Seq(Message)
      BY <1>2, PutCache, TailQueue
    <2> QED
      BY <1>2, <2>1, ElementsOfAppend
  <1> QED
    BY <1>1, <1>2, PutCache

(* A pop takes out the oldest record and no other.                         *)
LEMMA ElementsOfPop ==
  ASSUME NEW c \in Fifo!Cache, c.recs # << >>
  PROVE  Elements(c.recs) \subseteq {Head(c.recs)} \cup Elements(Fifo!PopFrom(c).recs)
  <1>1. CASE Len(c.recs) <= 1 /\ Fifo!PopFrom(c).recs = << >>
    <2>1. c.recs \in Seq(Message)
      BY PopCache
    <2>2. Tail(c.recs) \in Seq(Message) /\ Len(Tail(c.recs)) = Len(c.recs) - 1
      BY <2>1, TailQueue
    <2>3. /\ Len(c.recs) \in Nat /\ (c.recs = << >> <=> Len(c.recs) = 0)
          /\ (Tail(c.recs) = << >> <=> Len(Tail(c.recs)) = 0)
      BY <2>1, <2>2, QueueLength
    <2>4. Tail(c.recs) = << >>
      BY <1>1, <2>2, <2>3
    <2> QED
      BY <1>1, <2>1, <2>4, ElementsOfTail
  <1>2. CASE Fifo!PopFrom(c).recs = Tail(c.recs)
    BY <1>2, PopCache, ElementsOfTail
  <1> QED
    BY <1>1, <1>2, PopCache

(* Below its capacity the sender loses no message.                         *)
THEOREM NothingLostBelowCapacity == Spec => LossOnlyWhenFull
  <1> DEFINE Excused(m) == \/ m.num = lastAck'
                           \/ Fifo!IsFull(cache)
                           \/ KnownBad(m.broker, m.pwd)
                           \/ restarts' # restarts /\ m \notin Elements(cache.recs)
  <1>1. SenderInv /\ [Next]_vars => [\A m \in InFlight \ InFlight' : Excused(m)]_vars
    <2> SUFFICES ASSUME SenderInv, Next, NEW m \in InFlight, m \notin InFlight'
                 PROVE  Excused(m)
      OBVIOUS
    <2> USE DEF InFlight
    <2>1. /\ sending \in Seq(Message) /\ taken \in Seq(Message) /\ incoming \in Seq(Message)
          /\ cache \in Fifo!Cache /\ cache.recs \in Seq(Message) /\ restarts \in Nat
          /\ count \in Nat
      BY DEF SenderInv, TypeOK, Fifo!Cache
    <2>2. ASSUME NEW b \in Broker, NEW p \in Passwords[b], Accept(b, p)
          PROVE  Excused(m)
      <3>1. [num |-> count + 1, broker |-> b, pwd |-> p] \in Message
        BY <2>1 DEF Message, Password
      <3>2. Elements(incoming) \subseteq Elements(incoming')
        BY <2>1, <2>2, <3>1, ElementsOfAppend DEF Accept
      <3> QED
        BY <2>2, <3>2 DEF Accept
    <2>3. CASE FlushBegin
      BY <2>3, ElementsOfEmpty DEF FlushBegin, SenderInv, WorkerPhase
    <2>4. CASE FlushPut
      <3>1. taken # << >> /\ Head(taken) \in Message
        BY <2>1, <2>4, TailQueue DEF FlushPut, SenderInv, WorkerPhase
      <3>2. Elements(taken) \subseteq Elements(cache'.recs) \cup Elements(taken')
        BY <2>1, <2>4, <3>1, ElementsOfTail, ElementsOfPut DEF FlushPut, Fifo!Put
      <3>3. ~Fifo!IsFull(cache) => Elements(cache.recs) \subseteq Elements(cache'.recs)
        BY <2>1, <2>4, <3>1, ElementsOfPut DEF FlushPut, Fifo!Put
      <3> QED
        BY <2>4, <3>2, <3>3 DEF FlushPut
    <2>5. CASE Fetch
      <3>1. sending = << >>
        BY <2>5 DEF Fetch, SenderInv, WorkerPhase
      <3>2. CASE cache.recs = << >>
        BY <2>5, <3>1, <3>2, ElementsOfEmpty DEF Fetch
      <3>3. CASE cache.recs # << >> /\ Fifo!Readable(cache)
        <4>1. Elements(sending') = {Head(cache.recs)}
          BY <2>5, <3>3, ElementsOfOne DEF Fetch
        <4>2. Elements(cache.recs) \subseteq {Head(cache.recs)} \cup Elements(cache'.recs)
          BY <2>1, <2>5, <3>3, ElementsOfPop DEF Fetch, Fifo!Pop
        <4> QED
          BY <2>5, <3>1, <4>1, <4>2, ElementsOfEmpty DEF Fetch
      <3>4. CASE cache.recs # << >> /\ ~Fifo!Readable(cache)
        BY <3>4 DEF Fifo!Readable, Fifo!IsEmpty
      <3> QED
        BY <3>2, <3>3, <3>4
    <2>6. CASE TakeIncoming
      <3>1. sending = << >>
        BY <2>6 DEF TakeIncoming, HasWork
      <3> QED
        BY <2>6, <3>1, ElementsOfEmpty DEF TakeIncoming
    <2>7. CASE Discard \/ Publish
      <3>1. sending # << >> /\ sending' = Tail(sending)
        BY <2>7 DEF Discard, Publish, SenderInv, WorkerPhase
      <3>2. m = Msg
        BY <2>1, <2>7, <3>1, ElementsOfTail DEF Discard, Publish, Msg
      <3> QED
        BY <2>7, <3>2 DEF Discard, Publish
    <2>8. CASE \/ UseClient \/ Connect \/ ConnectRefused \/ ConnectFails
               \/ PublishTimeout \/ PublishFails
      BY <2>8 DEF UseClient, Connect, ConnectRefused, ConnectFails, PublishTimeout, PublishFails,
                  queues
    <2>9. ASSUME NEW b \in Broker,
                 \/ LinkDown(b) \/ LinkUp(b) \/ ConnectionLost(b)
                 \/ \E p \in Passwords[b] : Grant(b, p)
          PROVE  Excused(m)
      BY <2>9 DEF LinkDown, LinkUp, ConnectionLost, Grant, queues
    <2>10. CASE Restart
      BY <2>1, <2>10 DEF Restart
    <2> QED
      BY <2>2, <2>3, <2>4, <2>5, <2>6, <2>7, <2>8, <2>9, <2>10 DEF Next, Worker
  <1> QED
    BY <1>1, InvariantHolds, PTL DEF Spec, LossOnlyWhenFull
=============================================================================
