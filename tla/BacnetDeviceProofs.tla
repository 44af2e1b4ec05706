------------------------ MODULE BacnetDeviceProofs ------------------------
(***************************************************************************)
(* Proofs about BacnetDevice for any devices, lists of objects, sizes of   *)
(* the tables and bounds: no device gets stuck, an answer belongs to the   *)
(* question it is taken for as long as the device at its place was not     *)
(* disturbed, and the list of objects is then complete.                    *)
(***************************************************************************)
EXTENDS BacnetDevice, TLAPS

(* The invariant.  What holds of a device in any case: *)
Requested(d, r) ==
  /\ r.to = d.dev
  /\ r.op \in {"sub", "rpm", "wpm"}
  /\ r.op = "sub" => \E n \in DOMAIN d.objects : d.objects[n].id = r.id

EntryOK(d) ==
  /\ d \in Entry
  /\ d.state = "main" => ~d.disable
  /\ d.handle <= Len(d.objects)
  /\ d.state \in {"subscribe", "cancel", "resubscribe"} => d.handle # 0
  /\ d.update => d.state = "read" /\ d.next = 0 /\ d.disable
  /\ \A k \in DOMAIN d.queue : Requested(d, d.queue[k])

(* The gateway knows the supported objects among the first n of d's list. *)
Listed(d, n) ==
  /\ \A a, b \in DOMAIN d.objects :
       a < b => d.objects[a].id[2] < d.objects[b].id[2]
  /\ {d.objects[k].id : k \in DOMAIN d.objects} =
       {id \in Id : id[1] = d.dev /\ id[2] <= n /\ KindOf(id) # "other"}

(* ... and of one that was not disturbed. *)
Complete(d) ==
  IF d.state = "read"
  THEN /\ d.next \in 1..d.size /\ d.size = Len(ObjectList[d.dev])
       /\ Listed(d, d.next - 1)
  ELSE Listed(d, Len(ObjectList[d.dev]))

Calm(d) ==
  /\ d.state # "main" => d.disable
  /\ ~d.update => Complete(d)

(* A device, the requests under way at its place, and whether they were    *)
(* mixed up there. *)
PlaceOK(d, requests, m) ==
  /\ EntryOK(d)
  /\ ~m => /\ Calm(d)
           /\ requests # <<>> => Len(requests) = 1 /\ AskedLast(d, requests[1])

PlacesOK ==
  /\ \A i \in DOMAIN devices : PlaceOK(devices[i], net[i], mixed[i])
  /\ \A i \in Place : ~Sendable(i) => net[i] = <<>> /\ ~mixed[i]
  /\ \A i \in Place \ DOMAIN devices : net[i] # <<>> => mixed[i]

PendOK == \A p \in pend : ~p.freed => p.place \in DOMAIN devices

DeviceInv == DeviceTypeOK /\ PlacesOK /\ PendOK /\ UndefinedOnlyIfMixed

-----------------------------------------------------------------------------
(* Sequences, walks and requests.                                          *)

LEMMA FunctionIsSequence ==
  ASSUME NEW n \in Nat, NEW S, NEW f \in [1..n -> S]
  PROVE  f \in Seq(S) /\ Len(f) = n /\ DOMAIN f = 1..n
  OBVIOUS

LEMMA AppendFacts ==
  ASSUME NEW S, NEW s \in Seq(S), NEW x \in S
  PROVE  /\ Append(s, x) \in Seq(S) /\ Len(Append(s, x)) = Len(s) + 1
         /\ DOMAIN Append(s, x) = 1..(Len(s) + 1)
         /\ \A k \in 1..Len(s) : Append(s, x)[k] = s[k]
         /\ Append(s, x)[Len(s) + 1] = x
  OBVIOUS

LEMMA WithoutIsSequence ==
  ASSUME NEW S, NEW s \in Seq(S), NEW k \in DOMAIN s
  PROVE  /\ Without(s, k) \in Seq(S)
         /\ Len(Without(s, k)) = Len(s) - 1
         /\ Len(s) = 1 => Without(s, k) = <<>>
  <1>1. k \in 1..Len(s) /\ Len(s) \in Nat
    OBVIOUS
  <1>2. SubSeq(s, 1, k - 1) \in Seq(S) /\ Len(SubSeq(s, 1, k - 1)) = k - 1
    BY <1>1
  <1>3. /\ SubSeq(s, k + 1, Len(s)) \in Seq(S)
        /\ Len(SubSeq(s, k + 1, Len(s))) = Len(s) - k
    BY <1>1
  <1>4. ASSUME NEW a \in Seq(S), NEW b \in Seq(S),
               Len(a) = k - 1, Len(b) = Len(s) - k
        PROVE  /\ a \o b \in Seq(S) /\ Len(a \o b) = Len(s) - 1
               /\ Len(s) = 1 => a \o b = <<>>
    BY <1>1, <1>4
  <1> QED
    BY <1>2, <1>3, <1>4 DEF Without

WellFounded == INSTANCE WellFoundedInduction

(* A set of numbers up to n has a largest element. *)
LEMMA LargestExists ==
  ASSUME NEW n \in Nat, NEW S, S \subseteq 1..n, S # {}
  PROVE  \E m \in S : \A k \in S : k <= m
  <1> DEFINE R == WellFounded!OpToRel(<, Nat)
             T == {n - k : k \in S}
  <1>2. WellFounded!IsWellFoundedOn(R, Nat)
    BY WellFounded!NatLessThanWellFounded
  <1>3. \A x, y \in Nat : x < y => <<x, y>> \in R
    BY DEF WellFounded!OpToRel
  <1> HIDE DEF R
  <1>1. T \subseteq Nat /\ T # {}
    <2>1. \A k \in S : n - k \in Nat
      OBVIOUS
    <2>2. \E k : k \in S
      OBVIOUS
    <2> QED
      BY <2>1, <2>2
  <1>4. PICK x \in T : \A y \in T : ~ (<<y, x>> \in R)
    BY <1>1, <1>2, WellFounded!WFMin
  <1>5. \A y \in T : x <= y
    <2> HIDE DEF T
    <2> TAKE y \in T
    <2>1. x \in Nat /\ y \in Nat
      BY <1>1
    <2>2. ~(y < x)
      BY <1>3, <1>4, <2>1
    <2> QED
      BY <2>1, <2>2
  <1>6. PICK m \in S : x = n - m
    BY <1>4
  <1>7. ASSUME NEW k \in S PROVE k <= m
    BY <1>5, <1>6
  <1> QED
    BY <1>7

LEMMA WalkFromFacts ==
  ASSUME NEW n \in Nat, NEW S
  PROVE  /\ WalkFrom(n, S) \in 0..n
         /\ WalkFrom(n, S) # 0 => WalkFrom(n, S) \in S
  <1> DEFINE P(k) == k \in S /\ \A j \in S : j > k => j > n
  <1>1. CASE \E k \in 1..n : P(k)
    <2>1. WalkFrom(n, S) = CHOOSE k \in 1..n : P(k)
      BY <1>1 DEF WalkFrom
    <2>2. WalkFrom(n, S) \in 1..n /\ P(WalkFrom(n, S))
      <3> HIDE DEF P
      <3> QED BY <1>1, <2>1
    <2> QED
      BY <2>2
  <1>2. CASE ~ \E k \in 1..n : P(k)
    BY <1>2 DEF WalkFrom
  <1> QED
    BY <1>1, <1>2

LEMMA WalkFromFinds ==
  ASSUME NEW n \in Nat, NEW S, S \subseteq Int, NEW k \in 1..n, k \in S
  PROVE  WalkFrom(n, S) # 0
  <1> DEFINE P(m) == m \in S /\ \A j \in S : j > m => j > n
             A == {j \in 1..n : j \in S}
  <1>1. A \subseteq 1..n /\ A # {}
    OBVIOUS
  <1>2. PICK m \in A : \A j \in A : j <= m
    <2> HIDE DEF A
    <2> QED
      BY <1>1, LargestExists
  <1>3. m \in 1..n /\ P(m)
    BY <1>2
  <1>4. WalkFrom(n, S) = CHOOSE j \in 1..n : P(j)
    BY <1>3 DEF WalkFrom
  <1>5. WalkFrom(n, S) \in 1..n
    <2> HIDE DEF P
    <2> QED
      BY <1>3, <1>4
  <1> QED
    BY <1>5

LEMMA RequestFacts ==
  /\ \A d, of \in Device, j \in Nat :
       ReadElement(d, j) \in Request /\ ReadElementOf(d, of, j) \in Request
  /\ \A d \in Device, id \in Id, s \in Services :
       Subscription(d, id, s) \in Request /\ Cancellation(d, id, s) \in Request
  /\ \A d \in Device, op \in {"rpm", "wpm"}, w \in Command \cup {Poll} :
       Properties(d, op, w) \in Request
  /\ \A r \in Request : /\ r.to \in Device
                        /\ r.op \in {"read", "sub", "cancel", "rpm", "wpm"}
                        /\ r.op = "read" => r.index \in Nat
                        /\ r.op \in {"sub", "cancel"} => r.id \in Id
  BY DEF Request, ReadElement, ReadElementOf, Subscription, Cancellation, Properties

LEMMA EntryFacts ==
  ASSUME NEW d \in Entry
  PROVE  /\ d.dev \in Device /\ d.state \in State /\ d.disable \in BOOLEAN
         /\ d.sendNext \in BOOLEAN /\ d.update \in BOOLEAN
         /\ d.size \in Nat /\ d.next \in Nat /\ d.objects \in Seq(Object)
         /\ d.handle \in Nat /\ d.queue \in Seq(Request)
  BY DEF Entry

LEMMA ObjectFacts ==
  /\ \A o \in Object : o.id \in Id /\ o.cov \in Cov
  /\ \A o \in Object, c \in Cov : /\ [o EXCEPT !.cov = c] \in Object
                                  /\ [o EXCEPT !.cov = c].id = o.id
  BY DEF Object

LEMMA ListFacts ==
  ASSUME NEW d \in Device
  PROVE  /\ ObjectList[d] \in Seq(Kinds) /\ Len(ObjectList[d]) \in Nat
         /\ DOMAIN ObjectList[d] = 1..Len(ObjectList[d])
         /\ \A j \in DOMAIN ObjectList[d] : <<d, j>> \in Id
  BY DeviceAssumption DEF Id

(* What a change of nothing but the state of subscriptions leaves alone.   *)
SameIds(d, e) ==
  /\ e.dev = d.dev
  /\ Len(e.objects) = Len(d.objects)
  /\ \A k \in DOMAIN d.objects : e.objects[k].id = d.objects[k].id

LEMMA SameIdsFacts ==
  ASSUME NEW d \in Entry, NEW e \in Entry, SameIds(d, e)
  PROVE  /\ DOMAIN e.objects = DOMAIN d.objects
         /\ \A n \in Int : Listed(d, n) => Listed(e, n)
         /\ \A r : Requested(d, r) => Requested(e, r)
  <1>1. DOMAIN e.objects = DOMAIN d.objects
    BY DEF SameIds, Entry
  <1>2. {d.objects[k].id : k \in DOMAIN d.objects} =
          {e.objects[k].id : k \in DOMAIN e.objects}
    BY <1>1 DEF SameIds
  <1>3. \A n \in Int : Listed(d, n) => Listed(e, n)
    BY <1>1, <1>2 DEF SameIds, Listed
  <1>4. \A r : Requested(d, r) => Requested(e, r)
    BY <1>1 DEF SameIds, Requested
  <1> QED
    BY <1>1, <1>3, <1>4

-----------------------------------------------------------------------------
(* What the functions of baclib.c make of a device: it stays in order,     *)
(* whatever it was asked; and if it was calm it stays calm and has at most *)
(* one request to send, which is the one its state stands for.             *)

OutcomeOK(r) ==
  /\ EntryOK(r.dev)
  /\ r.out \in Seq(Request)
  /\ r.dev.update /\ r.out # <<>> => r.out = <<ReadElement(r.dev.dev, 0)>>

CalmOutcome(r) ==
  /\ Calm(r.dev)
  /\ r.out # <<>> => Len(r.out) = 1 /\ AskedLast(r.dev, r.out[1])

(* A device in order but for its state. *)
Base(d) ==
  /\ d \in Entry
  /\ d.handle <= Len(d.objects)
  /\ \A k \in DOMAIN d.queue : Requested(d, d.queue[k])

AllListed(d) == Listed(d, Len(ObjectList[d.dev]))

LEMMA EntryIsBase == \A d : EntryOK(d) => Base(d)
  BY DEF EntryOK, Base

LEMMA NothingSent ==
  ASSUME NEW d, EntryOK(d)
  PROVE  /\ OutcomeOK(Result(d, <<>>))
         /\ Calm(d) => CalmOutcome(Result(d, <<>>))
  BY DEF OutcomeOK, CalmOutcome, Result

LEMMA EnterMainLoopOutcome ==
  ASSUME NEW d, Base(d), ~d.update
  PROVE  /\ OutcomeOK(Result(EnterMainLoop(d), <<>>))
         /\ AllListed(d) => CalmOutcome(Result(EnterMainLoop(d), <<>>))
  <1> DEFINE e == EnterMainLoop(d)
  <1>0. d \in Entry /\ Len(d.objects) \in Nat
    BY DEF Base, Entry
  <1>1. e \in Entry
    BY <1>0 DEF Entry, EnterMainLoop, State
  <1>2. /\ e.state = "main" /\ e.disable = FALSE /\ e.update = d.update
    BY <1>0 DEF Entry, EnterMainLoop
  <1>3. /\ e.handle = Len(d.objects) /\ e.objects = d.objects
        /\ e.queue = d.queue /\ e.dev = d.dev
    BY <1>0 DEF Entry, EnterMainLoop
  <1>4. /\ e \in Entry /\ e.state = "main" /\ ~e.disable /\ ~e.update
        /\ e.handle = Len(d.objects) /\ e.objects = d.objects
        /\ e.queue = d.queue /\ e.dev = d.dev
    BY <1>1, <1>2, <1>3
  <1>5. EntryOK(e)
    BY <1>4 DEF EntryOK, Base, Requested
  <1>6. AllListed(d) => Calm(e)
    BY <1>4 DEF AllListed, Calm, Complete, Listed
  <1> QED
    BY <1>5, <1>6, NothingSent

LEMMA StartFacts ==
  ASSUME NEW d, Base(d)
  PROVE  Start(d) \in 0..Len(d.objects)
  BY DEF Base, Entry, Start

(* An object whose subscription changes. *)
LEMMA MarkFacts ==
  ASSUME NEW d, Base(d), NEW k \in DOMAIN d.objects, NEW c \in Cov
  PROVE  LET e == [d EXCEPT !.objects[k].cov = c] IN
         /\ Base(e) /\ SameIds(d, e)
         /\ e = [d EXCEPT !.objects = e.objects] /\ e.queue = d.queue
  <1> DEFINE e == [d EXCEPT !.objects[k].cov = c]
             o == [d.objects EXCEPT ![k].cov = c]
  <1>1. d \in Entry /\ d.objects \in Seq(Object) /\ d.objects[k] \in Object
    BY DEF Base, Entry
  <1>2. [d.objects[k] EXCEPT !.cov = c] \in Object
    BY <1>1 DEF Object
  <1>3. /\ o \in Seq(Object) /\ Len(o) = Len(d.objects)
        /\ \A n \in DOMAIN d.objects : o[n].id = d.objects[n].id
    BY <1>1, <1>2 DEF Object
  <1>4. e = [d EXCEPT !.objects = o]
    BY <1>1 DEF Entry
  <1>5. e \in Entry /\ e.objects = o /\ e.dev = d.dev /\ e.queue = d.queue /\ e.handle = d.handle
    BY <1>1, <1>3, <1>4 DEF Entry
  <1>6. SameIds(d, e)
    BY <1>3, <1>5 DEF SameIds
  <1>7. Base(e)
    BY <1>1, <1>3, <1>5, <1>6, SameIdsFacts DEF Base
  <1> QED
    BY <1>4, <1>5, <1>6, <1>7

(* Objects whose subscriptions change, all at once. *)
LEMMA MarkAllFacts ==
  ASSUME NEW d, Base(d), NEW f \in [DOMAIN d.objects -> Object],
         \A k \in DOMAIN d.objects : f[k].id = d.objects[k].id,
         NEW e, e = [d EXCEPT !.objects = f]
  PROVE  /\ Base(e) /\ SameIds(d, e) /\ e.objects = f
         /\ e.state = d.state /\ e.disable = d.disable /\ e.update = d.update
         /\ e.handle = d.handle /\ e.queue = d.queue /\ e.dev = d.dev
         /\ e.sendNext = d.sendNext /\ e.next = d.next /\ e.size = d.size
  <1>1. d \in Entry /\ d.objects \in Seq(Object)
    BY DEF Base, Entry
  <1>2. f \in Seq(Object) /\ Len(f) = Len(d.objects)
    <2>1. DOMAIN d.objects = 1..Len(d.objects) /\ Len(d.objects) \in Nat
      BY <1>1
    <2> QED
      BY <2>1, FunctionIsSequence
  <1>3. e \in Entry
    BY <1>1, <1>2 DEF Entry
  <1>4. /\ e.objects = f /\ e.state = d.state /\ e.disable = d.disable
        /\ e.update = d.update /\ e.handle = d.handle /\ e.queue = d.queue
        /\ e.dev = d.dev
        /\ e.sendNext = d.sendNext /\ e.next = d.next /\ e.size = d.size
    BY <1>1 DEF Entry
  <1>5. SameIds(d, e)
    BY <1>2, <1>4 DEF SameIds
  <1>6. Base(e)
    BY <1>1, <1>2, <1>3, <1>4, <1>5, SameIdsFacts DEF Base
  <1> QED
    BY <1>4, <1>5, <1>6

LEMMA SubscribeOutcome ==
  ASSUME NEW d, Base(d), d.state = "subscribe", ~d.update,
         NEW t \in SubscribeTypes
  PROVE  /\ OutcomeOK(SubscribeIfNeed(d, t))
         /\ AllListed(d) /\ d.disable => CalmOutcome(SubscribeIfNeed(d, t))
  <1> DEFINE need == WithCov(d, {"need"})
             target == IF t = "none" THEN 0
                       ELSE WalkFrom(Start(d),
                                     {k \in need : Wanted(d.objects[k], t)})
             passed == {k \in need : t # "none" /\ target <= k /\ k <= Start(d)}
             f == [k \in DOMAIN d.objects |->
                     IF k \in passed
                     THEN [d.objects[k] EXCEPT !.cov = "support"]
                     ELSE d.objects[k]]
             e == [d EXCEPT !.objects = f]
             s == [e EXCEPT !.handle = target]
             r == Subscription(d.dev, d.objects[target].id, Service(t))
  <1>1. d \in Entry /\ d.objects \in Seq(Object) /\ d.dev \in Device
    BY DEF Base, Entry
  <1>2. target \in 0..Start(d) /\ (target # 0 => target \in DOMAIN d.objects)
    BY StartFacts, WalkFromFacts DEF WithCov
  <1>3. /\ f \in [DOMAIN d.objects -> Object]
        /\ \A k \in DOMAIN d.objects : f[k].id = d.objects[k].id
    <2>1. \A k \in DOMAIN d.objects :
            /\ d.objects[k] \in Object
            /\ [d.objects[k] EXCEPT !.cov = "support"] \in Object
            /\ [d.objects[k] EXCEPT !.cov = "support"].id = d.objects[k].id
      <3> TAKE k \in DOMAIN d.objects
      <3>1. d.objects[k] \in Object
        BY <1>1
      <3> QED
        BY <3>1 DEF Object, Cov
    <2> QED
      BY <2>1
  <1>4. /\ Base(e) /\ SameIds(d, e) /\ e.state = d.state
        /\ e.disable = d.disable /\ e.update = d.update
        /\ e.dev = d.dev /\ e.queue = d.queue /\ e.objects = f
    <2> HIDE DEF f
    <2> QED
      BY <1>3, MarkAllFacts
  <1>5. AllListed(d) => AllListed(e)
    BY <1>1, <1>4, SameIdsFacts, ListFacts DEF AllListed, Base
  <1>6. SubscribeIfNeed(d, t) =
          IF target = 0 THEN Result(EnterMainLoop(e), <<>>)
          ELSE Result(s, <<r>>)
    BY DEF SubscribeIfNeed
  <1> HIDE DEF need, target, passed, f, e
  <1>7. CASE target = 0
    BY <1>4, <1>5, <1>6, <1>7, EnterMainLoopOutcome
  <1>8. CASE target # 0
    <2>1. r \in Request /\ r.to = d.dev /\ r.op = "sub" /\ r.id = d.objects[target].id
      <3>1. d.objects[target] \in Object /\ d.objects[target].id \in Id
        BY <1>1, <1>2, <1>8, ObjectFacts
      <3>2. Service(t) \in Services
        BY DEF Service, Services
      <3> QED
        BY <1>1, <3>1, <3>2, RequestFacts DEF Subscription
    <2>2. e \in Entry /\ target \in Nat /\ target <= Len(d.objects)
      BY <1>1, <1>2, <1>4, StartFacts DEF Base
    <2>3. /\ s \in Entry /\ s.state = "subscribe" /\ s.handle = target
          /\ s.update = FALSE /\ s.disable = d.disable
          /\ s.dev = d.dev /\ s.queue = d.queue /\ s.objects = e.objects
      BY <2>2, <1>4 DEF Entry
    <2>4. SameIds(e, s) /\ Len(s.objects) = Len(d.objects)
      BY <2>3, <1>4 DEF SameIds
    <2>5. \A k \in DOMAIN s.queue : Requested(s, s.queue[k])
      BY <1>4, <2>2, <2>3, <2>4, SameIdsFacts DEF Base
    <2>6. EntryOK(s)
      BY <2>2, <2>3, <2>4, <2>5, <1>8 DEF EntryOK
    <2>7. AllListed(d) /\ d.disable => Calm(s)
      <3>1. AllListed(e) => AllListed(s)
        BY <1>1, <1>4, <2>2, <2>3, <2>4, SameIdsFacts, ListFacts DEF AllListed
      <3> QED
        BY <1>5, <2>3, <3>1 DEF Calm, Complete, AllListed
    <2>8. AskedLast(s, r)
      BY <1>2, <1>4, <1>8, <2>1, <2>3 DEF AskedLast, SameIds
    <2>9. <<r>> \in Seq(Request) /\ Len(<<r>>) = 1 /\ <<r>>[1] = r /\ <<r>> # <<>>
      BY <2>1
    <2> HIDE DEF r, s
    <2> QED
      BY <1>6, <1>8, <2>3, <2>6, <2>7, <2>8, <2>9 DEF OutcomeOK, CalmOutcome, Result
  <1> QED
    BY <1>7, <1>8

LEMMA StartSubscribingOutcome ==
  ASSUME NEW d, Base(d), ~d.update, NEW t \in SubscribeTypes
  PROVE  /\ OutcomeOK(StartSubscribing(d, t))
         /\ AllListed(d) /\ d.disable => CalmOutcome(StartSubscribing(d, t))
  <1> DEFINE e == [d EXCEPT !.handle = 0, !.state = "subscribe"]
  <1>1. d \in Entry /\ Len(d.objects) \in Nat
    BY DEF Base, Entry
  <1>2. e \in Entry
    BY <1>1 DEF Entry, State
  <1>3. /\ e.state = "subscribe" /\ e.update = d.update /\ e.handle = 0
        /\ e.objects = d.objects /\ e.queue = d.queue /\ e.dev = d.dev
        /\ e.disable = d.disable
    BY <1>1 DEF Entry
  <1>4. Base(e)
    BY <1>1, <1>2, <1>3 DEF Base, Requested
  <1>5. AllListed(d) => AllListed(e)
    BY <1>3 DEF AllListed, Listed
  <1> HIDE DEF e
  <1>6. /\ OutcomeOK(SubscribeIfNeed(e, t))
        /\ AllListed(e) /\ e.disable => CalmOutcome(SubscribeIfNeed(e, t))
    BY <1>3, <1>4, SubscribeOutcome
  <1> QED
    BY <1>3, <1>5, <1>6 DEF StartSubscribing, e

LEMMA CancelOutcome ==
  ASSUME NEW d, Base(d), d.state \in {"cancel", "resubscribe"}, ~d.update,
         NEW t \in SubscribeTypes
  PROVE  /\ OutcomeOK(CancelIfNeed(d, t))
         /\ AllListed(d) /\ d.disable => CalmOutcome(CancelIfNeed(d, t))
  <1> DEFINE target == WalkFrom(Start(d),
                                WithCov(d, {"cancelObject", "cancelProperty"}))
             service == IF d.objects[target].cov = "cancelProperty"
                        THEN "property" ELSE "object"
             again == IF d.state = "resubscribe" THEN "need" ELSE "support"
             f == [d.objects EXCEPT ![target].cov = again]
             e == [d EXCEPT !.objects = f]
             s == [d EXCEPT !.handle = target, !.objects[target].cov = again]
             r == Cancellation(d.dev, d.objects[target].id, service)
  <1>1. d \in Entry /\ d.objects \in Seq(Object) /\ d.dev \in Device
    BY DEF Base, Entry
  <1>2. target \in 0..Start(d) /\ (target # 0 => target \in DOMAIN d.objects)
    BY StartFacts, WalkFromFacts DEF WithCov
  <1>3. CancelIfNeed(d, t) =
          IF target # 0 THEN Result(s, <<r>>)
          ELSE IF d.state = "resubscribe" THEN StartSubscribing(d, t)
          ELSE Result(EnterMainLoop(d), <<>>)
    BY DEF CancelIfNeed
  <1>4. CASE target = 0
    BY <1>3, <1>4, StartSubscribingOutcome, EnterMainLoopOutcome
  <1>5. CASE target # 0
    <2>1. d.objects[target] \in Object /\ d.objects[target].id \in Id
          /\ target \in DOMAIN d.objects /\ target \in Nat
      BY <1>1, <1>2, <1>5, ObjectFacts, StartFacts
    <2>2. again \in Cov
      BY DEF Cov
    <2>3. /\ f \in [DOMAIN d.objects -> Object]
          /\ \A k \in DOMAIN d.objects : f[k].id = d.objects[k].id
      <3> DEFINE o == [d.objects[target] EXCEPT !.cov = again]
      <3> HIDE DEF again, target
      <3>1. o \in Object /\ o.id = d.objects[target].id
        BY <2>1, <2>2 DEF Object
      <3>2. f = [d.objects EXCEPT ![target] = o]
        OBVIOUS
      <3>3. d.objects \in [DOMAIN d.objects -> Object]
        BY <1>1
      <3> HIDE DEF o, f
      <3> QED
        BY <2>1, <3>1, <3>2, <3>3
    <2>4. /\ Base(e) /\ SameIds(d, e) /\ e.objects = f
          /\ e.state = d.state /\ e.disable = d.disable /\ e.update = d.update
          /\ e.handle = d.handle /\ e.queue = d.queue /\ e.dev = d.dev
      <3> HIDE DEF f
      <3> QED
        BY <2>3, MarkAllFacts
    <2>5. s = [e EXCEPT !.handle = target]
      <3> HIDE DEF again, target
      <3> QED
        BY <1>1 DEF Entry
    <2>6. r \in Request /\ r.to = d.dev /\ r.op = "cancel" /\ r.id = d.objects[target].id
      <3>1. service \in Services
        BY DEF Services
      <3> HIDE DEF service, target
      <3> QED
        BY <1>1, <2>1, <3>1, RequestFacts DEF Cancellation
    <2> HIDE DEF target, again, f, e, s, r
    <2>7. /\ s \in Entry /\ s.state = d.state /\ s.handle = target
          /\ s.update = d.update /\ s.disable = d.disable
          /\ s.dev = d.dev /\ s.queue = d.queue /\ s.objects = e.objects
      BY <2>1, <2>4, <2>5 DEF Entry, Base
    <2>8. SameIds(d, s) /\ Len(s.objects) = Len(d.objects)
      BY <2>4, <2>7 DEF SameIds
    <2>9. \A k \in DOMAIN s.queue : Requested(s, s.queue[k])
      BY <1>1, <2>7, <2>8, SameIdsFacts DEF Base
    <2>10. EntryOK(s)
      BY <1>1, <1>2, <1>5, <2>1, <2>7, <2>8, <2>9 DEF EntryOK
    <2>11. AllListed(d) /\ d.disable => Calm(s)
      <3>1. AllListed(d) => AllListed(s)
        BY <1>1, <2>7, <2>8, SameIdsFacts, ListFacts DEF AllListed
      <3> QED
        BY <2>7, <3>1 DEF Calm, Complete, AllListed
    <2>12. AskedLast(s, r)
      BY <2>1, <2>6, <2>7, <2>8 DEF AskedLast, SameIds
    <2>13. <<r>> \in Seq(Request) /\ Len(<<r>>) = 1 /\ <<r>>[1] = r /\ <<r>> # <<>>
      BY <2>6
    <2> QED
      BY <1>3, <1>5, <2>7, <2>10, <2>11, <2>12, <2>13
      DEF OutcomeOK, CalmOutcome, Result
  <1> QED
    BY <1>4, <1>5

LEMMA ReadStructListOutcome ==
  ASSUME NEW d, Base(d)
  PROVE  /\ OutcomeOK(ReadStructList(d)) /\ CalmOutcome(ReadStructList(d))
         /\ ReadStructList(d).dev.update /\ ReadStructList(d).out # <<>>
  <1> DEFINE e == [d EXCEPT !.sendNext = FALSE, !.update = TRUE,
                            !.disable = TRUE, !.state = "read", !.next = 0]
             r == ReadElement(d.dev, 0)
  <1>1. d \in Entry /\ d.dev \in Device
    BY DEF Base, Entry
  <1>2. e \in Entry
    BY <1>1 DEF Entry, State
  <1>3. /\ e.state = "read" /\ e.update = TRUE /\ e.disable = TRUE /\ e.next = 0
        /\ e.handle = d.handle /\ e.objects = d.objects /\ e.queue = d.queue
        /\ e.dev = d.dev
    BY <1>1 DEF Entry
  <1>4. r \in Request /\ r.to = d.dev /\ r.op = "read" /\ r.index = 0
    BY <1>1, RequestFacts DEF ReadElement, ReadElementOf
  <1>5. <<r>> \in Seq(Request) /\ Len(<<r>>) = 1 /\ <<r>>[1] = r /\ <<r>> # <<>>
    BY <1>4
  <1>6. ReadStructList(d) = Result(e, <<r>>)
    BY DEF ReadStructList
  <1> HIDE DEF e
  <1>7. EntryOK(e) /\ Calm(e)
    BY <1>2, <1>3 DEF EntryOK, Calm, Base, Requested
  <1>8. AskedLast(e, r)
    BY <1>3, <1>4 DEF AskedLast
  <1>9. r = ReadElement(e.dev, 0)
    BY <1>3
  <1> HIDE DEF r
  <1> QED
    BY <1>3, <1>5, <1>6, <1>7, <1>8, <1>9 DEF OutcomeOK, CalmOutcome, Result

LEMMA ReadListOutcome ==
  ASSUME NEW d, EntryOK(d), d.state = "read", NEW t \in SubscribeTypes
  PROVE  /\ OutcomeOK(ReadListIfNeed(d, t))
         /\ Calm(d) => CalmOutcome(ReadListIfNeed(d, t))
  <1> DEFINE r == ReadElement(d.dev, d.next)
  <1>1. d \in Entry /\ d.dev \in Device /\ d.next \in Nat /\ d.size \in Nat
    BY DEF EntryOK, Entry
  <1>2. CASE d.next <= d.size
    <2>1. r \in Request /\ r.to = d.dev /\ r.op = "read" /\ r.index = d.next
      BY <1>1, RequestFacts DEF ReadElement, ReadElementOf
    <2>2. <<r>> \in Seq(Request) /\ Len(<<r>>) = 1 /\ <<r>>[1] = r
      BY <2>1
    <2>3. AskedLast(d, r)
      BY <2>1 DEF AskedLast
    <2>4. d.update => r = ReadElement(d.dev, 0)
      BY DEF EntryOK
    <2>5. ReadListIfNeed(d, t) = Result(d, <<r>>)
      BY <1>2 DEF ReadListIfNeed
    <2> HIDE DEF r
    <2> QED
      BY <2>2, <2>3, <2>4, <2>5 DEF OutcomeOK, CalmOutcome, Result
  <1>3. CASE ~(d.next <= d.size)
    <2>1. ~d.update /\ Base(d)
      BY <1>1, <1>3, EntryIsBase DEF EntryOK
    <2>2. ~Calm(d)
      BY <1>1, <1>3, <2>1 DEF Calm, Complete
    <2> QED
      BY <1>3, <2>1, <2>2, StartSubscribingOutcome DEF ReadListIfNeed
  <1> QED
    BY <1>2, <1>3

(* Sending the request at the head of the queue. *)
LEMMA SendNextOutcome ==
  ASSUME NEW d, EntryOK(d), NEW t \in SubscribeTypes
  PROVE  LET r == SendNextRequest(d, t) IN
         /\ OutcomeOK(r)
         /\ Calm(d) => CalmOutcome(r)
         /\ SameIds(d, r.dev) /\ r.dev.objects = d.objects
         /\ r.dev.state = d.state /\ r.dev.disable = d.disable
         /\ r.dev.update = d.update
         /\ r.out # <<>> => Len(r.out) = 1 /\ ~r.dev.sendNext
         /\ d.disable => r = Result(d, <<>>)
  <1> DEFINE r == Head(d.queue)
             found == WalkFrom(Len(d.objects),
                               {k \in DOMAIN d.objects : d.objects[k].id = r.id})
             sent == [d EXCEPT !.queue = Tail(d.queue), !.sendNext = FALSE]
             h == IF found = 0 THEN d.handle ELSE found
             marked == [sent EXCEPT !.handle = h]
             x == SendNextRequest(d, t)
  <1>1. /\ d \in Entry /\ d.queue \in Seq(Request) /\ d.objects \in Seq(Object)
        /\ Len(d.objects) \in Nat /\ d.handle \in Nat /\ d.handle <= Len(d.objects)
        /\ d.disable \in BOOLEAN
    BY DEF EntryOK, Entry
  <1>2. SameIds(d, d)
    BY DEF SameIds
  <1>3. CASE d.disable \/ d.queue = <<>>
    <2>1. x = Result(d, <<>>)
      BY <1>3 DEF SendNextRequest
    <2> HIDE DEF x
    <2> QED
      BY <1>2, <2>1, NothingSent DEF Result, x
  <1>4. CASE ~d.disable /\ d.queue # <<>>
    <2>1. r \in Request /\ Tail(d.queue) \in Seq(Request) /\ Requested(d, r)
      BY <1>1, <1>4 DEF EntryOK
    <2>2. \A k \in DOMAIN Tail(d.queue) : Requested(d, Tail(d.queue)[k])
      <3>1. /\ DOMAIN d.queue = 1..Len(d.queue) /\ Len(d.queue) \in Nat \ {0}
            /\ DOMAIN Tail(d.queue) = 1..(Len(d.queue) - 1)
            /\ \A k \in 1..(Len(d.queue) - 1) : Tail(d.queue)[k] = d.queue[k + 1]
        BY <1>1, <1>4
      <3> QED
        BY <3>1 DEF EntryOK
    <2>3. found \in 0..Len(d.objects)
          /\ (found # 0 => found \in DOMAIN d.objects /\ d.objects[found].id = r.id)
      <3> HIDE DEF r
      <3> QED
        BY <1>1, WalkFromFacts
    <2>4. h \in Nat /\ h <= Len(d.objects)
      BY <1>1, <2>3
    <2>5. x = IF r.op # "sub" THEN Result(sent, <<r>>)
              ELSE IF t = "none" THEN Result(sent, <<>>)
              ELSE Result(marked, <<r>>)
      BY <1>4 DEF SendNextRequest
    <2> HIDE DEF found, h, r, x
    <2>6. /\ sent \in Entry /\ sent.sendNext = FALSE /\ sent.queue = Tail(d.queue)
          /\ sent.handle = d.handle /\ sent.objects = d.objects
          /\ sent.dev = d.dev /\ sent.state = d.state /\ sent.next = d.next
          /\ sent.size = d.size /\ sent.disable = d.disable /\ sent.update = d.update
      BY <1>1, <2>1 DEF Entry
    <2> HIDE DEF sent
    <2>7. /\ marked \in Entry /\ marked.sendNext = FALSE
          /\ marked.queue = Tail(d.queue)
          /\ marked.handle = h /\ marked.objects = d.objects
          /\ marked.dev = d.dev /\ marked.state = d.state /\ marked.next = d.next
          /\ marked.size = d.size /\ marked.disable = d.disable
          /\ marked.update = d.update
      BY <2>4, <2>6 DEF Entry
    <2> HIDE DEF marked
    <2>8. ~d.update
      BY <1>4 DEF EntryOK
    <2>9. EntryOK(sent) /\ (Calm(d) => Calm(sent))
      BY <2>2, <2>6 DEF EntryOK, Calm, Complete, Listed, Requested
    <2>10. EntryOK(marked) /\ (Calm(d) => Calm(marked))
      <3>1. d.state \in {"subscribe", "cancel", "resubscribe"} => h # 0
        BY <2>3 DEF EntryOK, h
      <3> QED
        BY <2>2, <2>4, <2>7, <3>1 DEF EntryOK, Calm, Complete, Listed, Requested
    <2>11. Calm(d) => d.state = "main"
      BY <1>4 DEF Calm
    <2>12. r.op # "sub" /\ d.state = "main" => AskedLast(sent, r)
      BY <2>1, <2>6 DEF AskedLast, Requested
    <2>13. r.op = "sub" /\ d.state = "main" => AskedLast(marked, r)
      <3>1. r.op = "sub" => found # 0
        <4> SUFFICES ASSUME r.op = "sub" PROVE found # 0
          OBVIOUS
        <4>1. PICK n \in DOMAIN d.objects : d.objects[n].id = r.id
          BY <2>1 DEF Requested
        <4>2. n \in 1..Len(d.objects)
          BY <1>1, <4>1
        <4> QED
          BY <1>1, <4>1, <4>2, WalkFromFinds DEF found
      <3>2. r.op = "sub" => h # 0 /\ d.objects[h].id = r.id
        BY <2>3, <3>1 DEF h
      <3> QED
        BY <2>1, <2>7, <3>2 DEF AskedLast, Requested
    <2>14. <<r>> \in Seq(Request) /\ Len(<<r>>) = 1 /\ <<r>>[1] = r /\ <<r>> # <<>>
           /\ <<>> \in Seq(Request)
      BY <2>1
    <2>15. SameIds(d, sent) /\ SameIds(d, marked)
      BY <2>6, <2>7 DEF SameIds
    <2>16. CASE r.op # "sub"
      BY <1>4, <2>5, <2>6, <2>8, <2>9, <2>11, <2>12, <2>14, <2>15, <2>16
      DEF OutcomeOK, CalmOutcome, Result, x
    <2>17. CASE r.op = "sub" /\ t = "none"
      BY <1>4, <2>5, <2>6, <2>8, <2>9, <2>14, <2>15, <2>17
      DEF OutcomeOK, CalmOutcome, Result, x
    <2>18. CASE r.op = "sub" /\ t # "none"
      BY <1>4, <2>5, <2>7, <2>8, <2>10, <2>11, <2>13, <2>14, <2>15, <2>18
      DEF OutcomeOK, CalmOutcome, Result, x
    <2> QED
      BY <2>16, <2>17, <2>18
  <1> QED
    BY <1>1, <1>3, <1>4

(* ... once the answer to the last one is there. *)
LEMMA SendAgainOutcome ==
  ASSUME NEW d, EntryOK(d), NEW t \in SubscribeTypes
  PROVE  LET r == SendNextRequest([d EXCEPT !.sendNext = TRUE], t) IN
         /\ OutcomeOK(r)
         /\ Calm(d) => CalmOutcome(r)
         /\ r.out # <<>> => Len(r.out) = 1 /\ ~r.dev.sendNext
         /\ r.dev.state = d.state /\ r.dev.disable = d.disable
         /\ r.dev.update = d.update
  <1> DEFINE e == [d EXCEPT !.sendNext = TRUE]
  <1>1. /\ e \in Entry /\ e.state = d.state /\ e.disable = d.disable
        /\ e.update = d.update /\ e.size = d.size /\ e.next = d.next
        /\ e.objects = d.objects /\ e.handle = d.handle /\ e.queue = d.queue
        /\ e.dev = d.dev
    BY DEF EntryOK, Entry
  <1> HIDE DEF e
  <1>2. EntryOK(e)
    BY <1>1 DEF EntryOK, Requested
  <1>3. Calm(d) => Calm(e)
    BY <1>1 DEF Calm, Complete, Listed
  <1> QED
    BY <1>1, <1>2, <1>3, SendNextOutcome DEF e

LEMMA RefusedFacts ==
  ASSUME NEW o \in Object, NEW t \in SubscribeTypes
  PROVE  Refused(o, t) \in Object /\ Refused(o, t).id = o.id
  BY DEF Refused, Service, Object, Cov

LEMMA UnexpectedOutcome ==
  ASSUME NEW d, EntryOK(d), NEW t \in SubscribeTypes
  PROVE  LET r == HandleForUnexpected(d, t) IN
         /\ OutcomeOK(r)
         /\ Calm(d) => CalmOutcome(r)
  <1>1. /\ d \in Entry /\ Base(d) /\ d.state \in State
        /\ d.objects \in Seq(Object) /\ d.handle \in Nat
    BY EntryIsBase DEF EntryOK, Entry
  <1>2. CASE d.state = "read"
    <2>1. HandleForUnexpected(d, t) =
            IF d.size = 0 THEN ReadStructList(d) ELSE ReadListIfNeed(d, t)
      BY <1>2 DEF HandleForUnexpected
    <2> QED
      BY <1>1, <1>2, <2>1, ReadStructListOutcome, ReadListOutcome
  <1>3. CASE d.state = "subscribe"
    <2> DEFINE f == [d.objects EXCEPT ![d.handle] = Refused(d.objects[d.handle], t)]
               e == [d EXCEPT !.objects = f]
               g == [d EXCEPT !.objects[d.handle] = Refused(d.objects[d.handle], t)]
    <2>1. HandleForUnexpected(d, t) =
            SubscribeIfNeed(IF d.handle = 0 \/ t = "none" THEN d ELSE g, t)
      BY <1>3 DEF HandleForUnexpected
    <2>2. d.handle \in DOMAIN d.objects /\ ~d.update
      BY <1>1, <1>3 DEF EntryOK
    <2>3. /\ f \in [DOMAIN d.objects -> Object]
          /\ \A k \in DOMAIN d.objects : f[k].id = d.objects[k].id
      <3> DEFINE o == Refused(d.objects[d.handle], t)
      <3>1. o \in Object /\ o.id = d.objects[d.handle].id
        BY <1>1, <2>2, RefusedFacts
      <3>2. d.objects \in [DOMAIN d.objects -> Object]
        BY <1>1
      <3>3. f = [d.objects EXCEPT ![d.handle] = o]
        OBVIOUS
      <3> HIDE DEF o, f
      <3> QED
        BY <2>2, <3>1, <3>2, <3>3
    <2>4. g = e
      <3> DEFINE o == Refused(d.objects[d.handle], t)
      <3> HIDE DEF o
      <3>1. g = [d EXCEPT !.objects[d.handle] = o]
        BY DEF o
      <3>2. e = [d EXCEPT !.objects = [d.objects EXCEPT ![d.handle] = o]]
        BY DEF o
      <3> QED
        BY <1>1, <3>1, <3>2 DEF Entry
    <2>5. /\ Base(e) /\ SameIds(d, e)
          /\ e.state = d.state /\ e.disable = d.disable /\ e.update = d.update
          /\ e.dev = d.dev
      <3> HIDE DEF f
      <3> QED
        BY <1>1, <2>3, MarkAllFacts
    <2> HIDE DEF e, f, g
    <2>6. AllListed(d) => AllListed(e)
      BY <1>1, <2>5, SameIdsFacts, ListFacts DEF AllListed, Base, Entry
    <2>7. Calm(d) => AllListed(d) /\ d.disable
      BY <1>3, <2>2 DEF Calm, Complete, AllListed
    <2>8. /\ OutcomeOK(SubscribeIfNeed(e, t)) /\ OutcomeOK(SubscribeIfNeed(d, t))
          /\ Calm(d) => CalmOutcome(SubscribeIfNeed(e, t))
                          /\ CalmOutcome(SubscribeIfNeed(d, t))
      BY <1>1, <1>3, <2>2, <2>5, <2>6, <2>7, SubscribeOutcome
    <2> QED
      BY <2>1, <2>4, <2>8
  <1>4. CASE d.state \in {"cancel", "resubscribe"}
    <2>1. HandleForUnexpected(d, t) = CancelIfNeed(d, t)
      BY <1>4 DEF HandleForUnexpected
    <2>2. ~d.update
      BY <1>4 DEF EntryOK
    <2>3. Calm(d) => AllListed(d) /\ d.disable
      BY <1>4, <2>2 DEF Calm, Complete, AllListed
    <2> QED
      BY <1>1, <1>4, <2>1, <2>2, <2>3, CancelOutcome
  <1>5. CASE d.state = "main"
    <2>1. HandleForUnexpected(d, t) = SendNextRequest([d EXCEPT !.sendNext = TRUE], t)
      BY <1>5 DEF HandleForUnexpected
    <2> QED
      BY <2>1, SendAgainOutcome
  <1> QED
    BY <1>1, <1>2, <1>3, <1>4, <1>5 DEF State

LEMMA CleanUpFacts ==
  ASSUME NEW d, EntryOK(d)
  PROVE  /\ Base(CleanUp(d)) /\ CleanUp(d).dev = d.dev
         /\ CleanUp(d).state = d.state /\ CleanUp(d).disable = d.disable
         /\ ~CleanUp(d).update /\ CleanUp(d).next = d.next
         /\ d.update => CleanUp(d).objects = <<>> /\ CleanUp(d).queue = <<>>
         /\ ~d.update => CleanUp(d) = d
         /\ d.state \in {"subscribe", "cancel", "resubscribe"} =>
              CleanUp(d).handle # 0
  <1>1. CASE d.update
    <2> DEFINE e == [d EXCEPT !.handle = 0, !.objects = <<>>, !.queue = <<>>,
                              !.update = FALSE, !.size = 0]
    <2>1. CleanUp(d) = e
      BY <1>1 DEF CleanUp
    <2>2. d \in Entry
      BY DEF EntryOK
    <2>3. /\ e \in Entry /\ e.dev = d.dev /\ e.state = d.state
          /\ e.disable = d.disable /\ e.update = FALSE /\ e.objects = <<>>
          /\ e.queue = <<>> /\ e.handle = 0 /\ e.next = d.next
      <3>1. <<>> \in Seq(Object) /\ <<>> \in Seq(Request)
        OBVIOUS
      <3>2. e \in Entry
        BY <2>2, <3>1 DEF Entry
      <3>3. /\ e.dev = d.dev /\ e.state = d.state /\ e.disable = d.disable
            /\ e.update = FALSE /\ e.handle = 0 /\ e.next = d.next
        BY <2>2 DEF Entry
      <3>4. e.objects = <<>> /\ e.queue = <<>>
        BY <2>2 DEF Entry
      <3> QED
        BY <3>2, <3>3, <3>4
    <2> HIDE DEF e
    <2>4. Base(e)
      BY <2>3 DEF Base
    <2> QED
      BY <1>1, <2>1, <2>3, <2>4 DEF EntryOK
  <1>2. CASE ~d.update
    BY <1>2, EntryIsBase DEF CleanUp, EntryOK
  <1> QED
    BY <1>1, <1>2

(* The list grows by the element that was read. *)
LEMMA AppendListed ==
  ASSUME NEW d \in Entry, NEW j \in DOMAIN ObjectList[d.dev], Listed(d, j - 1),
         NEW e \in Entry, e.dev = d.dev,
         e.objects = IF ObjectList[d.dev][j] = "other" THEN d.objects
                     ELSE Append(d.objects, NewObject(<<d.dev, j>>))
  PROVE  Listed(e, j)
  <1> DEFINE id == <<d.dev, j>>
             n == Len(d.objects)
             known == {d.objects[k].id : k \in DOMAIN d.objects}
             upTo(m) == {i \in Id : i[1] = d.dev /\ i[2] <= m /\ KindOf(i) # "other"}
  <1>1. /\ d.dev \in Device /\ j \in Int /\ id \in Id
        /\ d.objects \in Seq(Object) /\ n \in Nat /\ DOMAIN d.objects = 1..n
    BY EntryFacts, ListFacts
  <1>2. \A i \in Id : /\ i[1] \in Device /\ i[2] \in Int
                      /\ i = <<i[1], i[2]>> /\ KindOf(i) = ObjectList[i[1]][i[2]]
    BY ListFacts DEF Id, KindOf
  <1>3. known = upTo(j - 1)
    BY DEF Listed
  <1>4. \A i \in Id : i[1] = d.dev /\ i[2] <= j => i = id \/ i[2] <= j - 1
    BY <1>1, <1>2
  <1>5. CASE ObjectList[d.dev][j] = "other"
    <2>1. upTo(j) = upTo(j - 1)
      BY <1>1, <1>2, <1>4, <1>5
    <2> QED
      BY <1>1, <1>3, <1>5, <2>1 DEF Listed
  <1>6. CASE ObjectList[d.dev][j] # "other"
    <2> DEFINE o == NewObject(id)
    <2>1. /\ e.objects = Append(d.objects, o) /\ o.id = id
      BY <1>6 DEF NewObject
    <2>2. /\ DOMAIN e.objects = 1..(n + 1)
          /\ \A k \in 1..n : e.objects[k] = d.objects[k]
          /\ e.objects[n + 1] = o
      <3>1. o \in Object
        BY <1>1 DEF NewObject, Object, Cov
      <3> HIDE DEF o
      <3>2. /\ DOMAIN Append(d.objects, o) = 1..(n + 1)
            /\ \A k \in 1..n : Append(d.objects, o)[k] = d.objects[k]
            /\ Append(d.objects, o)[n + 1] = o
        BY <1>1, <3>1, AppendFacts
      <3> QED
        BY <2>1, <3>2
    <2> HIDE DEF o
    <2>3. {e.objects[k].id : k \in DOMAIN e.objects} = known \cup {id}
      <3>1. \A k \in DOMAIN e.objects : k \in 1..n \/ k = n + 1
        BY <1>1, <2>2
      <3>2. \A k \in DOMAIN e.objects : e.objects[k].id \in known \cup {id}
        BY <1>1, <2>1, <2>2, <3>1
      <3>3. \A x \in known : \E k \in DOMAIN e.objects : e.objects[k].id = x
        <4> TAKE x \in known
        <4>1. PICK k \in 1..n : d.objects[k].id = x
          BY <1>1
        <4>2. k \in DOMAIN e.objects /\ e.objects[k].id = x
          BY <1>1, <2>2, <4>1
        <4> QED
          BY <4>2
      <3>4. n + 1 \in DOMAIN e.objects /\ e.objects[n + 1].id = id
        <4>1. n + 1 \in 1..(n + 1)
          BY <1>1
        <4>2. e.objects[n + 1].id = o.id
          BY <2>2
        <4> QED
          BY <2>1, <2>2, <4>1, <4>2
      <3> HIDE DEF known, id
      <3> QED
        BY <3>2, <3>3, <3>4
    <2>4. upTo(j) = upTo(j - 1) \cup {id}
      <3>1. id \in upTo(j)
        BY <1>1, <1>2, <1>6 DEF KindOf
      <3>2. \A i \in upTo(j - 1) : i \in upTo(j)
        BY <1>1, <1>2
      <3>3. \A i \in upTo(j) : i = id \/ i \in upTo(j - 1)
        BY <1>4
      <3> HIDE DEF upTo, id
      <3> QED
        BY <3>1, <3>2, <3>3
    <2>5. \A k \in 1..n : d.objects[k].id[2] < j
      <3> TAKE k \in 1..n
      <3>1. d.objects[k].id \in upTo(j - 1)
        BY <1>1, <1>3
      <3> QED
        BY <1>1, <1>2, <3>1
    <2>6. \A a, b \in DOMAIN e.objects :
            a < b => e.objects[a].id[2] < e.objects[b].id[2]
      BY <1>1, <2>1, <2>2, <2>5 DEF Listed
    <2> QED
      BY <1>3, <2>3, <2>4, <2>6 DEF Listed
  <1> QED
    BY <1>5, <1>6

LEMMA TakeElementFacts ==
  ASSUME NEW d, Base(d), ~d.update, NEW from \in Device, NEW j \in Nat,
         j = 0 \/ j \in DOMAIN ObjectList[from],
         NEW e, e = TakeElement(d, from, j)
  PROVE  /\ Base(e) /\ ~e.update /\ e.dev = d.dev /\ e.disable = d.disable
         /\ e.handle = d.handle /\ e.next = d.next
         /\ j = 0 => e.state = "read" /\ e.size = Len(ObjectList[from])
                       /\ e.objects = d.objects
         /\ j # 0 => /\ e.state = d.state /\ e.size = d.size
                     /\ e.objects = IF ObjectList[from][j] = "other"
                                    THEN d.objects
                                    ELSE Append(d.objects, NewObject(<<from, j>>))
  <1>1. /\ d \in Entry /\ d.objects \in Seq(Object) /\ Len(d.objects) \in Nat
        /\ Len(ObjectList[from]) \in Nat /\ d.handle <= Len(d.objects)
        /\ d.handle \in Nat
    BY ListFacts, EntryFacts DEF Base
  <1>2. CASE j = 0
    <2>1. e = [d EXCEPT !.size = Len(ObjectList[from]), !.state = "read"]
      BY <1>2 DEF TakeElement
    <2>2. e \in Entry
      BY <1>1, <2>1 DEF Entry, State
    <2>3. /\ e.dev = d.dev /\ e.disable = d.disable /\ e.handle = d.handle
          /\ e.next = d.next /\ e.update = d.update /\ e.objects = d.objects
          /\ e.queue = d.queue /\ e.state = "read"
          /\ e.size = Len(ObjectList[from])
      BY <1>1, <2>1 DEF Entry
    <2> QED
      BY <1>2, <2>2, <2>3 DEF Base, Requested
  <1>3. CASE j # 0 /\ ObjectList[from][j] = "other"
    BY <1>3 DEF TakeElement
  <1>4. CASE j # 0 /\ ObjectList[from][j] # "other"
    <2> DEFINE o == NewObject(<<from, j>>)
               a == Append(d.objects, o)
    <2>1. o \in Object
      BY <1>4, ListFacts DEF NewObject, Object, Cov
    <2>2. e = [d EXCEPT !.objects = a]
      BY <1>4 DEF TakeElement
    <2> HIDE DEF o
    <2>3. /\ a \in Seq(Object) /\ Len(a) = Len(d.objects) + 1
          /\ \A k \in DOMAIN d.objects : k \in DOMAIN a /\ a[k] = d.objects[k]
      <3>1. /\ a \in Seq(Object) /\ Len(a) = Len(d.objects) + 1
            /\ DOMAIN a = 1..(Len(d.objects) + 1)
            /\ \A k \in 1..Len(d.objects) : a[k] = d.objects[k]
        BY <1>1, <2>1, AppendFacts
      <3> QED
        BY <1>1, <3>1
    <2> HIDE DEF a
    <2>4. e \in Entry
      BY <1>1, <2>2, <2>3 DEF Entry
    <2>5. /\ e.dev = d.dev /\ e.disable = d.disable /\ e.handle = d.handle
          /\ e.next = d.next /\ e.update = d.update /\ e.objects = a
          /\ e.queue = d.queue /\ e.state = d.state /\ e.size = d.size
      BY <1>1, <2>2 DEF Entry
    <2>6. \A r : Requested(d, r) => Requested(e, r)
      BY <2>3, <2>5 DEF Requested
    <2>7. Base(e)
      BY <1>1, <2>3, <2>4, <2>5, <2>6 DEF Base
    <2> QED
      BY <1>4, <2>5, <2>7 DEF a, o
  <1> QED
    BY <1>2, <1>3, <1>4

LEMMA ListAnswerOutcome ==
  ASSUME NEW d, EntryOK(d), NEW t \in SubscribeTypes,
         NEW from \in Device, NEW j \in Nat,
         j = 0 \/ j \in DOMAIN ObjectList[from]
  PROVE  LET r == ListAnswer(d, t, from, j) IN
         /\ OutcomeOK(r)
         /\ Calm(d) /\ d.state = "read" /\ from = d.dev /\ j = d.next =>
              CalmOutcome(r)
  <1> DEFINE c == CleanUp(d)
             e == TakeElement(c, from, j)
             s == [e EXCEPT !.next = j + 1]
             r == ReadElementOf(d.dev, from, j + 1)
             Asked == Calm(d) /\ d.state = "read" /\ from = d.dev /\ j = d.next
  <1>1. /\ Base(c) /\ ~c.update /\ c.dev = d.dev /\ c.state = d.state
        /\ c.disable = d.disable
        /\ d.update => c.objects = <<>>
        /\ ~d.update => c = d
        /\ d.state \in {"subscribe", "cancel", "resubscribe"} => c.handle # 0
    BY CleanUpFacts
  <1> HIDE DEF c
  <1>2. /\ Base(e) /\ ~e.update /\ e.dev = d.dev /\ e.disable = d.disable
        /\ e.handle = c.handle
        /\ j = 0 => e.state = "read" /\ e.size = Len(ObjectList[from])
                       /\ e.objects = c.objects
        /\ j # 0 => /\ e.state = d.state /\ e.size = c.size
                    /\ e.objects = IF ObjectList[from][j] = "other"
                                   THEN c.objects
                                   ELSE Append(c.objects, NewObject(<<from, j>>))
    BY <1>1, TakeElementFacts
  <1>3. ListAnswer(d, t, from, j) =
          IF j < e.size THEN Result(s, <<r>>)
          ELSE IF t # "none" THEN StartSubscribing(e, t)
          ELSE Result(EnterMainLoop(e), <<>>)
    <2>1. ListAnswer(d, t, from, j) =
            IF j < e.size
            THEN Result(s, <<ReadElementOf(e.dev, from, j + 1)>>)
            ELSE IF t # "none" THEN StartSubscribing(e, t)
            ELSE Result(EnterMainLoop(e), <<>>)
      BY <1>1, <1>2 DEF ListAnswer, c
    <2> QED
      BY <1>2, <2>1
  <1> HIDE DEF e
  <1>4. /\ d \in Entry /\ d.dev \in Device /\ e \in Entry /\ e.size \in Nat
        /\ Len(ObjectList[d.dev]) \in Nat
    BY <1>2, EntryFacts, ListFacts DEF Base, EntryOK
  <1>5. Asked => /\ Listed(e, j) /\ e.disable /\ e.state = "read"
                 /\ e.size = Len(ObjectList[d.dev]) /\ j <= e.size
    <2> SUFFICES ASSUME Asked
                 PROVE  /\ Listed(e, j) /\ e.disable /\ e.state = "read"
                        /\ e.size = Len(ObjectList[d.dev]) /\ j <= e.size
      OBVIOUS
    <2>1. d.disable
      BY DEF Calm
    <2>2. CASE j = 0
      <3>1. d.update
        BY <2>2 DEF Calm, Complete
      <3>2. e.objects = <<>> /\ e.size = Len(ObjectList[d.dev])
        BY <1>1, <1>2, <2>2, <3>1
      <3>3. \A id \in Id : id[1] = d.dev => ~(id[2] <= 0)
        BY <1>4, ListFacts DEF Id
      <3>4. Listed(e, 0)
        BY <1>2, <3>2, <3>3 DEF Listed
      <3> QED
        BY <1>2, <1>4, <2>1, <2>2, <3>2, <3>4
    <2>3. CASE j # 0
      <3>1. ~d.update /\ j \in DOMAIN ObjectList[d.dev]
        BY <2>3 DEF EntryOK
      <3>2. Listed(d, j - 1) /\ d.size = Len(ObjectList[d.dev])
        BY <3>1 DEF Calm, Complete
      <3>3. Listed(e, j)
        BY <1>1, <1>2, <1>4, <2>3, <3>1, <3>2, AppendListed
      <3>4. j <= Len(ObjectList[d.dev])
        BY <1>4, <3>1, ListFacts
      <3> QED
        BY <1>1, <1>2, <2>1, <2>3, <3>1, <3>2, <3>3, <3>4
    <2> QED
      BY <2>2, <2>3
  <1>6. CASE j < e.size
    <2>1. /\ s \in Entry /\ s.next = j + 1 /\ s.dev = d.dev
          /\ s.state = e.state /\ s.update = e.update /\ s.disable = e.disable
          /\ s.size = e.size /\ s.handle = e.handle /\ s.objects = e.objects
          /\ s.queue = e.queue
      <3>1. ASSUME NEW n \in Nat
            PROVE  LET x == [e EXCEPT !.next = n] IN
                   /\ x \in Entry /\ x.next = n /\ x.dev = e.dev
                   /\ x.state = e.state /\ x.update = e.update
                   /\ x.disable = e.disable /\ x.size = e.size
                   /\ x.handle = e.handle /\ x.objects = e.objects
                   /\ x.queue = e.queue
        BY <1>4 DEF Entry
      <3>2. j + 1 \in Nat /\ e.dev = d.dev
        BY <1>2
      <3> QED
        BY <3>1, <3>2
    <2> HIDE DEF s
    <2>2. EntryOK(s)
      <3>1. s.state = "main" => ~s.disable
        BY <1>2, <2>1 DEF EntryOK
      <3>2. s.state \in {"subscribe", "cancel", "resubscribe"} => s.handle # 0
        BY <1>1, <1>2, <2>1
      <3>3. \A k \in DOMAIN s.queue : Requested(s, s.queue[k])
        BY <1>2, <2>1 DEF Base, Requested
      <3> QED
        BY <1>2, <2>1, <3>1, <3>2, <3>3 DEF EntryOK, Base
    <2>3. r \in Request /\ r.to = d.dev /\ r.op = "read" /\ r.index = j + 1
      BY <1>4, RequestFacts DEF ReadElementOf
    <2>4. <<r>> \in Seq(Request) /\ Len(<<r>>) = 1 /\ <<r>>[1] = r
      BY <2>3
    <2>5. Asked => Calm(s)
      <3> SUFFICES ASSUME Asked PROVE Calm(s)
        OBVIOUS
      <3>1. /\ Listed(e, j) /\ s.disable /\ s.state = "read"
            /\ s.size = Len(ObjectList[s.dev])
        BY <1>5, <2>1
      <3>2. s.next \in 1..s.size /\ s.next - 1 = j
        BY <1>4, <1>6, <2>1
      <3>3. Listed(s, j)
        BY <2>1, <1>2, <3>1 DEF Listed
      <3>4. Listed(s, s.next - 1)
        BY <3>2, <3>3
      <3> QED
        BY <3>1, <3>2, <3>4 DEF Calm, Complete
    <2>6. Asked => AskedLast(s, r)
      BY <1>5, <2>1, <2>3 DEF AskedLast
    <2> HIDE DEF r, Asked
    <2>7. OutcomeOK(Result(s, <<r>>)) /\ (Asked => CalmOutcome(Result(s, <<r>>)))
      BY <1>2, <2>1, <2>2, <2>4, <2>5, <2>6 DEF OutcomeOK, CalmOutcome, Result
    <2> QED
      BY <1>3, <1>6, <2>7 DEF Asked
  <1>7. CASE ~(j < e.size)
    <2>1. Asked => AllListed(e) /\ e.disable
      BY <1>2, <1>4, <1>5, <1>7 DEF AllListed
    <2> QED
      BY <1>2, <1>3, <1>7, <2>1, StartSubscribingOutcome, EnterMainLoopOutcome
  <1> QED
    BY <1>6, <1>7


LEMMA SimpleAnswerOutcome ==
  ASSUME NEW d, EntryOK(d), ~NullObject(d), NEW t \in SubscribeTypes
  PROVE  LET r == SimpleAnswer(d, t) IN
         /\ OutcomeOK(r)
         /\ Calm(d) /\ d.state # "read" => CalmOutcome(r)
  <1> DEFINE m == [d EXCEPT !.objects[d.handle].cov = "subscribed"]
             x == SimpleAnswer(d, t)
  <1>1. /\ d \in Entry /\ Base(d) /\ d.state \in State
        /\ d.objects \in Seq(Object) /\ d.handle \in Nat
    BY EntryIsBase DEF EntryOK, Entry
  <1>2. CASE d.state \in {"cancel", "resubscribe"}
    <2>1. x = CancelIfNeed(d, t)
      BY <1>2 DEF SimpleAnswer
    <2>2. ~d.update
      BY <1>2 DEF EntryOK
    <2>3. Calm(d) => AllListed(d) /\ d.disable
      BY <1>2, <2>2 DEF Calm, Complete, AllListed
    <2> QED
      BY <1>1, <1>2, <2>1, <2>2, <2>3, CancelOutcome
  <1>3. CASE d.state \notin {"cancel", "resubscribe"}
    <2>1. d.handle \in DOMAIN d.objects
      BY <1>1, <1>3 DEF NullObject, EntryOK
    <2>2. Base(m) /\ SameIds(d, m) /\ m = [d EXCEPT !.objects = m.objects]
      BY <1>1, <2>1, MarkFacts DEF Cov
    <2> HIDE DEF m
    <2>3. /\ m.state = d.state /\ m.disable = d.disable /\ m.update = d.update
          /\ m.handle = d.handle /\ m.queue = d.queue /\ m.dev = d.dev
          /\ m.next = d.next /\ m.size = d.size
      <3>1. ASSUME NEW o
            PROVE  LET e == [d EXCEPT !.objects = o] IN
                   /\ e.state = d.state /\ e.disable = d.disable
                   /\ e.update = d.update /\ e.handle = d.handle
                   /\ e.queue = d.queue /\ e.dev = d.dev
                   /\ e.next = d.next /\ e.size = d.size
        BY <1>1 DEF Entry
      <3>2. LET e == [d EXCEPT !.objects = m.objects] IN
            /\ e.state = d.state /\ e.disable = d.disable
            /\ e.update = d.update /\ e.handle = d.handle
            /\ e.queue = d.queue /\ e.dev = d.dev
            /\ e.next = d.next /\ e.size = d.size
        BY <3>1, Zenon
      <3> QED
        BY <2>2, <3>2, Zenon
    <2>4. EntryOK(m)
      BY <1>1, <2>2, <2>3 DEF EntryOK, Base, SameIds
    <2>5. AllListed(d) => AllListed(m)
      BY <1>1, <2>2, <2>3, SameIdsFacts, ListFacts, EntryFacts
      DEF AllListed, Base
    <2>6. CASE d.state = "subscribe"
      <3>1. x = SubscribeIfNeed(m, t)
        BY <2>6 DEF SimpleAnswer, m
      <3>2. ~d.update
        BY <2>6 DEF EntryOK
      <3>3. Calm(d) => AllListed(m) /\ m.disable
        BY <2>3, <2>5, <2>6, <3>2 DEF Calm, Complete, AllListed
      <3> QED
        BY <2>2, <2>3, <2>6, <3>1, <3>2, <3>3, SubscribeOutcome
    <2>7. CASE d.state \in {"read", "main"}
      <3>1. x = SendNextRequest([m EXCEPT !.sendNext = TRUE], t)
        BY <2>7 DEF SimpleAnswer, m
      <3>2. Calm(d) /\ d.state = "main" => Calm(m)
        <4>1. d.state = "main" => ~d.update
          BY DEF EntryOK
        <4> QED
          BY <2>3, <2>5, <4>1 DEF Calm, Complete, AllListed
      <3> QED
        BY <2>4, <2>7, <3>1, <3>2, SendAgainOutcome
    <2> QED
      BY <1>1, <1>3, <2>6, <2>7 DEF State
  <1> QED
    BY <1>2, <1>3

(* No answer came in time. *)
LEMMA TimedOutOutcome ==
  ASSUME NEW d, EntryOK(d), NEW t \in SubscribeTypes
  PROVE  LET r == TimedOut(d, t) IN
         /\ OutcomeOK(r)
         /\ Calm(d) => CalmOutcome(r)
  <1>1. d.state = "main" => ~d.disable
    BY DEF EntryOK
  <1>2. CASE d.state # "main"
    <2>1. TimedOut(d, t) = HandleForUnexpected(d, t)
      BY <1>2 DEF TimedOut
    <2> QED
      BY <1>2, <2>1, UnexpectedOutcome
  <1>3. CASE d.state = "main"
    BY <1>1, <1>3, SendAgainOutcome DEF TimedOut
  <1> QED
    BY <1>2, <1>3

-----------------------------------------------------------------------------
(* What a step at one place does to the place.                             *)

LEMMA NotEmpty ==
  ASSUME NEW S, NEW s \in Seq(S), NEW k \in DOMAIN s
  PROVE  s # <<>>
  OBVIOUS

LEMMA ConcatFacts ==
  ASSUME NEW s \in Seq(Request), NEW o \in Seq(Request)
  PROVE  /\ s \o o \in Seq(Request) /\ Len(s \o o) = Len(s) + Len(o)
         /\ Len(s) \in Nat /\ Len(o) \in Nat
         /\ s \o o = <<>> => s = <<>> /\ o = <<>>
  <1>1. /\ s \o o \in Seq(Request) /\ Len(s \o o) = Len(s) + Len(o)
        /\ Len(s) \in Nat /\ Len(o) \in Nat
    OBVIOUS
  <1>2. (Len(s) = 0 => s = <<>>) /\ (Len(o) = 0 => o = <<>>)
    OBVIOUS
  <1>3. s \o o = <<>> => Len(s \o o) = 0
    OBVIOUS
  <1>4. \A a, b \in Nat : a + b = 0 => a = 0 /\ b = 0
    OBVIOUS
  <1> QED
    BY <1>1, <1>2, <1>3, <1>4

LEMMA OneOrNone ==
  ASSUME NEW s \in Seq(Request), NEW o \in Seq(Request)
  PROVE  /\ s \o o \in Seq(Request)
         /\ o # <<>> /\ ~(Len(s \o o) > 1) => s = <<>> /\ s \o o = o /\ Len(o) = 1
         /\ o = <<>> => s \o o = s
         /\ s = <<>> => s \o o = o
  <1>1. /\ s \o o \in Seq(Request) /\ Len(s \o o) = Len(s) + Len(o)
        /\ Len(s) \in Nat /\ Len(o) \in Nat
    OBVIOUS
  <1>2. o = <<>> => s \o o = s
    OBVIOUS
  <1>3. s = <<>> => s \o o = o
    OBVIOUS
  <1>4. (Len(s) = 0 => s = <<>>) /\ (Len(o) = 0 => o = <<>>)
    OBVIOUS
  <1>5. ASSUME o # <<>>, ~(Len(s \o o) > 1)
        PROVE  s = <<>> /\ Len(o) = 1
    <2>1. Len(o) # 0
      BY <1>4, <1>5
    <2>2. ASSUME NEW a \in Nat, NEW b \in Nat, b # 0, ~(a + b > 1)
          PROVE  a = 0 /\ b = 1
      BY <2>2
    <2>3. Len(s) = 0 /\ Len(o) = 1
      BY <1>1, <1>5, <2>1, <2>2
    <2> QED
      BY <1>4, <2>3
  <1> QED
    BY <1>1, <1>2, <1>3, <1>5

LEMMA UnderWayFacts ==
  ASSUME NEW i \in Place, NEW s \in Seq(Request)
  PROVE  /\ UnderWay(i, s) \in Seq(Request)
         /\ ~Sendable(i) \/ s = <<>> => UnderWay(i, s) = <<>>
         /\ Sendable(i) /\ Len(s) = 1 => UnderWay(i, s) = s
  <1>1. MaxInFlight \in Nat \ {0} /\ Len(s) \in Nat
    BY DeviceAssumption
  <1>2. Len(s) > MaxInFlight => SubSeq(s, 1, MaxInFlight) \in Seq(Request)
    BY <1>1
  <1>3. s = <<>> => ~(Len(s) > MaxInFlight) /\ Len(s) # 1
    BY <1>1
  <1>4. \/ UnderWay(i, s) = <<>> /\ ~Sendable(i)
        \/ UnderWay(i, s) = s /\ Sendable(i) /\ Len(s) <= MaxInFlight
        \/ /\ UnderWay(i, s) = SubSeq(s, 1, MaxInFlight)
           /\ Sendable(i) /\ Len(s) > MaxInFlight
    BY <1>1 DEF UnderWay
  <1>5. <<>> \in Seq(Request)
    OBVIOUS
  <1>6. Len(s) <= MaxInFlight <=> ~(Len(s) > MaxInFlight)
    BY <1>1
  <1>7. Len(s) = 1 => Len(s) <= MaxInFlight
    BY <1>1
  <1> DEFINE u == UnderWay(i, s)
             f == SubSeq(s, 1, MaxInFlight)
  <1> HIDE DEF u, f
  <1>8. u \in Seq(Request)
    BY <1>2, <1>4, <1>5, <1>6 DEF u, f
  <1>9. ~Sendable(i) \/ s = <<>> => u = <<>>
    BY <1>3, <1>4 DEF u
  <1>10. Sendable(i) /\ Len(s) = 1 => u = s
    BY <1>4, <1>6, <1>7 DEF u
  <1> QED
    BY <1>8, <1>9, <1>10 DEF u

LEMMA PlaceOutcome ==
  ASSUME NEW i \in Place, NEW rest \in Seq(Request), NEW before \in BOOLEAN,
         NEW r, r.out \in Seq(Request), EntryOK(r.dev),
         r.dev.update /\ Len(r.out) = 1 => r.out = <<ReadElement(r.dev.dev, 0)>>,
         ~before => Calm(r.dev),
         ~before /\ Len(r.out) = 1 => AskedLast(r.dev, r.out[1]),
         ~before /\ r.out = <<>> /\ rest # <<>> =>
           Len(rest) = 1 /\ AskedLast(r.dev, rest[1]),
         ~Sendable(i) => ~before
  PROVE  /\ UnderWay(i, rest \o r.out) \in Seq(Request)
         /\ Mixed(i, before, rest, r) \in BOOLEAN
         /\ PlaceOK(r.dev, UnderWay(i, rest \o r.out), Mixed(i, before, rest, r))
         /\ ~Sendable(i) => /\ UnderWay(i, rest \o r.out) = <<>>
                            /\ ~Mixed(i, before, rest, r)
  <1> DEFINE all == rest \o r.out
             m == Mixed(i, before, rest, r)
  <1>1. /\ all \in Seq(Request)
        /\ r.out # <<>> /\ ~(Len(all) > 1) =>
             rest = <<>> /\ all = r.out /\ Len(r.out) = 1
        /\ r.out = <<>> => all = rest
    BY OneOrNone
  <1>2. /\ UnderWay(i, all) \in Seq(Request)
        /\ ~Sendable(i) \/ all = <<>> => UnderWay(i, all) = <<>>
        /\ Sendable(i) /\ Len(all) = 1 => UnderWay(i, all) = all
    BY <1>1, UnderWayFacts
  <1>3. m = /\ Sendable(i)
            /\ \/ before /\ ~(r.dev.update /\ r.out # <<>>)
               \/ r.out # <<>> /\ Len(all) > 1
    BY DEF Mixed
  <1>4. m \in BOOLEAN
    BY <1>3
  <1> HIDE DEF all, m
  <1>5. CASE ~Sendable(i)
    BY <1>2, <1>3, <1>5 DEF PlaceOK, all, m
  <1>6. CASE Sendable(i) /\ r.out = <<>>
    BY <1>1, <1>2, <1>3, <1>6 DEF PlaceOK, all, m
  <1>7. CASE Sendable(i) /\ r.out # <<>>
    <2>1. ~m => /\ all = r.out /\ Len(r.out) = 1 /\ UnderWay(i, all) = r.out
                /\ ~before \/ r.dev.update
      BY <1>1, <1>2, <1>3, <1>7
    <2>2. r.dev.update => Calm(r.dev)
      BY DEF EntryOK, Calm
    <2>3. r.dev.update /\ Len(r.out) = 1 => AskedLast(r.dev, r.out[1])
      <3>1. ReadElement(r.dev.dev, 0).to = r.dev.dev
            /\ ReadElement(r.dev.dev, 0).op = "read"
            /\ ReadElement(r.dev.dev, 0).index = 0
        BY DEF ReadElement, ReadElementOf
      <3>2. r.dev.update => r.dev.state = "read" /\ r.dev.next = 0
        BY DEF EntryOK
      <3> QED
        BY <3>1, <3>2 DEF AskedLast
    <2> QED
      BY <1>2, <1>4, <1>7, <2>1, <2>2, <2>3 DEF PlaceOK, all, m
  <1> QED
    BY <1>4, <1>5, <1>6, <1>7 DEF m

(* A step that changes nothing but one place. *)
LEMMA OnePlace ==
  ASSUME DeviceTypeOK, PlacesOK, NEW i \in DOMAIN devices,
         NEW d, NEW requests \in Seq(Request), NEW m \in BOOLEAN,
         PlaceOK(d, requests, m),
         ~Sendable(i) => requests = <<>> /\ ~m,
         devices' = [devices EXCEPT ![i] = d],
         net' = [net EXCEPT ![i] = requests],
         mixed' = [mixed EXCEPT ![i] = m]
  PROVE  /\ PlacesOK'
         /\ devices' \in Seq(Entry) /\ Len(devices') = Len(devices)
         /\ DOMAIN devices' = DOMAIN devices
         /\ net' \in [Place -> Seq(Request)] /\ mixed' \in [Place -> BOOLEAN]
  <1>1. /\ devices \in Seq(Entry) /\ net \in [Place -> Seq(Request)]
        /\ mixed \in [Place -> BOOLEAN] /\ Len(devices) <= MaxDevices
    BY DEF DeviceTypeOK
  <1>2. d \in Entry
    BY DEF PlaceOK, EntryOK
  <1>3. /\ devices' \in Seq(Entry) /\ Len(devices') = Len(devices)
        /\ DOMAIN devices' = DOMAIN devices
        /\ devices'[i] = d
        /\ \A j \in DOMAIN devices : j # i => devices'[j] = devices[j]
    BY <1>1, <1>2
  <1>4. i \in Place
    <2>1. i \in 1..Len(devices) /\ Len(devices) \in Nat /\ MaxDevices \in Nat
      BY <1>1, DeviceAssumption
    <2> QED
      BY <1>1, <2>1 DEF Place
  <1>5. /\ net' \in [Place -> Seq(Request)] /\ mixed' \in [Place -> BOOLEAN]
        /\ net'[i] = requests /\ mixed'[i] = m
        /\ \A j \in Place : j # i => net'[j] = net[j] /\ mixed'[j] = mixed[j]
    BY <1>1, <1>4
  <1>6. \A j \in DOMAIN devices : j \in Place
    <2>1. DOMAIN devices = 1..Len(devices) /\ Len(devices) \in Nat /\ MaxDevices \in Nat
      BY <1>1, DeviceAssumption
    <2> QED
      BY <1>1, <2>1 DEF Place
  <1>7. PlacesOK'
    <2>1. \A j \in DOMAIN devices' : PlaceOK(devices'[j], net'[j], mixed'[j])
      BY <1>3, <1>5, <1>6 DEF PlacesOK
    <2>2. \A j \in Place : ~Sendable(j) => net'[j] = <<>> /\ ~mixed'[j]
      BY <1>5 DEF PlacesOK
    <2>3. \A j \in Place \ DOMAIN devices' : net'[j] # <<>> => mixed'[j]
      BY <1>3, <1>5 DEF PlacesOK
    <2> QED
      BY <2>1, <2>2, <2>3 DEF PlacesOK
  <1> QED
    BY <1>3, <1>5, <1>7

-----------------------------------------------------------------------------
(* A visit that polls the objects.                                         *)

LEMMA ExpireFacts ==
  ASSUME NEW d, EntryOK(d), NEW t, NEW expired
  PROVE  LET e == Expire(d, t, expired) IN
         /\ Base(e) /\ SameIds(d, e)
         /\ e.state = d.state /\ e.disable = d.disable /\ e.update = d.update
         /\ e.handle = d.handle /\ e.dev = d.dev /\ e.queue = d.queue
         /\ e.sendNext = d.sendNext /\ e.next = d.next /\ e.size = d.size
  <1> DEFINE f == [k \in DOMAIN d.objects |->
                     IF t # "none" /\ k \in expired
                          /\ d.objects[k].cov = "subscribed"
                     THEN [d.objects[k] EXCEPT !.cov = "need"]
                     ELSE d.objects[k]]
  <1>1. d \in Entry /\ Base(d) /\ d.objects \in Seq(Object)
    BY EntryIsBase DEF EntryOK, Entry
  <1>2. /\ f \in [DOMAIN d.objects -> Object]
        /\ \A k \in DOMAIN d.objects : f[k].id = d.objects[k].id
    <2>1. \A k \in DOMAIN d.objects :
            /\ d.objects[k] \in Object
            /\ [d.objects[k] EXCEPT !.cov = "need"] \in Object
            /\ [d.objects[k] EXCEPT !.cov = "need"].id = d.objects[k].id
      <3> TAKE k \in DOMAIN d.objects
      <3>1. d.objects[k] \in Object
        BY <1>1
      <3> QED
        BY <3>1 DEF Object, Cov
    <2> QED
      BY <2>1
  <1>3. Expire(d, t, expired) = [d EXCEPT !.objects = f]
    BY DEF Expire
  <1> HIDE DEF f
  <1> QED
    BY <1>1, <1>2, <1>3, MarkAllFacts

(* Requests are added at the end of the queue. *)
LEMMA QueueFacts ==
  ASSUME NEW d, Base(d), NEW s \in Seq(Request),
         \A k \in DOMAIN s : Requested(d, s[k])
  PROVE  LET e == [d EXCEPT !.queue = d.queue \o s] IN
         /\ Base(e) /\ SameIds(d, e)
         /\ e.state = d.state /\ e.disable = d.disable /\ e.update = d.update
         /\ e.handle = d.handle /\ e.dev = d.dev /\ e.objects = d.objects
         /\ e.sendNext = d.sendNext /\ e.next = d.next /\ e.size = d.size
  <1> DEFINE q == d.queue \o s
             e == [d EXCEPT !.queue = d.queue \o s]
  <1>1. d \in Entry /\ d.queue \in Seq(Request)
    BY DEF Base, Entry
  <1>2. q \in Seq(Request) /\ DOMAIN q = 1..(Len(d.queue) + Len(s))
    BY <1>1
  <1>3. \A k \in DOMAIN q : Requested(d, q[k])
    <2> TAKE k \in DOMAIN q
    <2>1. /\ k \in 1..(Len(d.queue) + Len(s))
          /\ Len(d.queue) \in Nat /\ Len(s) \in Nat
          /\ DOMAIN d.queue = 1..Len(d.queue) /\ DOMAIN s = 1..Len(s)
      BY <1>1, <1>2
    <2>2. CASE k <= Len(d.queue)
      <3>1. q[k] = d.queue[k] /\ k \in DOMAIN d.queue
        BY <1>1, <2>1, <2>2
      <3> QED
        BY <3>1 DEF Base
    <2>3. CASE ~(k <= Len(d.queue))
      <3>1. q[k] = s[k - Len(d.queue)] /\ k - Len(d.queue) \in DOMAIN s
        BY <1>1, <2>1, <2>3
      <3> QED
        BY <3>1
    <2> QED
      BY <2>2, <2>3
  <1> HIDE DEF q, e
  <1>4. e = [d EXCEPT !.queue = q]
    BY DEF q, e
  <1>5. /\ e \in Entry /\ e.queue = q
        /\ e.state = d.state /\ e.disable = d.disable /\ e.update = d.update
        /\ e.handle = d.handle /\ e.dev = d.dev /\ e.objects = d.objects
        /\ e.sendNext = d.sendNext /\ e.next = d.next /\ e.size = d.size
    BY <1>1, <1>2, <1>4 DEF Entry
  <1>6. Base(e) /\ SameIds(d, e)
    BY <1>3, <1>5 DEF Base, SameIds, Requested
  <1> QED
    BY <1>5, <1>6 DEF e

LEMMA AddRequestsFacts ==
  ASSUME NEW d, Base(d), NEW t, NEW q \in Listings(Renewable(d, t)), NEW due
  PROVE  LET e == AddRequests(d, t, q, due) IN
         /\ Base(e) /\ SameIds(d, e)
         /\ e.state = d.state /\ e.disable = d.disable /\ e.update = d.update
         /\ e.handle = d.handle /\ e.dev = d.dev
         /\ e.sendNext = d.sendNext /\ e.next = d.next /\ e.size = d.size
         /\ \A k \in 1..Len(d.queue) :
              k \in DOMAIN e.queue /\ e.queue[k] = d.queue[k]
  <1> DEFINE f == [k \in DOMAIN d.objects |->
                     IF t # "none" /\ d.objects[k].cov = "need"
                     THEN [d.objects[k] EXCEPT !.cov = "support"]
                     ELSE d.objects[k]]
             g == [d EXCEPT !.objects = f]
             p == IF due THEN <<Properties(d.dev, "rpm", Poll)>> ELSE <<>>
             s == [n \in DOMAIN q |->
                     Subscription(d.dev, d.objects[q[n]].id, Service(t))]
  <1>1. /\ d \in Entry /\ d.objects \in Seq(Object) /\ d.dev \in Device
        /\ d.queue \in Seq(Request)
    BY DEF Base, Entry
  <1>2. /\ f \in [DOMAIN d.objects -> Object]
        /\ \A k \in DOMAIN d.objects : f[k].id = d.objects[k].id
    <2>1. \A k \in DOMAIN d.objects :
            /\ d.objects[k] \in Object
            /\ [d.objects[k] EXCEPT !.cov = "support"] \in Object
            /\ [d.objects[k] EXCEPT !.cov = "support"].id = d.objects[k].id
      <3> TAKE k \in DOMAIN d.objects
      <3>1. d.objects[k] \in Object
        BY <1>1
      <3> QED
        BY <3>1 DEF Object, Cov
    <2> QED
      BY <2>1
  <1>3. PICK n \in Nat : q \in [1..n -> DOMAIN d.objects]
    <2>1. PICK n \in 0..Cardinality(Renewable(d, t)) :
            q \in [1..n -> Renewable(d, t)]
      BY DEF Listings
    <2>2. Renewable(d, t) \subseteq DOMAIN d.objects
      BY DEF Renewable, WithCov
    <2>3. n \in Nat
      BY <2>1
    <2> QED
      BY <2>1, <2>2, <2>3
  <1>4. /\ s \in Seq(Request)
        /\ \A k \in DOMAIN s : Requested(d, s[k])
    <2>1. \A k \in 1..n :
            LET r == Subscription(d.dev, d.objects[q[k]].id, Service(t)) IN
            r \in Request /\ Requested(d, r)
      <3> TAKE k \in 1..n
      <3>1. q[k] \in DOMAIN d.objects /\ d.objects[q[k]].id \in Id
        BY <1>1, <1>3, ObjectFacts
      <3>2. Service(t) \in Services
        BY DEF Service, Services
      <3> QED
        BY <1>1, <3>1, <3>2, RequestFacts DEF Subscription, Requested
    <2>2. DOMAIN q = 1..n
      BY <1>3
    <2>3. s = [k \in 1..n |-> Subscription(d.dev, d.objects[q[k]].id, Service(t))]
      BY <2>2
    <2>4. s \in [1..n -> Request]
      BY <2>1, <2>3
    <2> HIDE DEF s
    <2> QED
      BY <2>1, <2>3, <2>4, FunctionIsSequence
  <1>5. p \in Seq(Request) /\ \A k \in DOMAIN p : Requested(d, p[k])
    <2> DEFINE r == Properties(d.dev, "rpm", Poll)
    <2>1. r \in Request /\ Requested(d, r)
      BY <1>1, RequestFacts DEF Properties, Requested
    <2> HIDE DEF r
    <2>2. p = <<r>> \/ p = <<>>
      BY DEF r
    <2>3. /\ <<r>> \in Seq(Request) /\ <<>> \in Seq(Request)
          /\ \A k \in DOMAIN <<r>> : <<r>>[k] = r
          /\ \A k \in DOMAIN <<>> : FALSE
      BY <2>1
    <2> HIDE DEF p
    <2>4. CASE p = <<r>>
      BY <2>1, <2>3, <2>4
    <2>5. CASE p = <<>>
      BY <2>3, <2>5
    <2> QED
      BY <2>2, <2>4, <2>5
  <1>6. AddRequests(d, t, q, due) =
          [d EXCEPT !.objects = f, !.queue = (d.queue \o p) \o s]
    BY DEF AddRequests
  <1> HIDE DEF f, p, s
  <1>7. /\ Base(g) /\ SameIds(d, g) /\ g.queue = d.queue
        /\ g.state = d.state /\ g.disable = d.disable /\ g.update = d.update
        /\ g.handle = d.handle /\ g.dev = d.dev
        /\ g.sendNext = d.sendNext /\ g.next = d.next /\ g.size = d.size
    BY <1>2, MarkAllFacts
  <1> DEFINE g1 == [g EXCEPT !.queue = g.queue \o p]
             h == AddRequests(d, t, q, due)
  <1> HIDE DEF g
  <1>8. \A r : Requested(d, r) => Requested(g, r)
    BY <1>1, <1>7, SameIdsFacts DEF Base
  <1>9. /\ Base(g1) /\ SameIds(g, g1) /\ g1.queue = d.queue \o p
        /\ g1.state = g.state /\ g1.disable = g.disable /\ g1.update = g.update
        /\ g1.handle = g.handle /\ g1.dev = g.dev
        /\ g1.sendNext = g.sendNext /\ g1.next = g.next /\ g1.size = g.size
    <2>1. \A k \in DOMAIN p : Requested(g, p[k])
      BY <1>5, <1>8
    <2>2. g1.queue = g.queue \o p
      BY <1>7 DEF Base, Entry
    <2>3. /\ Base(g1) /\ SameIds(g, g1)
          /\ g1.state = g.state /\ g1.disable = g.disable
          /\ g1.update = g.update /\ g1.handle = g.handle /\ g1.dev = g.dev
          /\ g1.sendNext = g.sendNext /\ g1.next = g.next /\ g1.size = g.size
      BY <1>5, <1>7, <2>1, QueueFacts
    <2> QED
      BY <1>7, <2>2, <2>3
  <1>10. h = [g1 EXCEPT !.queue = g1.queue \o s]
    <2>1. h = [[[d EXCEPT !.objects = f] EXCEPT !.queue = d.queue \o p]
                 EXCEPT !.queue = (d.queue \o p) \o s]
      BY <1>1, <1>6 DEF Entry
    <2> QED
      BY <1>7, <1>9, <2>1 DEF g
  <1> HIDE DEF g1
  <1>11. \A r : Requested(g, r) => Requested(g1, r)
    BY <1>7, <1>9, SameIdsFacts DEF Base
  <1>12. /\ Base(h) /\ SameIds(g1, h)
         /\ h.state = g1.state /\ h.disable = g1.disable
         /\ h.update = g1.update /\ h.handle = g1.handle /\ h.dev = g1.dev
         /\ h.sendNext = g1.sendNext /\ h.next = g1.next /\ h.size = g1.size
    <2> HIDE DEF h
    <2>1. \A k \in DOMAIN s : Requested(g1, s[k])
      BY <1>4, <1>8, <1>11
    <2> QED
      BY <1>4, <1>9, <1>10, <2>1, QueueFacts, Zenon
  <1>13. \A a, b, c : SameIds(a, b) /\ SameIds(b, c)
                       /\ DOMAIN b.objects = DOMAIN a.objects => SameIds(a, c)
    BY DEF SameIds
  <1>14. DOMAIN g.objects = DOMAIN d.objects /\ DOMAIN g1.objects = DOMAIN g.objects
    BY <1>1, <1>7, <1>9, SameIdsFacts DEF Base
  <1>15. SameIds(d, h)
    BY <1>7, <1>9, <1>12, <1>13, <1>14
  <1>16. \A k \in 1..Len(d.queue) : k \in DOMAIN h.queue /\ h.queue[k] = d.queue[k]
    <2>1. h.queue = g1.queue \o s
      BY <1>9, <1>10 DEF Base, Entry
    <2>2. ASSUME NEW x \in Seq(Request), NEW y \in Seq(Request),
                 NEW z \in Seq(Request), NEW k \in 1..Len(x)
          PROVE  k \in DOMAIN ((x \o y) \o z) /\ ((x \o y) \o z)[k] = x[k]
      <3>1. /\ x \o y \in Seq(Request) /\ k \in 1..Len(x \o y)
            /\ (x \o y)[k] = x[k]
        OBVIOUS
      <3> QED
        BY <3>1
    <2> QED
      BY <1>1, <1>4, <1>5, <1>9, <2>1, <2>2
  <1> HIDE DEF h
  <1> QED
    BY <1>7, <1>9, <1>12, <1>15, <1>16 DEF h

(* What is due at a visit of a device that waits for nothing. *)
LEMMA PolledOutcome ==
  ASSUME NEW d, EntryOK(d), ~d.disable, NEW t \in SubscribeTypes,
         NEW expired, NEW due, NEW r \in Polled(d, t, expired, due)
  PROVE  /\ OutcomeOK(r)
         /\ Calm(d) => CalmOutcome(r)
         /\ \A q : Calm(d) /\ AskedLast(d, q) /\ r.out = <<>> => AskedLast(r.dev, q)
         /\ r.dev.update = d.update /\ r.dev.dev = d.dev
  <1> DEFINE left == Expire(d, t, expired)
  <1>1. PICK q \in Listings(Renewable(left, t)) :
          r = IF AddRequests(left, t, q, due).sendNext
              THEN SendNextRequest(AddRequests(left, t, q, due), t)
              ELSE Result(AddRequests(left, t, q, due), <<>>)
    BY DEF Polled
  <1> DEFINE e == AddRequests(left, t, q, due)
  <1>2. /\ Base(left) /\ SameIds(d, left)
        /\ left.state = d.state /\ left.disable = d.disable
        /\ left.update = d.update /\ left.handle = d.handle /\ left.dev = d.dev
        /\ left.sendNext = d.sendNext /\ left.next = d.next /\ left.size = d.size
    BY ExpireFacts
  <1> HIDE DEF left
  <1>3. /\ Base(e) /\ SameIds(left, e)
        /\ e.state = d.state /\ e.disable = d.disable
        /\ e.update = d.update /\ e.handle = d.handle /\ e.dev = d.dev
        /\ e.sendNext = d.sendNext /\ e.next = d.next /\ e.size = d.size
    BY <1>2, AddRequestsFacts
  <1>4. r = IF e.sendNext THEN SendNextRequest(e, t) ELSE Result(e, <<>>)
    BY <1>1
  <1> HIDE DEF e
  <1>5. SameIds(d, e)
    <2>1. DOMAIN left.objects = DOMAIN d.objects
      BY <1>2, SameIdsFacts DEF Base, EntryOK
    <2> QED
      BY <1>2, <1>3, <2>1 DEF SameIds
  <1>6. EntryOK(e)
    BY <1>3 DEF EntryOK, Base
  <1>7. ~d.update
    BY DEF EntryOK
  <1>8. Calm(d) => Calm(e) /\ d.state = "main"
    <2>1. Calm(d) => d.state = "main"
      BY DEF Calm
    <2>2. Listed(d, Len(ObjectList[d.dev])) => Listed(e, Len(ObjectList[d.dev]))
      BY <1>3, <1>5, SameIdsFacts, ListFacts, EntryFacts DEF Base, EntryOK
    <2> QED
      BY <1>3, <2>1, <2>2 DEF Calm, Complete
  <1>9. ASSUME Calm(d), NEW p, AskedLast(d, p)
        PROVE  AskedLast(e, p) /\ ~e.sendNext
    <2>1. d.state = "main" /\ ~d.sendNext /\ p.to = d.dev
          /\ \/ p.op \in {"rpm", "wpm"}
             \/ p.op = "sub" /\ d.handle # 0 /\ p.id = d.objects[d.handle].id
      BY <1>8, <1>9 DEF AskedLast
    <2>2. d.handle # 0 => d.handle \in DOMAIN d.objects
      BY DEF EntryOK, Entry
    <2> QED
      BY <1>3, <1>5, <2>1, <2>2 DEF AskedLast, SameIds
  <1>10. CASE e.sendNext
    <2>1. r = SendNextRequest(e, t)
      BY <1>4, <1>10
    <2>2. OutcomeOK(r) /\ (Calm(e) => CalmOutcome(r)) /\ r.dev.update = e.update
          /\ r.dev.dev = e.dev
      BY <1>6, <2>1, SendNextOutcome DEF SameIds
    <2> QED
      BY <1>3, <1>8, <1>9, <1>10, <2>2
  <1>11. CASE ~e.sendNext
    <2>1. r = Result(e, <<>>)
      BY <1>4, <1>11
    <2>2. r.dev = e
      BY <2>1 DEF Result
    <2> QED
      BY <1>3, <1>6, <1>8, <1>9, <2>1, <2>2, NothingSent
  <1> QED
    BY <1>10, <1>11

LEMMA SecondOutcome ==
  ASSUME NEW d, EntryOK(d), NEW t \in SubscribeTypes, NEW discover,
         NEW expired, NEW due, NEW r \in Second(d, t, discover, expired, due)
  PROVE  /\ OutcomeOK(r)
         /\ Calm(d) => CalmOutcome(r)
         /\ \A q : Calm(d) /\ AskedLast(d, q) /\ r.out = <<>> => AskedLast(r.dev, q)
         /\ r.out = <<>> => r.dev.update = d.update /\ r.dev.dev = d.dev
         /\ d.update => r.out = <<>>
  <1>1. CASE d.disable
    <2>1. r = Result(d, <<>>)
      BY <1>1 DEF Second
    <2>2. r.dev = d /\ r.out = <<>>
      BY <2>1 DEF Result
    <2> QED
      BY <2>1, <2>2, NothingSent
  <1>2. CASE ~d.disable /\ discover
    <2>1. r = ReadStructList(d)
      BY <1>2 DEF Second
    <2>2. ~d.update
      BY <1>2 DEF EntryOK
    <2> QED
      BY <2>1, <2>2, EntryIsBase, ReadStructListOutcome
  <1>3. CASE ~d.disable /\ ~discover
    <2>1. r \in Polled(d, t, expired, due)
      BY <1>3 DEF Second
    <2>2. ~d.update
      BY <1>3 DEF EntryOK
    <2> QED
      BY <1>3, <2>1, <2>2, PolledOutcome
  <1> QED
    BY <1>1, <1>2, <1>3

-----------------------------------------------------------------------------
(* What the functions of baclib.c make of a device's queue.  The requests  *)
(* of the queue q, but for the first n, are at the head of r.              *)
KeptBut(n, q, r) ==
  \A k \in (n + 1)..Len(q) : k - n \in DOMAIN r /\ r[k - n] = q[k]

(* The queue is kept; or its head was sent (a subscription is only sent    *)
(* while there are any), and nothing is sent before that is answered.      *)
HeadSent(d, t, r) ==
  /\ KeptBut(1, d.queue, r.dev.queue) /\ ~r.dev.sendNext /\ d.queue # <<>>
  /\ \/ \E k \in DOMAIN r.out : r.out[k] = Head(d.queue)
     \/ Head(d.queue).op = "sub" /\ t = "none"

QueueOutcome(d, t, r) ==
  KeptBut(0, d.queue, r.dev.queue) \/ HeadSent(d, t, r)

LEMMA KeptTwice ==
  ASSUME NEW p \in Seq(Request), NEW q \in Seq(Request), NEW r \in Seq(Request),
         NEW n \in Nat, NEW m \in Nat, KeptBut(n, p, q), KeptBut(m, q, r)
  PROVE  KeptBut(n + m, p, r)
  <1> SUFFICES ASSUME NEW k \in (n + m + 1)..Len(p)
               PROVE  k - (n + m) \in DOMAIN r /\ r[k - (n + m)] = p[k]
    BY DEF KeptBut
  <1>1. k \in (n + 1)..Len(p) /\ k - n \in Int
    OBVIOUS
  <1>2. k - n \in DOMAIN q /\ q[k - n] = p[k]
    BY <1>1 DEF KeptBut
  <1>3. k - n \in (m + 1)..Len(q)
    BY <1>1, <1>2
  <1>4. (k - n) - m \in DOMAIN r /\ r[(k - n) - m] = q[k - n]
    BY <1>3 DEF KeptBut
  <1>5. (k - n) - m = k - (n + m)
    BY <1>1
  <1> QED
    BY <1>2, <1>4, <1>5

LEMMA SameQueueKept ==
  ASSUME NEW d \in Entry, NEW t, NEW r, r.dev.queue = d.queue
  PROVE  QueueOutcome(d, t, r)
  <1>1. /\ d.queue \in Seq(Request) /\ DOMAIN d.queue = 1..Len(d.queue)
    BY EntryFacts
  <1>2. KeptBut(0, d.queue, d.queue)
    BY <1>1 DEF KeptBut
  <1> QED
    BY <1>2 DEF QueueOutcome

LEMMA EnterMainLoopQueue ==
  ASSUME NEW d \in Entry 
  PROVE  EnterMainLoop(d).queue = d.queue /\ EnterMainLoop(d).update = d.update
  BY DEF EnterMainLoop, Entry

LEMMA ObjectsQueue ==
  ASSUME NEW d \in Entry, NEW f, NEW h
  PROVE  /\ [d EXCEPT !.objects = f].queue = d.queue
         /\ [[d EXCEPT !.objects = f] EXCEPT !.handle = h].queue = d.queue
         /\ EnterMainLoop([d EXCEPT !.objects = f]).queue = d.queue
         /\ [d EXCEPT !.objects = f].update = d.update
         /\ [[d EXCEPT !.objects = f] EXCEPT !.handle = h].update = d.update
         /\ EnterMainLoop([d EXCEPT !.objects = f]).update = d.update
  BY DEF Entry, EnterMainLoop

LEMMA SubscribeQueue ==
  ASSUME NEW d \in Entry, NEW t
  PROVE  /\ SubscribeIfNeed(d, t).dev.queue = d.queue
         /\ SubscribeIfNeed(d, t).dev.update = d.update
  <1> DEFINE need == WithCov(d, {"need"})
             target == IF t = "none" THEN 0
                       ELSE WalkFrom(Start(d),
                                     {k \in need : Wanted(d.objects[k], t)})
             passed == {k \in need : t # "none" /\ target <= k /\ k <= Start(d)}
             f == [k \in DOMAIN d.objects |->
                     IF k \in passed
                     THEN [d.objects[k] EXCEPT !.cov = "support"]
                     ELSE d.objects[k]]
             r == Subscription(d.dev, d.objects[target].id, Service(t))
  <1>1. SubscribeIfNeed(d, t) =
          IF target = 0
          THEN Result(EnterMainLoop([d EXCEPT !.objects = f]), <<>>)
          ELSE Result([[d EXCEPT !.objects = f] EXCEPT !.handle = target], <<r>>)
    BY DEF SubscribeIfNeed
  <1> HIDE DEF need, passed, target, f, r
  <1>2. CASE target = 0
    <2>1. SubscribeIfNeed(d, t).dev = EnterMainLoop([d EXCEPT !.objects = f])
      BY <1>1, <1>2 DEF Result
    <2> QED
      BY <2>1, ObjectsQueue
  <1>3. CASE target # 0
    <2>1. SubscribeIfNeed(d, t).dev =
            [[d EXCEPT !.objects = f] EXCEPT !.handle = target]
      BY <1>1, <1>3 DEF Result
    <2> QED
      BY <2>1, ObjectsQueue
  <1> QED
    BY <1>2, <1>3

LEMMA StartSubscribingQueue ==
  ASSUME NEW d \in Entry, NEW t
  PROVE  /\ StartSubscribing(d, t).dev.queue = d.queue
         /\ StartSubscribing(d, t).dev.update = d.update
  <1> DEFINE e == [d EXCEPT !.handle = 0, !.state = "subscribe"]
  <1>1. e \in Entry /\ e.queue = d.queue /\ e.update = d.update
    BY DEF Entry, State
  <1> QED
    BY <1>1, SubscribeQueue DEF StartSubscribing

LEMMA CancelQueue ==
  ASSUME NEW d \in Entry, NEW t
  PROVE  CancelIfNeed(d, t).dev.queue = d.queue
  <1> DEFINE target == WalkFrom(Start(d),
                                WithCov(d, {"cancelObject", "cancelProperty"}))
             service == IF d.objects[target].cov = "cancelProperty"
                        THEN "property" ELSE "object"
             again == IF d.state = "resubscribe" THEN "need" ELSE "support"
             c == Cancellation(d.dev, d.objects[target].id, service)
             e == [d EXCEPT !.handle = target, !.objects[target].cov = again]
  <1>1. CancelIfNeed(d, t) =
          IF target # 0 THEN Result(e, <<c>>)
          ELSE IF d.state = "resubscribe" THEN StartSubscribing(d, t)
          ELSE Result(EnterMainLoop(d), <<>>)
    BY Zenon DEF CancelIfNeed
  <1>2. e.queue = d.queue
    BY DEF Entry
  <1> HIDE DEF target, e, c
  <1> QED
    BY <1>1, <1>2, StartSubscribingQueue, EnterMainLoopQueue DEF Result

LEMMA ReadListQueue ==
  ASSUME NEW d \in Entry, NEW t
  PROVE  /\ ReadStructList(d).dev.queue = d.queue
         /\ ReadListIfNeed(d, t).dev.queue = d.queue
  <1>1. ReadStructList(d).dev.queue = d.queue
    BY DEF ReadStructList, Result, Entry
  <1>2. ReadListIfNeed(d, t).dev.queue = d.queue
    BY StartSubscribingQueue DEF ReadListIfNeed, Result
  <1> QED
    BY <1>1, <1>2

LEMMA SendNextQueue ==
  ASSUME NEW d \in Entry, NEW t
  PROVE  LET r == SendNextRequest(d, t) IN
         \/ r.dev = d /\ (d.disable \/ d.queue = <<>>)
         \/ /\ r.dev.queue = Tail(d.queue) /\ ~r.dev.sendNext /\ d.queue # <<>>
            /\ \/ \E k \in DOMAIN r.out : r.out[k] = Head(d.queue)
               \/ Head(d.queue).op = "sub" /\ t = "none"
  <1> DEFINE r == Head(d.queue)
             found == WalkFrom(Len(d.objects),
                               {k \in DOMAIN d.objects : d.objects[k].id = r.id})
             sent == [d EXCEPT !.queue = Tail(d.queue), !.sendNext = FALSE]
             h == IF found = 0 THEN d.handle ELSE found
             marked == [sent EXCEPT !.handle = h]
             x == SendNextRequest(d, t)
  <1>1. CASE d.disable \/ d.queue = <<>>
    BY <1>1 DEF SendNextRequest, Result
  <1>2. CASE ~d.disable /\ d.queue # <<>>
    <2>1. x = IF r.op # "sub" THEN Result(sent, <<r>>)
              ELSE IF t = "none" THEN Result(sent, <<>>)
              ELSE Result(marked, <<r>>)
      BY <1>2 DEF SendNextRequest
    <2> HIDE DEF h, x
    <2>2. /\ sent.queue = Tail(d.queue) /\ sent.sendNext = FALSE
          /\ marked.queue = Tail(d.queue) /\ marked.sendNext = FALSE
      BY DEF Entry
    <2>3. 1 \in DOMAIN <<r>> /\ <<r>>[1] = r
      OBVIOUS
    <2> HIDE DEF r, sent, marked
    <2>4. /\ x.dev.queue = Tail(d.queue) /\ x.dev.sendNext = FALSE
          /\ x.out = <<r>> \/ (r.op = "sub" /\ t = "none")
      BY <2>1, <2>2 DEF Result
    <2> QED
      BY <1>2, <2>3, <2>4 DEF r, x
  <1> QED
    BY <1>1, <1>2

LEMMA TailKept ==
  ASSUME NEW q \in Seq(Request), q # <<>>
  PROVE  KeptBut(1, q, Tail(q))
  BY DEF KeptBut

LEMMA SendNextOfQueue ==
  ASSUME NEW d \in Entry, NEW t
  PROVE  QueueOutcome(d, t, SendNextRequest(d, t))
  <1> DEFINE r == SendNextRequest(d, t)
  <1>1. d.queue \in Seq(Request)
    BY EntryFacts
  <1> HIDE DEF r
  <1>2. CASE r.dev = d
    BY <1>2, SameQueueKept DEF r
  <1>3. CASE r.dev # d
    <2>1. /\ r.dev.queue = Tail(d.queue) /\ ~r.dev.sendNext /\ d.queue # <<>>
          /\ \/ \E k \in DOMAIN r.out : r.out[k] = Head(d.queue)
             \/ Head(d.queue).op = "sub" /\ t = "none"
      BY <1>3, SendNextQueue DEF r
    <2> QED
      BY <1>1, <2>1, TailKept DEF QueueOutcome, HeadSent, r
  <1> QED
    BY <1>2, <1>3

LEMMA SendAgainQueue ==
  ASSUME NEW d \in Entry, NEW t
  PROVE  QueueOutcome(d, t, SendNextRequest([d EXCEPT !.sendNext = TRUE], t))
  <1> DEFINE e == [d EXCEPT !.sendNext = TRUE]
  <1>1. e \in Entry /\ e.queue = d.queue /\ e.update = d.update
    BY DEF Entry
  <1> HIDE DEF e
  <1>2. QueueOutcome(e, t, SendNextRequest(e, t))
    BY <1>1, SendNextOfQueue
  <1>3. QueueOutcome(d, t, SendNextRequest(e, t))
    BY <1>1, <1>2 DEF QueueOutcome, HeadSent
  <1> QED
    BY <1>3 DEF e

LEMMA UnexpectedQueue ==
  ASSUME NEW d, EntryOK(d), NEW t \in SubscribeTypes
  PROVE  QueueOutcome(d, t, HandleForUnexpected(d, t))
  <1> DEFINE r == HandleForUnexpected(d, t)
  <1>1. d \in Entry /\ d.state \in State /\ Base(d)
    BY EntryIsBase DEF EntryOK, Entry
  <1>2. CASE d.state = "read"
    <2>1. r = IF d.size = 0 THEN ReadStructList(d) ELSE ReadListIfNeed(d, t)
      BY <1>2 DEF HandleForUnexpected
    <2> HIDE DEF r
    <2> QED
      BY <1>1, <2>1, ReadListQueue, SameQueueKept DEF r
  <1>3. CASE d.state = "subscribe"
    <2> DEFINE o == Refused(d.objects[d.handle], t)
               f == [d.objects EXCEPT ![d.handle] = o]
               g == [d EXCEPT !.objects[d.handle] = o]
    <2>1. r = SubscribeIfNeed(IF d.handle = 0 \/ t = "none" THEN d ELSE g, t)
      BY <1>3 DEF HandleForUnexpected
    <2>2. d.handle \in DOMAIN d.objects /\ d.objects \in Seq(Object)
      BY <1>1, <1>3 DEF EntryOK, Entry
    <2>3. o \in Object
      BY <2>2, RefusedFacts
    <2> HIDE DEF o, r
    <2>4. g \in Entry /\ g.queue = d.queue
      <3>1. f \in Seq(Object)
        BY <2>2, <2>3
      <3>2. g = [d EXCEPT !.objects = f]
        BY <1>1 DEF Entry
      <3> HIDE DEF f, g
      <3> QED
        BY <1>1, <3>1, <3>2 DEF Entry
    <2> HIDE DEF g
    <2> QED
      BY <1>1, <2>1, <2>4, SubscribeQueue, SameQueueKept DEF r
  <1>4. CASE d.state \in {"cancel", "resubscribe"}
    <2>1. r = CancelIfNeed(d, t)
      BY <1>4 DEF HandleForUnexpected
    <2> HIDE DEF r
    <2> QED
      BY <1>1, <2>1, CancelQueue, SameQueueKept DEF r
  <1>5. CASE d.state = "main"
    <2>1. r = SendNextRequest([d EXCEPT !.sendNext = TRUE], t)
      BY <1>5 DEF HandleForUnexpected
    <2> QED
      BY <1>1, <2>1, SendAgainQueue
  <1> QED
    BY <1>1, <1>2, <1>3, <1>4, <1>5 DEF State

LEMMA SimpleAnswerQueue ==
  ASSUME NEW d, EntryOK(d), ~NullObject(d), NEW t \in SubscribeTypes
  PROVE  QueueOutcome(d, t, SimpleAnswer(d, t))
  <1> DEFINE m == [d EXCEPT !.objects[d.handle].cov = "subscribed"]
             r == SimpleAnswer(d, t)
  <1>1. d \in Entry /\ Base(d) /\ d.state \in State
    BY EntryIsBase DEF EntryOK, Entry
  <1>2. CASE d.state \in {"cancel", "resubscribe"}
    <2>1. r = CancelIfNeed(d, t)
      BY <1>2 DEF SimpleAnswer
    <2> HIDE DEF r
    <2> QED
      BY <1>1, <2>1, CancelQueue, SameQueueKept DEF r
  <1>3. CASE d.state \notin {"cancel", "resubscribe"}
    <2>1. d.handle \in DOMAIN d.objects
      BY <1>3 DEF NullObject, EntryOK, Entry
    <2>2. m \in Entry /\ m.queue = d.queue
      BY <1>1, <2>1, MarkFacts DEF Cov, Base
    <2>3. m.update = d.update
      BY <1>1 DEF Entry
    <2> HIDE DEF m, r
    <2>4. CASE d.state = "subscribe"
      <3>1. r = SubscribeIfNeed(m, t)
        BY <2>4 DEF SimpleAnswer, m, r
      <3> QED
        BY <2>2, <3>1, SubscribeQueue, SameQueueKept, <1>1 DEF r
    <2>5. CASE d.state # "subscribe"
      <3>1. r = SendNextRequest([m EXCEPT !.sendNext = TRUE], t)
        BY <1>3, <2>5 DEF SimpleAnswer, m, r
      <3>2. QueueOutcome(m, t, r)
        BY <2>2, <3>1, SendAgainQueue
      <3> QED
        BY <2>2, <2>3, <3>2 DEF QueueOutcome, HeadSent, r
    <2> QED
      BY <2>4, <2>5
  <1> QED
    BY <1>2, <1>3

LEMMA TakeElementQueue ==
  ASSUME NEW d \in Entry, NEW from, NEW j
  PROVE  /\ TakeElement(d, from, j).queue = d.queue
         /\ TakeElement(d, from, j).update = d.update
  <1>1. ASSUME NEW n, NEW a
        PROVE  /\ [d EXCEPT !.size = n, !.state = "read"].queue = d.queue
               /\ [d EXCEPT !.size = n, !.state = "read"].update = d.update
               /\ [d EXCEPT !.objects = a].queue = d.queue
               /\ [d EXCEPT !.objects = a].update = d.update
    BY DEF Entry
  <1> QED
    BY <1>1, Zenon DEF TakeElement

(* The first answer of a new list empties the queue, the others keep it.   *)
LEMMA ListAnswerQueue ==
  ASSUME NEW d, EntryOK(d), NEW t \in SubscribeTypes,
         NEW from \in Device, NEW j \in Nat,
         j = 0 \/ j \in DOMAIN ObjectList[from]
  PROVE  LET r == ListAnswer(d, t, from, j) IN
         \/ QueueOutcome(d, t, r)
         \/ d.update /\ ~r.dev.update /\ r.dev.queue = <<>>
  <1> DEFINE c == CleanUp(d)
             e == TakeElement(c, from, j)
             n == [e EXCEPT !.next = j + 1]
             q == ReadElementOf(d.dev, from, j + 1)
             r == ListAnswer(d, t, from, j)
  <1>1. /\ Base(c) /\ ~c.update
        /\ d.update => c.queue = <<>>
        /\ ~d.update => c = d
    BY CleanUpFacts
  <1> HIDE DEF c
  <1>2. Base(e) /\ ~e.update /\ e.queue = c.queue
    <2>1. Base(e)
      BY <1>1, TakeElementFacts
    <2> QED
      BY <1>1, <2>1, TakeElementQueue DEF Base
  <1>3. r = IF j < e.size THEN Result(n, <<q>>)
            ELSE IF t # "none" THEN StartSubscribing(e, t)
            ELSE Result(EnterMainLoop(e), <<>>)
    BY DEF ListAnswer, c
  <1> HIDE DEF e, r
  <1>4. e \in Entry
    BY <1>2 DEF Base
  <1>5. n.queue = e.queue /\ n.update = e.update
    BY <1>4 DEF Entry
  <1> HIDE DEF n, q
  <1>6. r.dev.queue = c.queue /\ ~r.dev.update
    BY <1>2, <1>3, <1>4, <1>5, StartSubscribingQueue, EnterMainLoopQueue
    DEF Result
  <1>7. CASE d.update
    BY <1>1, <1>6, <1>7 DEF r
  <1>8. CASE ~d.update
    BY <1>1, <1>6, <1>8, SameQueueKept DEF r, EntryOK
  <1> QED
    BY <1>7, <1>8

LEMMA TimedOutQueue ==
  ASSUME NEW d, EntryOK(d), NEW t \in SubscribeTypes
  PROVE  QueueOutcome(d, t, TimedOut(d, t))
  <1>1. d \in Entry
    BY DEF EntryOK
  <1>2. CASE d.state # "main"
    BY <1>2, UnexpectedQueue DEF TimedOut
  <1>3. CASE d.state = "main"
    BY <1>1, <1>3, SendAgainQueue DEF TimedOut, EntryOK
  <1> QED
    BY <1>2, <1>3

(* What is due at a visit is added behind what waits, and then the head is *)
(* sent if the device waits for no answer.                                 *)
Added(d, t, r) ==
  \/ KeptBut(0, d.queue, r.dev.queue) /\ (r.dev.sendNext => d.sendNext)
  \/ d.sendNext /\ (d.queue = <<>> \/ HeadSent(d, t, r))

LEMMA PolledQueue ==
  ASSUME NEW d, EntryOK(d), NEW t \in SubscribeTypes,
         NEW expired, NEW due, NEW r \in Polled(d, t, expired, due)
  PROVE  Added(d, t, r)
  <1> DEFINE left == Expire(d, t, expired)
  <1>1. PICK q \in Listings(Renewable(left, t)) :
          r = IF AddRequests(left, t, q, due).sendNext
              THEN SendNextRequest(AddRequests(left, t, q, due), t)
              ELSE Result(AddRequests(left, t, q, due), <<>>)
    BY DEF Polled
  <1> DEFINE e == AddRequests(left, t, q, due)
  <1>2. Base(left) /\ left.queue = d.queue /\ left.sendNext = d.sendNext
    BY ExpireFacts
  <1> HIDE DEF left
  <1>3. Base(e) /\ e.sendNext = d.sendNext /\ KeptBut(0, d.queue, e.queue)
    BY <1>2, AddRequestsFacts DEF KeptBut, Base, Entry
  <1>4. r = IF e.sendNext THEN SendNextRequest(e, t) ELSE Result(e, <<>>)
    BY <1>1
  <1> HIDE DEF e
  <1>5. d.queue \in Seq(Request) /\ e.queue \in Seq(Request) /\ e \in Entry
    BY <1>3, EntryFacts DEF Base, EntryOK
  <1>6. CASE r.dev = e
    BY <1>3, <1>6 DEF Added
  <1>7. CASE r.dev # e
    <2>1. r = SendNextRequest(e, t) /\ d.sendNext
      BY <1>3, <1>4, <1>7 DEF Result
    <2>2. /\ r.dev.queue = Tail(e.queue) /\ ~r.dev.sendNext /\ e.queue # <<>>
          /\ \/ \E k \in DOMAIN r.out : r.out[k] = Head(e.queue)
             \/ Head(e.queue).op = "sub" /\ t = "none"
      BY <1>5, <1>7, <2>1, SendNextQueue
    <2>3. CASE d.queue # <<>>
      <3>1. Head(e.queue) = Head(d.queue)
        BY <1>3, <1>5, <2>2, <2>3 DEF KeptBut
      <3>2. KeptBut(1, d.queue, Tail(e.queue))
        <4>1. KeptBut(1, e.queue, Tail(e.queue)) /\ Tail(e.queue) \in Seq(Request)
          BY <1>5, <2>2, TailKept
        <4>2. KeptBut(0 + 1, d.queue, Tail(e.queue))
          BY <1>3, <1>5, <4>1, KeptTwice
        <4> QED
          BY <4>2
      <3> QED
        BY <2>1, <2>2, <2>3, <3>1, <3>2 DEF Added, HeadSent
    <2> QED
      BY <2>1, <2>3 DEF Added
  <1> QED
    BY <1>6, <1>7

LEMMA SecondQueue ==
  ASSUME NEW d, EntryOK(d), NEW t \in SubscribeTypes, NEW discover,
         NEW expired, NEW due, NEW r \in Second(d, t, discover, expired, due)
  PROVE  Added(d, t, r)
  <1>1. d \in Entry /\ d.queue \in Seq(Request) /\ KeptBut(0, d.queue, d.queue)
    BY EntryFacts DEF EntryOK, KeptBut
  <1>2. CASE d.disable
    BY <1>1, <1>2 DEF Second, Result, Added
  <1>3. CASE ~d.disable /\ discover
    <2>1. r = ReadStructList(d)
      BY <1>3 DEF Second
    <2>2. r.dev.queue = d.queue
      BY <1>1, <2>1, ReadListQueue
    <2>3. ~r.dev.sendNext
      BY <1>1, <2>1 DEF ReadStructList, Result, Entry
    <2> QED
      BY <1>1, <2>2, <2>3 DEF Added
  <1>4. CASE ~d.disable /\ ~discover
    BY <1>4, PolledQueue DEF Second
  <1> QED
    BY <1>2, <1>3, <1>4

(* A visit does both: a time-out, then what is due.  At most one of them   *)
(* takes a request from the queue.                                         *)
LEMMA VisitQueue ==
  ASSUME NEW d, EntryOK(d), NEW t \in SubscribeTypes, NEW late \in BOOLEAN,
         NEW discover, NEW expired, NEW due,
         NEW a, a = IF late THEN TimedOut(d, t) ELSE Result(d, <<>>),
         NEW b \in Second(a.dev, t, discover, expired, due)
  PROVE  QueueOutcome(d, t, Result(b.dev, a.out \o b.out))
  <1> DEFINE r == Result(b.dev, a.out \o b.out)
  <1>1. d \in Entry /\ d.queue \in Seq(Request)
    BY EntryFacts DEF EntryOK
  <1>2. OutcomeOK(a) /\ QueueOutcome(d, t, a)
    <2>1. CASE late
      BY <2>1, TimedOutOutcome, TimedOutQueue
    <2>2. CASE ~late
      BY <1>1, <2>2, NothingSent, SameQueueKept DEF Result
    <2> QED
      BY <2>1, <2>2
  <1>3. /\ EntryOK(a.dev) /\ a.dev \in Entry /\ a.out \in Seq(Request)
        /\ a.dev.queue \in Seq(Request)
    BY <1>2, EntryFacts DEF OutcomeOK, EntryOK
  <1>4. /\ OutcomeOK(b) /\ b.out \in Seq(Request) /\ b.dev.queue \in Seq(Request)
        /\ Added(a.dev, t, b)
    <2>1. OutcomeOK(b)
      BY <1>3, SecondOutcome
    <2>2. Added(a.dev, t, b)
      BY <1>3, SecondQueue
    <2>3. b.out \in Seq(Request) /\ b.dev.queue \in Seq(Request)
      BY <2>1, EntryFacts DEF OutcomeOK, EntryOK
    <2> QED
      BY <2>1, <2>2, <2>3
  <1>5. r.dev = b.dev /\ r.out = a.out \o b.out
    BY DEF Result
  <1> HIDE DEF r
  <1>6. /\ \A k \in DOMAIN a.out : k \in DOMAIN r.out /\ r.out[k] = a.out[k]
        /\ \A k \in DOMAIN b.out : /\ k + Len(a.out) \in DOMAIN r.out
                                   /\ r.out[k + Len(a.out)] = b.out[k]
    <2>1. ASSUME NEW x \in Seq(Request), NEW y \in Seq(Request)
          PROVE  /\ \A k \in DOMAIN x : k \in DOMAIN (x \o y) /\ (x \o y)[k] = x[k]
                 /\ \A k \in DOMAIN y : /\ k + Len(x) \in DOMAIN (x \o y)
                                      /\ (x \o y)[k + Len(x)] = y[k]
      OBVIOUS
    <2>2. /\ \A k \in DOMAIN a.out : /\ k \in DOMAIN (a.out \o b.out)
                                     /\ (a.out \o b.out)[k] = a.out[k]
          /\ \A k \in DOMAIN b.out :
               /\ k + Len(a.out) \in DOMAIN (a.out \o b.out)
               /\ (a.out \o b.out)[k + Len(a.out)] = b.out[k]
      BY <1>3, <1>4, <2>1
    <2> QED
      BY <1>5, <2>2
  <1>7. CASE HeadSent(d, t, a)
    <2>1. KeptBut(0, a.dev.queue, b.dev.queue) /\ ~b.dev.sendNext
      BY <1>4, <1>7 DEF Added, HeadSent
    <2>2. KeptBut(1 + 0, d.queue, b.dev.queue)
      BY <1>1, <1>3, <1>4, <1>7, <2>1, KeptTwice DEF HeadSent
    <2> QED
      BY <1>5, <1>6, <1>7, <2>1, <2>2 DEF QueueOutcome, HeadSent, r
  <1>8. CASE KeptBut(0, d.queue, a.dev.queue)
    <2>1. CASE KeptBut(0, a.dev.queue, b.dev.queue)
      <3>1. KeptBut(0 + 0, d.queue, b.dev.queue)
        BY <1>1, <1>3, <1>4, <1>8, <2>1, KeptTwice
      <3> QED
        BY <1>5, <3>1 DEF QueueOutcome, r
    <2>2. CASE a.dev.queue = <<>> \/ d.queue = <<>>
      <3>1. d.queue = <<>>
        BY <1>1, <1>8, <2>2 DEF KeptBut
      <3> QED
        BY <3>1 DEF QueueOutcome, KeptBut
    <2>3. CASE HeadSent(a.dev, t, b) /\ d.queue # <<>>
      <3>1. KeptBut(0 + 1, d.queue, b.dev.queue)
        BY <1>1, <1>3, <1>4, <1>8, <2>3, KeptTwice DEF HeadSent
      <3>2. Head(a.dev.queue) = Head(d.queue)
        BY <1>1, <1>3, <1>8, <2>3 DEF KeptBut
      <3> QED
        BY <1>5, <1>6, <2>3, <3>1, <3>2 DEF QueueOutcome, HeadSent, r
    <2> QED
      BY <1>4, <2>1, <2>2, <2>3 DEF Added
  <1> QED
    BY <1>2, <1>7, <1>8 DEF QueueOutcome

-----------------------------------------------------------------------------
(* A changed configuration. *)
LEMMA ChangedOutcome ==
  ASSUME DeviceTypeOK, NEW d, EntryOK(d)
  PROVE  LET r == Changed(d) IN
         /\ OutcomeOK(r)
         /\ Calm(d) => CalmOutcome(r)
         /\ d.state = "read" => r = Result(d, <<>>)
         /\ r.dev.queue = d.queue
  <1>1. /\ d \in Entry /\ Base(d) /\ d.objects \in Seq(Object)
        /\ type \in SubscribeTypes /\ typeChanged \in BOOLEAN
    BY EntryIsBase DEF EntryOK, Entry, DeviceTypeOK
  <1>2. CASE d.state = "read"
    BY <1>2, NothingSent DEF Changed, Result
  <1>3. CASE d.state # "read"
    <2> DEFINE f == [k \in DOMAIN d.objects |->
                       [d.objects[k] EXCEPT !.cov = ToDo(d.objects[k])]]
               g == [d EXCEPT !.objects = f]
               st == IF type = "none" THEN "cancel" ELSE "resubscribe"
               e == [g EXCEPT !.handle = 0, !.disable = TRUE,
                              !.sendNext = FALSE, !.state = st]
    <2>1. /\ f \in [DOMAIN d.objects -> Object]
          /\ \A k \in DOMAIN d.objects : f[k].id = d.objects[k].id
      <3>1. \A k \in DOMAIN d.objects :
              LET o == d.objects[k]
                  p == [o EXCEPT !.cov = ToDo(o)]
              IN p \in Object /\ p.id = o.id
        <4> TAKE k \in DOMAIN d.objects
        <4>1. d.objects[k] \in Object
          BY <1>1
        <4>2. d.objects[k].cov \in Cov
          BY <4>1, ObjectFacts
        <4>3. ToDo(d.objects[k]) \in Cov
          BY <4>2 DEF ToDo, Cov
        <4> QED
          BY <4>1, <4>3, ObjectFacts
      <3> QED
        BY <3>1
    <2>2. Changed(d) = CancelIfNeed(e, type)
      BY <1>1, <1>3 DEF Changed, Entry
    <2> HIDE DEF f
    <2>3. /\ Base(g) /\ SameIds(d, g) /\ g.update = d.update
          /\ g.queue = d.queue /\ g.dev = d.dev
      BY <1>1, <2>1, MarkAllFacts
    <2> HIDE DEF g
    <2>4. st \in {"cancel", "resubscribe"}
      OBVIOUS
    <2> HIDE DEF st
    <2>5. /\ e \in Entry /\ e.handle = 0 /\ e.disable = TRUE /\ e.state = st
          /\ e.update = d.update /\ e.objects = g.objects
          /\ e.queue = g.queue /\ e.dev = d.dev
      <3>1. g \in Entry
        BY <2>3 DEF Base
      <3> QED
        BY <2>3, <2>4, <3>1 DEF Entry, State
    <2> HIDE DEF e
    <2>6. 0 <= Len(e.objects)
      BY <2>5, EntryFacts
    <2>7. Base(e) /\ SameIds(g, e)
      BY <2>3, <2>5, <2>6 DEF Base, SameIds, Requested
    <2>8. ~e.update
      BY <1>3, <2>5 DEF EntryOK
    <2>9. Calm(d) => AllListed(e)
      <3>1. Calm(d) => AllListed(d)
        BY <1>3, <2>5, <2>8 DEF Calm, Complete, AllListed
      <3> QED
        BY <1>1, <2>3, <2>5, <2>7, <3>1, SameIdsFacts, ListFacts, EntryFacts
        DEF AllListed, Base
    <2>10. CancelIfNeed(e, type).dev.queue = d.queue
      BY <2>3, <2>5, CancelQueue
    <2> QED
      BY <1>1, <1>3, <2>2, <2>4, <2>5, <2>7, <2>8, <2>9, <2>10, CancelOutcome
  <1> QED
    BY <1>2, <1>3

LEMMA NewDeviceOutcome ==
  ASSUME NEW d \in Device
  PROVE  LET r == NewDevice(d) IN
         /\ OutcomeOK(r) /\ CalmOutcome(r) /\ r.dev.update
         /\ r.out # <<>>
  <1> DEFINE e == [dev |-> d, state |-> "read", disable |-> TRUE,
                   sendNext |-> TRUE, update |-> FALSE, size |-> 0, next |-> 0,
                   objects |-> <<>>, handle |-> 0, queue |-> <<>>]
  <1>1. e \in Entry
    BY DEF Entry, State
  <1>2. Base(e)
    BY <1>1 DEF Base
  <1>3. NewDevice(d) = ReadStructList(e)
    BY DEF NewDevice
  <1> HIDE DEF e
  <1> QED
    BY <1>2, <1>3, ReadStructListOutcome

-----------------------------------------------------------------------------
(* Each step preserves the invariant.                                      *)

LEMMA TypeFacts ==
  ASSUME DeviceTypeOK
  PROVE  /\ devices \in Seq(Entry) /\ Len(devices) \in Nat
         /\ DOMAIN devices = 1..Len(devices)
         /\ \A i \in DOMAIN devices : devices[i] \in Entry /\ i \in Place
         /\ type \in SubscribeTypes
         /\ \A i \in Place : net[i] \in Seq(Request) /\ mixed[i] \in BOOLEAN
  <1>1. /\ devices \in Seq(Entry) /\ Len(devices) <= MaxDevices
        /\ net \in [Place -> Seq(Request)] /\ mixed \in [Place -> BOOLEAN]
        /\ type \in SubscribeTypes
    BY DEF DeviceTypeOK
  <1>2. /\ Len(devices) \in Nat /\ DOMAIN devices = 1..Len(devices)
        /\ \A i \in DOMAIN devices : devices[i] \in Entry
    BY <1>1
  <1>3. \A i \in DOMAIN devices : i \in Place
    <2>1. MaxDevices \in Nat
      BY DeviceAssumption
    <2> QED
      BY <1>1, <1>2, <2>1 DEF Place
  <1> QED
    BY <1>1, <1>2, <1>3

LEMMA SpendFacts ==
  ASSUME DeviceTypeOK, NEW e \in Events, Spend(e)
  PROVE  budget' \in [Events -> Nat]
  <1>1. budget \in [Events -> Nat]
    BY DEF DeviceTypeOK
  <1>2. budget[e] \in Nat /\ budget[e] > 0
    BY <1>1 DEF Spend
  <1>3. budget[e] - 1 \in Nat
    BY <1>2
  <1> QED
    BY <1>1, <1>3 DEF Spend

(* A step of the worker that changes nothing but one place. *)
LEMMA OnePlaceKeeps ==
  ASSUME DeviceInv, NEW i \in DOMAIN devices,
         NEW d, NEW requests \in Seq(Request), NEW m \in BOOLEAN,
         PlaceOK(d, requests, m),
         ~Sendable(i) => requests = <<>> /\ ~m,
         devices' = [devices EXCEPT ![i] = d],
         net' = [net EXCEPT ![i] = requests],
         mixed' = [mixed EXCEPT ![i] = m],
         undefined = "no",
         UNCHANGED <<settings, pc, undefined>>,
         pend' \subseteq Pending,
         \A p \in pend' : ~p.freed => p.place \in DOMAIN devices,
         budget' \in [Events -> Nat]
  PROVE  DeviceInv'
  <1>1. /\ PlacesOK'
        /\ devices' \in Seq(Entry) /\ Len(devices') = Len(devices)
        /\ DOMAIN devices' = DOMAIN devices
        /\ net' \in [Place -> Seq(Request)] /\ mixed' \in [Place -> BOOLEAN]
    <2>1. DeviceTypeOK /\ PlacesOK
      BY DEF DeviceInv
    <2> QED
      BY ONLY <2>1, OnePlace, i \in DOMAIN devices, requests \in Seq(Request),
         m \in BOOLEAN, PlaceOK(d, requests, m),
         ~Sendable(i) => requests = <<>> /\ ~m,
         devices' = [devices EXCEPT ![i] = d],
         net' = [net EXCEPT ![i] = requests],
         mixed' = [mixed EXCEPT ![i] = m], Zenon
  <1>2. DeviceTypeOK'
    BY <1>1 DEF DeviceInv, DeviceTypeOK, settings
  <1>3. PendOK'
    BY <1>1 DEF PendOK
  <1>4. UndefinedOnlyIfMixed'
    BY DEF UndefinedOnlyIfMixed
  <1> QED
    BY <1>1, <1>2, <1>3, <1>4 DEF DeviceInv

LEMMA HandledKeeps ==
  ASSUME DeviceInv, NEW i \in DOMAIN devices, NEW k \in DOMAIN net[i],
         NEW r, OutcomeOK(r), ~mixed[i] => CalmOutcome(r),
         WorkerRuns, Handled(i, Without(net[i], k), r),
         budget' \in [Events -> Nat]
  PROVE  DeviceInv'
  <1> DEFINE rest == Without(net[i], k)
             u == UnderWay(i, rest \o r.out)
             m == Mixed(i, mixed[i], rest, r)
  <1>1. /\ i \in Place /\ net[i] \in Seq(Request) /\ mixed[i] \in BOOLEAN
        /\ DeviceTypeOK /\ mixed \in [Place -> BOOLEAN]
    BY TypeFacts DEF DeviceInv, DeviceTypeOK
  <1>2. /\ rest \in Seq(Request)
        /\ Len(net[i]) = 1 => rest = <<>>
    BY <1>1, WithoutIsSequence
  <1>3. ~mixed[i] => Len(net[i]) = 1
    <2>1. net[i] # <<>>
      BY <1>1
    <2> QED
      BY <2>1 DEF DeviceInv, PlacesOK, PlaceOK
  <1>4. ~Sendable(i) => ~mixed[i]
    BY <1>1 DEF DeviceInv, PlacesOK
  <1>5. /\ devices' = [devices EXCEPT ![i] = r.dev]
        /\ net' = [net EXCEPT ![i] = u]
        /\ mixed' = [mixed EXCEPT ![i] = m]
        /\ UNCHANGED <<settings, pc, pend, undefined>>
    BY <1>1 DEF Handled
  <1> HIDE DEF rest
  <1>6. /\ r.out \in Seq(Request) /\ EntryOK(r.dev)
        /\ r.dev.update /\ Len(r.out) = 1 => r.out = <<ReadElement(r.dev.dev, 0)>>
        /\ ~mixed[i] => Calm(r.dev)
        /\ ~mixed[i] /\ Len(r.out) = 1 => AskedLast(r.dev, r.out[1])
    <2>1. Len(<<>>) # 1
      OBVIOUS
    <2>2. r.out = <<>> => Len(r.out) # 1
      BY <2>1
    <2> QED
      BY <2>2 DEF OutcomeOK, CalmOutcome
  <1>7. /\ u \in Seq(Request) /\ m \in BOOLEAN /\ PlaceOK(r.dev, u, m)
        /\ ~Sendable(i) => u = <<>> /\ ~m
    BY <1>1, <1>2, <1>3, <1>4, <1>6, PlaceOutcome
  <1> HIDE DEF u, m
  <1>8. /\ pend' \subseteq Pending
        /\ \A p \in pend' : ~p.freed => p.place \in DOMAIN devices
    BY <1>5 DEF DeviceInv, DeviceTypeOK, PendOK
  <1> QED
    BY <1>5, <1>7, <1>8, OnePlaceKeeps DEF WorkerRuns

(* What is known of the request that is answered. *)
LEMMA AnsweredFacts ==
  ASSUME DeviceInv, NEW i, NEW k, NEW ops, Answered(i, k, ops)
  PROVE  /\ WorkerRuns /\ i \in DOMAIN devices /\ i \in Place
         /\ k \in DOMAIN net[i] /\ net[i][k] \in Request /\ net[i][k].op \in ops
         /\ EntryOK(devices[i]) /\ type \in SubscribeTypes
         /\ ~mixed[i] => Calm(devices[i]) /\ AskedLast(devices[i], net[i][k])
  <1>1. /\ WorkerRuns /\ i \in DOMAIN devices /\ k \in DOMAIN net[i]
        /\ net[i][k].op \in ops
    BY DEF Answered
  <1>2. i \in Place /\ net[i] \in Seq(Request) /\ type \in SubscribeTypes
    BY <1>1, TypeFacts DEF DeviceInv
  <1>3. net[i][k] \in Request /\ net[i] # <<>> /\ (Len(net[i]) = 1 => k = 1)
    BY <1>1, <1>2
  <1>4. PlaceOK(devices[i], net[i], mixed[i])
    BY <1>1 DEF DeviceInv, PlacesOK
  <1> QED
    BY <1>1, <1>2, <1>3, <1>4 DEF PlaceOK

LEMMA ReadAnswerKeeps ==
  ASSUME DeviceInv, NEW i, NEW k, ReadAnswer(i, k)
  PROVE  DeviceInv'
  <1> DEFINE q == net[i][k]
             d == devices[i]
             r == ListAnswer(d, type, q.to, q.index)
  <1>1. /\ Answered(i, k, {"read"}) /\ Exists(q)
        /\ Handled(i, Without(net[i], k), r) /\ UNCHANGED budget
    BY DEF ReadAnswer
  <1>2. /\ WorkerRuns /\ i \in DOMAIN devices /\ k \in DOMAIN net[i]
        /\ q \in Request /\ q.op = "read" /\ EntryOK(d) /\ type \in SubscribeTypes
        /\ ~mixed[i] => Calm(d) /\ AskedLast(d, q)
    BY <1>1, AnsweredFacts
  <1>3. /\ q.to \in Device /\ q.index \in Nat
        /\ q.index = 0 \/ q.index \in DOMAIN ObjectList[q.to]
    BY <1>1, <1>2, RequestFacts DEF Exists
  <1> HIDE DEF q, d
  <1>4. ~mixed[i] => d.state = "read" /\ q.to = d.dev /\ q.index = d.next
    BY <1>2 DEF AskedLast
  <1>5. OutcomeOK(r) /\ (~mixed[i] => CalmOutcome(r))
    BY <1>2, <1>3, <1>4, ListAnswerOutcome
  <1> HIDE DEF r
  <1>6. budget' \in [Events -> Nat]
    BY <1>1 DEF DeviceInv, DeviceTypeOK
  <1> QED
    BY <1>1, <1>2, <1>5, <1>6, HandledKeeps

LEMMA SubscribeAnswerKeeps ==
  ASSUME DeviceInv, NEW i, NEW k, SubscribeAnswer(i, k)
  PROVE  DeviceInv'
  <1> DEFINE d == devices[i]
             r == SimpleAnswer(d, type)
  <1>1. /\ Answered(i, k, {"sub", "cancel"}) /\ ~NullObject(d)
        /\ Handled(i, Without(net[i], k), r) /\ UNCHANGED budget
    BY DEF SubscribeAnswer
  <1>2. /\ WorkerRuns /\ i \in DOMAIN devices /\ k \in DOMAIN net[i]
        /\ net[i][k].op \in {"sub", "cancel"} /\ EntryOK(d)
        /\ type \in SubscribeTypes
        /\ ~mixed[i] => Calm(d) /\ AskedLast(d, net[i][k])
    BY <1>1, AnsweredFacts
  <1> HIDE DEF d
  <1>3. ~mixed[i] => d.state # "read"
    BY <1>2 DEF AskedLast
  <1>4. OutcomeOK(r) /\ (~mixed[i] => CalmOutcome(r))
    BY <1>1, <1>2, <1>3, SimpleAnswerOutcome
  <1> HIDE DEF r
  <1>5. budget' \in [Events -> Nat]
    BY <1>1 DEF DeviceInv, DeviceTypeOK
  <1> QED
    BY <1>1, <1>2, <1>4, <1>5, HandledKeeps

LEMMA PropertiesAnswerKeeps ==
  ASSUME DeviceInv, NEW i, NEW k, RpmAnswer(i, k) \/ WpmAnswer(i, k)
  PROVE  DeviceInv'
  <1> DEFINE r == PropertiesAnswer(devices[i], type)
  <1>1. /\ Answered(i, k, {"rpm", "wpm"})
        /\ Handled(i, Without(net[i], k), r) /\ UNCHANGED budget
    BY DEF RpmAnswer, WpmAnswer, Answered
  <1>2. /\ WorkerRuns /\ i \in DOMAIN devices /\ k \in DOMAIN net[i]
        /\ EntryOK(devices[i]) /\ type \in SubscribeTypes
        /\ ~mixed[i] => Calm(devices[i])
    BY <1>1, AnsweredFacts
  <1>3. OutcomeOK(r) /\ (~mixed[i] => CalmOutcome(r))
    BY <1>2, SendAgainOutcome DEF PropertiesAnswer
  <1> HIDE DEF r
  <1>4. budget' \in [Events -> Nat]
    BY <1>1 DEF DeviceInv, DeviceTypeOK
  <1> QED
    BY <1>1, <1>2, <1>3, <1>4, HandledKeeps

LEMMA RefusalKeeps ==
  ASSUME DeviceInv, NEW i, NEW k, Refusal(i, k)
  PROVE  DeviceInv'
  <1> DEFINE r == HandleForUnexpected(devices[i], type)
  <1>1. /\ Answered(i, k, {"read", "sub", "cancel", "rpm", "wpm"})
        /\ Handled(i, Without(net[i], k), r)
        /\ Spend("refusal") \/ UNCHANGED budget
    BY DEF Refusal
  <1>2. /\ WorkerRuns /\ i \in DOMAIN devices /\ k \in DOMAIN net[i]
        /\ EntryOK(devices[i]) /\ type \in SubscribeTypes
        /\ ~mixed[i] => Calm(devices[i])
    BY <1>1, AnsweredFacts
  <1>3. OutcomeOK(r) /\ (~mixed[i] => CalmOutcome(r))
    BY <1>2, UnexpectedOutcome
  <1> HIDE DEF r
  <1>4. budget' \in [Events -> Nat]
    <2>1. "refusal" \in Events /\ DeviceTypeOK
      BY DEF Events, DeviceInv
    <2>2. budget \in [Events -> Nat]
      BY <2>1 DEF DeviceTypeOK
    <2> QED
      BY <1>1, <2>1, <2>2, SpendFacts
  <1> QED
    BY <1>1, <1>2, <1>3, <1>4, HandledKeeps

LEMMA LoseKeeps ==
  ASSUME DeviceInv, NEW i \in Place, NEW k, Lose(i, k)
  PROVE  DeviceInv'
  <1> DEFINE rest == Without(net[i], k)
  <1>1. /\ k \in DOMAIN net[i] /\ undefined = "no"
        /\ net' = [net EXCEPT ![i] = rest] /\ Spend("loss")
        /\ UNCHANGED <<devices, settings, pc, pend, mixed, undefined>>
    BY DEF Lose
  <1>2. /\ net \in [Place -> Seq(Request)] /\ net[i] \in Seq(Request)
        /\ DeviceTypeOK
    BY DEF DeviceInv, DeviceTypeOK
  <1>3. rest \in Seq(Request) /\ (Len(net[i]) = 1 => rest = <<>>) /\ net[i] # <<>>
    BY <1>1, <1>2, WithoutIsSequence
  <1> HIDE DEF rest
  <1>4. /\ net' \in [Place -> Seq(Request)] /\ net'[i] = rest
        /\ \A j \in Place : j # i => net'[j] = net[j]
    BY <1>1, <1>2, <1>3
  <1>5. budget' \in [Events -> Nat]
    BY <1>1, <1>2, SpendFacts DEF Events
  <1>6. DeviceTypeOK'
    BY <1>1, <1>2, <1>4, <1>5 DEF DeviceTypeOK, settings
  <1>7. PlacesOK'
    <2>1. ASSUME NEW j \in DOMAIN devices
          PROVE  PlaceOK(devices[j], net'[j], mixed[j])
      <3>1. j \in Place /\ PlaceOK(devices[j], net[j], mixed[j])
        BY <1>2, TypeFacts DEF DeviceInv, PlacesOK
      <3> QED
        BY <1>3, <1>4, <3>1 DEF PlaceOK
    <2>2. \A j \in Place : ~Sendable(j) => net'[j] = <<>> /\ ~mixed[j]
      BY <1>3, <1>4 DEF DeviceInv, PlacesOK
    <2>3. \A j \in Place \ DOMAIN devices : net'[j] # <<>> => mixed[j]
      BY <1>3, <1>4 DEF DeviceInv, PlacesOK
    <2> QED
      BY <1>1, <2>1, <2>2, <2>3 DEF PlacesOK
  <1> QED
    BY <1>1, <1>6, <1>7 DEF DeviceInv, PendOK, UndefinedOnlyIfMixed

(* An acknowledgement without an object: only at a place that was mixed up *)
LEMMA NullAnswerKeeps ==
  ASSUME DeviceInv, NEW i, NEW k, NullAnswer(i, k)
  PROVE  DeviceInv'
  <1>1. /\ Answered(i, k, {"sub", "cancel"}) /\ NullObject(devices[i])
        /\ undefined' = "null object"
        /\ UNCHANGED <<devices, settings, pc, pend, net, mixed, budget>>
    BY DEF NullAnswer
  <1>2. /\ i \in Place /\ net[i][k].op \in {"sub", "cancel"}
        /\ EntryOK(devices[i])
        /\ ~mixed[i] => AskedLast(devices[i], net[i][k])
    BY <1>1, AnsweredFacts
  <1>3. ASSUME ~mixed[i] PROVE FALSE
    <2> DEFINE d == devices[i]
               q == net[i][k]
    <2>1. AskedLast(d, q) /\ q.op \in {"sub", "cancel"} /\ d.handle = 0
      BY <1>1, <1>2, <1>3 DEF NullObject
    <2>2. d.state \in {"read", "subscribe", "main"}
      <3>1. d.state \in State
        BY <1>2, EntryFacts DEF EntryOK
      <3> QED
        BY <1>1, <3>1 DEF NullObject, State
    <2>3. d.state = "subscribe" => d.handle # 0
      BY <1>2 DEF EntryOK
    <2> HIDE DEF d, q
    <2> QED
      BY <2>1, <2>2, <2>3 DEF AskedLast
  <1>4. DeviceTypeOK'
    BY <1>1 DEF DeviceInv, DeviceTypeOK, settings
  <1> QED
    BY <1>1, <1>2, <1>3, <1>4
    DEF DeviceInv, PlacesOK, PendOK, UndefinedOnlyIfMixed

(* An answer for a freed device: what is under way for it is a mix-up. *)
LEMMA StaleAnswerKeeps ==
  ASSUME DeviceInv, NEW i \in Place, NEW k, StaleAnswer(i, k)
  PROVE  DeviceInv'
  <1> DEFINE rest == Without(net[i], k)
  <1>1. /\ i \notin DOMAIN devices /\ k \in DOMAIN net[i]
        /\ undefined' \in {"no", "freed device"}
        /\ net' = [net EXCEPT ![i] = rest]
        /\ UNCHANGED <<devices, settings, pc, pend, mixed, budget>>
    BY DEF StaleAnswer
  <1>2. net \in [Place -> Seq(Request)] /\ net[i] \in Seq(Request)
    BY DEF DeviceInv, DeviceTypeOK
  <1>3. rest \in Seq(Request) /\ net[i] # <<>>
    <2>1. net[i] # <<>>
      BY <1>1, <1>2, NotEmpty
    <2> QED
      BY <1>1, <1>2, <2>1, WithoutIsSequence
  <1> HIDE DEF rest
  <1>4. /\ net' \in [Place -> Seq(Request)]
        /\ \A j \in Place : j # i => net'[j] = net[j]
    BY <1>1, <1>2, <1>3
  <1>5. mixed[i] /\ Sendable(i)
    BY <1>1, <1>3 DEF DeviceInv, PlacesOK
  <1>6. DeviceTypeOK'
    BY <1>1, <1>4 DEF DeviceInv, DeviceTypeOK, settings
  <1>7. PlacesOK'
    <2>1. ASSUME NEW j \in DOMAIN devices
          PROVE  PlaceOK(devices[j], net'[j], mixed[j])
      <3>1. j \in Place /\ PlaceOK(devices[j], net[j], mixed[j]) /\ j # i
        BY <1>1, TypeFacts DEF DeviceInv, PlacesOK
      <3> QED
        BY <1>4, <3>1
    <2>2. \A j \in Place : ~Sendable(j) => net'[j] = <<>> /\ ~mixed[j]
      BY <1>4, <1>5 DEF DeviceInv, PlacesOK
    <2>3. \A j \in Place \ DOMAIN devices : net'[j] # <<>> => mixed[j]
      BY <1>4, <1>5 DEF DeviceInv, PlacesOK
    <2> QED
      BY <1>1, <2>1, <2>2, <2>3 DEF PlacesOK
  <1> QED
    BY <1>1, <1>5, <1>6, <1>7 DEF DeviceInv, PendOK, UndefinedOnlyIfMixed

(* A device is found. *)
LEMMA FoundWithRoomKeeps ==
  ASSUME DeviceInv, NEW d \in Device, FoundWithRoom(d)
  PROVE  DeviceInv'
  <1> DEFINE i == Len(devices) + 1
             r == NewDevice(d)
             u == UnderWay(i, net[i] \o r.out)
             m == Mixed(i, FALSE, net[i], r)
  <1>1. /\ WorkerRuns /\ Len(devices) < MaxDevices /\ Spend("found")
        /\ devices' = Append(devices, r.dev)
        /\ net' = [net EXCEPT ![i] = u]
        /\ mixed' = [mixed EXCEPT ![i] = m]
        /\ UNCHANGED <<settings, pc, pend, undefined>>
    BY DEF FoundWithRoom
  <1>2. /\ DeviceTypeOK /\ devices \in Seq(Entry) /\ Len(devices) \in Nat
        /\ DOMAIN devices = 1..Len(devices)
        /\ net \in [Place -> Seq(Request)] /\ mixed \in [Place -> BOOLEAN]
        /\ MaxDevices \in Nat
    BY DeviceAssumption, TypeFacts DEF DeviceInv, DeviceTypeOK
  <1>3. i \in Place /\ i \notin DOMAIN devices /\ net[i] \in Seq(Request)
    BY <1>1, <1>2 DEF Place
  <1>4. OutcomeOK(r) /\ CalmOutcome(r) /\ r.out # <<>>
    BY NewDeviceOutcome
  <1> HIDE DEF r
  <1>5. /\ u \in Seq(Request) /\ m \in BOOLEAN /\ PlaceOK(r.dev, u, m)
        /\ ~Sendable(i) => u = <<>> /\ ~m
    <2>1. /\ r.out \in Seq(Request) /\ EntryOK(r.dev) /\ r.out # <<>>
          /\ r.dev.update /\ Len(r.out) = 1 => r.out = <<ReadElement(r.dev.dev, 0)>>
          /\ Calm(r.dev) /\ AskedLast(r.dev, r.out[1])
      BY <1>4 DEF OutcomeOK, CalmOutcome
    <2> HIDE DEF i
    <2> QED
      BY <1>3, <2>1, PlaceOutcome
  <1> HIDE DEF u, m
  <1>6. /\ devices' \in Seq(Entry) /\ Len(devices') = Len(devices) + 1
        /\ DOMAIN devices' = 1..i
        /\ devices'[i] = r.dev
        /\ \A j \in 1..Len(devices) : devices'[j] = devices[j]
    <2>1. r.dev \in Entry
      BY <1>4 DEF OutcomeOK, EntryOK
    <2> QED
      BY <1>1, <1>2, <2>1, AppendFacts
  <1>7. /\ net' \in [Place -> Seq(Request)] /\ mixed' \in [Place -> BOOLEAN]
        /\ net'[i] = u /\ mixed'[i] = m
        /\ \A j \in Place : j # i => net'[j] = net[j] /\ mixed'[j] = mixed[j]
    <2> HIDE DEF i
    <2> QED
      BY <1>1, <1>2, <1>3, <1>5
  <1>8. \A j : j \in DOMAIN devices' => j = i \/ j \in DOMAIN devices
    BY <1>2, <1>6
  <1>9. DOMAIN devices \subseteq DOMAIN devices' /\ i \in DOMAIN devices'
    BY <1>2, <1>6
  <1>10. budget' \in [Events -> Nat]
    BY <1>1, <1>2, SpendFacts DEF Events
  <1>11. DeviceTypeOK'
    <2>1. Len(devices') <= MaxDevices
      BY <1>1, <1>2, <1>6
    <2> QED
      BY <1>1, <1>2, <1>6, <1>7, <1>10, <2>1 DEF DeviceTypeOK, settings
  <1> HIDE DEF i
  <1>12. PlacesOK'
    <2>1. ASSUME NEW j \in DOMAIN devices'
          PROVE  PlaceOK(devices'[j], net'[j], mixed'[j])
      <3>1. CASE j = i
        BY <1>5, <1>6, <1>7, <3>1
      <3>2. CASE j # i
        <4>1. j \in DOMAIN devices /\ j \in Place
          BY <1>2, <1>8, <3>2, TypeFacts
        <4> QED
          BY <1>2, <1>6, <1>7, <3>2, <4>1 DEF DeviceInv, PlacesOK
      <3> QED
        BY <3>1, <3>2
    <2>2. \A j \in Place : ~Sendable(j) => net'[j] = <<>> /\ ~mixed'[j]
      BY <1>5, <1>7 DEF DeviceInv, PlacesOK
    <2>3. \A j \in Place \ DOMAIN devices' : net'[j] # <<>> => mixed'[j]
      BY <1>7, <1>9 DEF DeviceInv, PlacesOK
    <2> QED
      BY <2>1, <2>2, <2>3 DEF PlacesOK
  <1>13. PendOK'
    BY <1>1, <1>9 DEF DeviceInv, PendOK
  <1> QED
    BY <1>1, <1>11, <1>12, <1>13
    DEF DeviceInv, UndefinedOnlyIfMixed, WorkerRuns

LEMMA FoundEvictingKeeps ==
  ASSUME DeviceInv, NEW d \in Device, NEW i \in DOMAIN devices,
         FoundEvicting(d, i)
  PROVE  DeviceInv'
  <1>1. /\ WorkerRuns /\ Spend("found") /\ pend' = Freed(i)
        /\ UNCHANGED <<settings, pc, undefined>>
    BY DEF FoundEvicting
  <1>2. /\ DeviceTypeOK /\ i \in Place /\ net[i] \in Seq(Request)
        /\ devices[i] \in Entry /\ pend \subseteq Pending
    BY TypeFacts DEF DeviceInv, DeviceTypeOK
  <1>3. PICK q \in Listings(Subscribed(i)) :
          LET old == devices[i]
              cancels == [n \in DOMAIN q |->
                            Cancellation(old.dev, old.objects[q[n]].id, "object")]
              result == Result(NewDevice(d).dev, cancels \o NewDevice(d).out)
          IN /\ net' = [net EXCEPT ![i] = UnderWay(i, net[i] \o result.out)]
             /\ mixed' = [mixed EXCEPT ![i] = Mixed(i, FALSE, net[i], result)]
             /\ devices' = [devices EXCEPT ![i] = result.dev]
    <2>1. i \in Place /\ net \in [Place -> Seq(Request)]
      BY <1>2 DEF DeviceTypeOK
    <2> QED
      BY <2>1 DEF FoundEvicting, DeviceTypeOK
  <1> DEFINE c == [n \in DOMAIN q |->
                     Cancellation(devices[i].dev, devices[i].objects[q[n]].id,
                                  "object")]
             r == NewDevice(d)
             x == Result(r.dev, c \o r.out)
             u == UnderWay(i, net[i] \o x.out)
             m == Mixed(i, FALSE, net[i], x)
  <1>4. c \in Seq(Request)
    <2>1. PICK n \in Nat : q \in [1..n -> DOMAIN devices[i].objects]
      <3>1. PICK n \in 0..Cardinality(Subscribed(i)) : q \in [1..n -> Subscribed(i)]
        BY DEF Listings
      <3>2. Subscribed(i) \subseteq DOMAIN devices[i].objects /\ n \in Nat
        BY <3>1 DEF Subscribed, WithCov
      <3> QED
        BY <3>1, <3>2
    <2>2. \A k \in 1..n :
            Cancellation(devices[i].dev, devices[i].objects[q[k]].id, "object")
              \in Request
      <3> TAKE k \in 1..n
      <3>1. /\ devices[i].dev \in Device
            /\ devices[i].objects[q[k]].id \in Id
        <4>1. devices[i].objects \in Seq(Object) /\ devices[i].dev \in Device
          BY <1>2, EntryFacts
        <4>2. q[k] \in DOMAIN devices[i].objects
          BY <2>1
        <4> QED
          BY <4>1, <4>2, ObjectFacts
      <3> QED
        BY <3>1, RequestFacts DEF Services
    <2>3. DOMAIN q = 1..n
      BY <2>1
    <2>4. c \in [1..n -> Request]
      BY <2>2, <2>3
    <2> HIDE DEF c
    <2> QED
      BY <2>4, FunctionIsSequence
  <1>5. OutcomeOK(r) /\ CalmOutcome(r) /\ r.out # <<>>
    BY NewDeviceOutcome
  <1>6. /\ net' = [net EXCEPT ![i] = u]
        /\ mixed' = [mixed EXCEPT ![i] = m]
        /\ devices' = [devices EXCEPT ![i] = r.dev]
    BY <1>3 DEF Result
  <1> HIDE DEF r, c
  <1>7. /\ x.dev = r.dev /\ x.out = c \o r.out
    BY DEF Result
  <1> HIDE DEF x
  <1>8. /\ r.out \in Seq(Request) /\ EntryOK(r.dev) /\ Len(r.out) = 1
        /\ r.dev.update => r.out = <<ReadElement(r.dev.dev, 0)>>
        /\ Calm(r.dev) /\ AskedLast(r.dev, r.out[1])
    BY <1>5 DEF OutcomeOK, CalmOutcome
  <1>9. /\ x.out \in Seq(Request) /\ x.out # <<>>
        /\ Len(x.out) = 1 => x.out = r.out
    <2>1. Len(c \o r.out) = Len(c) + 1 /\ c \o r.out \in Seq(Request) /\ Len(c) \in Nat
      <3>1. /\ c \o r.out \in Seq(Request) /\ Len(c) \in Nat
            /\ Len(c \o r.out) = Len(c) + Len(r.out)
        BY <1>4, <1>8, ConcatFacts, Zenon
      <3> QED
        BY <1>8, <3>1, Zenon
    <2>2. Len(c \o r.out) = 1 => ~(Len(c \o r.out) > 1)
      BY <2>1
    <2>3. c \o r.out # <<>>
      BY <2>1
    <2> QED
      BY <1>4, <1>5, <1>7, <1>8, <2>1, <2>2, <2>3, OneOrNone
  <1>10. /\ u \in Seq(Request) /\ m \in BOOLEAN /\ PlaceOK(r.dev, u, m)
         /\ ~Sendable(i) => u = <<>> /\ ~m
    BY <1>2, <1>7, <1>8, <1>9, PlaceOutcome
  <1> HIDE DEF u, m
  <1>11. /\ pend' \subseteq Pending
         /\ \A p \in pend' : ~p.freed => p.place \in DOMAIN devices
    BY <1>1, <1>2 DEF Freed, Pending, DeviceInv, PendOK
  <1>12. budget' \in [Events -> Nat]
    BY <1>1, <1>2, SpendFacts DEF Events
  <1> QED
    BY <1>1, <1>6, <1>10, <1>11, <1>12, OnePlaceKeeps DEF WorkerRuns

(* The gateway forgets its devices. *)
LEMMA ResetKeeps ==
  ASSUME DeviceInv, Reset
  PROVE  DeviceInv'
  <1>1. /\ WorkerRuns /\ Spend("reset") /\ devices' = <<>>
        /\ pend' = {[p EXCEPT !.freed = TRUE] : p \in pend}
        /\ mixed' = [i \in Place |-> mixed[i] \/ net[i] # <<>>]
        /\ UNCHANGED <<settings, pc, net, undefined>>
    BY DEF Reset
  <1>2. DeviceTypeOK /\ pend \subseteq Pending /\ mixed \in [Place -> BOOLEAN]
    BY DEF DeviceInv, DeviceTypeOK
  <1>3. budget' \in [Events -> Nat]
    BY <1>1, <1>2, SpendFacts DEF Events
  <1>4. /\ devices' \in Seq(Entry) /\ DOMAIN devices' = {}
        /\ Len(devices') <= MaxDevices
    BY <1>1, DeviceAssumption
  <1>5. pend' \subseteq Pending /\ \A p \in pend' : p.freed
    BY <1>1, <1>2 DEF Pending
  <1>6. mixed' \in [Place -> BOOLEAN]
    BY <1>1
  <1>7. DeviceTypeOK'
    BY <1>1, <1>2, <1>3, <1>4, <1>5, <1>6 DEF DeviceTypeOK, settings
  <1>8. PlacesOK'
    <2>1. \A j \in Place : ~Sendable(j) => net'[j] = <<>> /\ ~mixed'[j]
      BY <1>1 DEF DeviceInv, PlacesOK
    <2>2. \A j \in Place : net'[j] # <<>> => mixed'[j]
      BY <1>1
    <2> QED
      BY <1>4, <2>1, <2>2 DEF PlacesOK
  <1> QED
    BY <1>1, <1>5, <1>7, <1>8
    DEF DeviceInv, PendOK, UndefinedOnlyIfMixed, WorkerRuns

(* The worker visits a device. *)
LEMMA VisitKeeps ==
  ASSUME DeviceInv, NEW i \in DOMAIN devices, NEW late \in BOOLEAN,
         NEW discover \in BOOLEAN, NEW expired, NEW due \in BOOLEAN,
         Visit(i, late, discover, expired, due)
  PROVE  DeviceInv'
  <1> DEFINE d == devices[i]
             before == mixed[i] \/ (late /\ net[i] # <<>>)
  <1>1. /\ WorkerRuns /\ DeviceTypeOK /\ i \in Place
        /\ net[i] \in Seq(Request) /\ mixed[i] \in BOOLEAN
        /\ type \in SubscribeTypes
        /\ PlaceOK(d, net[i], mixed[i])
        /\ ~Sendable(i) => net[i] = <<>> /\ ~mixed[i]
        /\ pend \subseteq Pending /\ net \in [Place -> Seq(Request)]
        /\ mixed \in [Place -> BOOLEAN]
    BY TypeFacts DEF Visit, DeviceInv, PlacesOK, DeviceTypeOK
  <1>2. PICK first \in {IF late THEN TimedOut(devices[i], type)
                         ELSE Result(devices[i], <<>>)} :
          \E second \in Second(first.dev, type, discover, expired, due) :
          \E both \in {Result(second.dev, first.out \o second.out)} :
            /\ Len(both.dev.queue) <= MaxQueue
            /\ devices' = [devices EXCEPT ![i] = both.dev]
            /\ net' = [net EXCEPT ![i] = UnderWay(i, @ \o both.out)]
            /\ mixed' = [mixed EXCEPT
                           ![i] = Mixed(i, @ \/ (late /\ net[i] # <<>>),
                                        net[i], both)]
    BY Zenon DEF Visit
  <1>3. PICK second \in Second(first.dev, type, discover, expired, due) :
          \E both \in {Result(second.dev, first.out \o second.out)} :
            /\ Len(both.dev.queue) <= MaxQueue
            /\ devices' = [devices EXCEPT ![i] = both.dev]
            /\ net' = [net EXCEPT ![i] = UnderWay(i, @ \o both.out)]
            /\ mixed' = [mixed EXCEPT
                           ![i] = Mixed(i, @ \/ (late /\ net[i] # <<>>),
                                        net[i], both)]
    BY <1>2
  <1> DEFINE both == Result(second.dev, first.out \o second.out)
             u == UnderWay(i, net[i] \o both.out)
             m == Mixed(i, before, net[i], both)
  <1>4. /\ devices' = [devices EXCEPT ![i] = both.dev]
        /\ net' = [net EXCEPT ![i] = u]
        /\ mixed' = [mixed EXCEPT ![i] = m]
    BY <1>1, <1>3
  <1>5. /\ both.dev = second.dev /\ both.out = first.out \o second.out
    BY DEF Result
  <1> HIDE DEF both
  <1>6. first = IF late THEN TimedOut(d, type) ELSE Result(d, <<>>)
    BY <1>2
  <1>7. /\ OutcomeOK(first)
        /\ ~mixed[i] => CalmOutcome(first)
        /\ ~late => first.dev = d /\ first.out = <<>>
    <2>1. EntryOK(d) /\ (~mixed[i] => Calm(d))
      BY <1>1 DEF PlaceOK
    <2>2. CASE late
      <3>1. first = TimedOut(d, type)
        BY <1>6, <2>2
      <3> QED
        BY <1>1, <2>1, <2>2, <3>1, TimedOutOutcome
    <2>3. CASE ~late
      <3>1. first = Result(d, <<>>)
        BY <1>6, <2>3
      <3>2. first.dev = d /\ first.out = <<>>
        BY <3>1 DEF Result
      <3> HIDE DEF d
      <3> QED
        BY <2>1, <3>1, <3>2, NothingSent
    <2> QED
      BY <2>2, <2>3
  <1> HIDE DEF d
  <1>8. /\ OutcomeOK(second)
        /\ ~mixed[i] => CalmOutcome(second)
        /\ \A q : ~mixed[i] /\ AskedLast(first.dev, q) /\ second.out = <<>> =>
                    AskedLast(second.dev, q)
        /\ second.out = <<>> => second.dev.update = first.dev.update
        /\ first.dev.update => second.out = <<>>
        /\ second.out = <<>> => second.dev.dev = first.dev.dev
    <2>1. EntryOK(first.dev) /\ (~mixed[i] => Calm(first.dev))
      BY <1>7 DEF OutcomeOK, CalmOutcome
    <2> QED
      BY <1>1, <2>1, SecondOutcome
  <1>9. /\ first.out \in Seq(Request) /\ second.out \in Seq(Request)
        /\ both.out \in Seq(Request)
        /\ Len(both.out) = 1 =>
             \/ first.out = <<>> /\ both.out = second.out
             \/ second.out = <<>> /\ both.out = first.out
    <2>1. first.out \in Seq(Request) /\ second.out \in Seq(Request)
      BY <1>7, <1>8 DEF OutcomeOK
    <2>2. both.out \in Seq(Request)
      BY <1>5, <2>1, ConcatFacts
    <2>3. CASE second.out = <<>>
      <3>1. both.out = first.out
        BY <1>5, <2>1, <2>3, OneOrNone
      <3> QED
        BY <2>1, <2>2, <2>3, <3>1
    <2>4. CASE second.out # <<>>
      <3>1. ~(Len(both.out) > 1) => first.out = <<>> /\ both.out = second.out
        <4>1. ~(Len(first.out \o second.out) > 1) =>
                first.out = <<>> /\ first.out \o second.out = second.out
          BY <2>1, <2>4, OneOrNone
        <4>2. both.out = first.out \o second.out
          BY <1>5
        <4> QED
          BY <4>1, <4>2
      <3>2. Len(both.out) = 1 => ~(Len(both.out) > 1)
        OBVIOUS
      <3> QED
        BY <2>1, <2>2, <3>1, <3>2
    <2> QED
      BY <2>3, <2>4
  <1>10. both.out = <<>> => first.out = <<>> /\ second.out = <<>>
    <2>1. \A s, o \in Seq(Request) : s \o o = <<>> => s = <<>> /\ o = <<>>
      BY ConcatFacts
    <2> QED
      BY <1>5, <1>9, <2>1
  <1>11. Len(<<>>) # 1
    OBVIOUS
  <1>12. EntryOK(both.dev) /\ (~before => Calm(both.dev))
    BY <1>5, <1>8 DEF OutcomeOK, CalmOutcome
  <1>13. both.dev.update /\ Len(both.out) = 1 =>
           both.out = <<ReadElement(both.dev.dev, 0)>>
    BY <1>5, <1>7, <1>8, <1>9, <1>11 DEF OutcomeOK
  <1>14. ~before /\ Len(both.out) = 1 => AskedLast(both.dev, both.out[1])
    BY <1>5, <1>7, <1>8, <1>9, <1>11 DEF CalmOutcome
  <1>15. ~before /\ both.out = <<>> /\ net[i] # <<>> =>
           Len(net[i]) = 1 /\ AskedLast(both.dev, net[i][1])
    BY <1>1, <1>5, <1>7, <1>8, <1>10 DEF PlaceOK
  <1>16. ~Sendable(i) => ~before
    BY <1>1
  <1>17. before \in BOOLEAN
    BY <1>1
  <1> HIDE DEF before
  <1>18. /\ u \in Seq(Request) /\ m \in BOOLEAN /\ PlaceOK(both.dev, u, m)
         /\ ~Sendable(i) => u = <<>> /\ ~m
    BY <1>1, <1>9, <1>12, <1>13, <1>14, <1>15, <1>16, <1>17, PlaceOutcome
  <1> HIDE DEF u, m
  <1>19. budget' \in [Events -> Nat]
    <2>1. /\ \A e \in Spends(i, late, discover, expired, due) : budget[e] > 0
          /\ budget' = [e \in Events |->
                          IF e \in Spends(i, late, discover, expired, due)
                          THEN budget[e] - 1 ELSE budget[e]]
      BY DEF Visit
    <2>2. \A e \in Events : budget[e] \in Nat
      BY <1>1 DEF DeviceTypeOK
    <2> HIDE DEF Events
    <2> QED
      BY <2>1, <2>2
  <1>20. /\ UNCHANGED <<settings, pc, pend, undefined>> /\ undefined = "no"
         /\ \A p \in pend : ~p.freed => p.place \in DOMAIN devices
    BY <1>1 DEF Visit, DeviceInv, PendOK, WorkerRuns
  <1> QED
    BY <1>1, <1>4, <1>18, <1>19, <1>20, OnePlaceKeeps

-----------------------------------------------------------------------------
(* The configuration and the commands.                                     *)

LEMMA SettingsKeep ==
  ASSUME DeviceInv,
         \/ \E t \in SubscribeType : SetType(t)
         \/ SetIncrement \/ ClearFlags
  PROVE  DeviceInv'
  <1>1. /\ DeviceTypeOK /\ budget \in [Events -> Nat]
        /\ type \in SubscribeTypes /\ SubscribeType \subseteq SubscribeTypes
    BY DeviceAssumption DEF DeviceInv, DeviceTypeOK
  <1>2. UNCHANGED <<devices, pend, net, mixed, undefined>>
    BY DEF SetType, SetIncrement, ClearFlags
  <1>3. /\ type' \in SubscribeTypes /\ typeChanged' \in BOOLEAN
        /\ covChanged' \in BOOLEAN
        /\ cancelType' \in {"none", "object", "property"}
        /\ pc' \in {"loop", "clear"}
    BY <1>1 DEF SetType, SetIncrement, ClearFlags, DeviceTypeOK, CancelKind,
       SubscribeTypes
  <1>4. budget' \in [Events -> Nat]
    <2>1. CASE \E t \in SubscribeType : SetType(t)
      BY <1>1, <2>1, SpendFacts DEF SetType, Events
    <2>2. CASE SetIncrement
      BY <1>1, <2>2, SpendFacts DEF SetIncrement, Events
    <2>3. CASE ClearFlags
      BY <1>1, <2>3 DEF ClearFlags
    <2> QED
      BY <2>1, <2>2, <2>3
  <1>5. DeviceTypeOK'
    BY <1>1, <1>2, <1>3, <1>4 DEF DeviceTypeOK
  <1>6. PlacesOK' /\ PendOK' /\ UndefinedOnlyIfMixed'
    BY <1>2 DEF DeviceInv, PlacesOK, PendOK, UndefinedOnlyIfMixed
  <1> QED
    BY <1>5, <1>6 DEF DeviceInv

LEMMA ApplyChangeKeeps ==
  ASSUME DeviceInv, ApplyChange
  PROVE  DeviceInv'
  <1>1. /\ WorkerRuns /\ pc' = "clear"
        /\ devices' = [i \in DOMAIN devices |-> Changed(devices[i]).dev]
        /\ net' = [i \in Place |->
                     IF i \in DOMAIN devices
                     THEN UnderWay(i, net[i] \o Changed(devices[i]).out)
                     ELSE net[i]]
        /\ mixed' = [i \in Place |->
                       \/ mixed[i]
                       \/ i \in DOMAIN devices /\ devices[i].state # "read"
                            /\ net[i] # <<>>]
        /\ UNCHANGED <<settings, pend, undefined, budget>>
    BY DEF ApplyChange
  <1>2. /\ DeviceTypeOK /\ Len(devices) \in Nat /\ DOMAIN devices = 1..Len(devices)
        /\ \A i \in DOMAIN devices : devices[i] \in Entry /\ i \in Place
        /\ \A i \in Place : net[i] \in Seq(Request) /\ mixed[i] \in BOOLEAN
    BY TypeFacts DEF DeviceInv
  <1>3. ASSUME NEW i \in DOMAIN devices
        PROVE  LET r == Changed(devices[i])
                   u == UnderWay(i, net[i] \o r.out)
                   m == mixed[i] \/ (devices[i].state # "read" /\ net[i] # <<>>)
               IN /\ r.dev \in Entry /\ u \in Seq(Request) /\ m \in BOOLEAN
                  /\ PlaceOK(r.dev, u, m)
                  /\ ~Sendable(i) => u = <<>> /\ ~m
    <2> DEFINE d == devices[i]
               r == Changed(d)
               u == UnderWay(i, net[i] \o r.out)
               m == mixed[i] \/ (d.state # "read" /\ net[i] # <<>>)
    <2>1. /\ i \in Place /\ net[i] \in Seq(Request) /\ mixed[i] \in BOOLEAN
          /\ PlaceOK(d, net[i], mixed[i])
          /\ ~Sendable(i) => net[i] = <<>> /\ ~mixed[i]
      BY <1>2 DEF DeviceInv, PlacesOK
    <2>2. /\ OutcomeOK(r)
          /\ Calm(d) => CalmOutcome(r)
          /\ d.state = "read" => r = Result(d, <<>>)
      BY <1>2, <2>1, ChangedOutcome DEF PlaceOK
    <2>3. d.state = "read" => r.dev = d /\ r.out = <<>>
      BY <2>2 DEF Result
    <2> HIDE DEF r, d
    <2>4. r.out \in Seq(Request) /\ EntryOK(r.dev) /\ r.dev \in Entry
      BY <2>2 DEF OutcomeOK, EntryOK
    <2>5. /\ net[i] \o r.out \in Seq(Request)
          /\ r.out = <<>> => net[i] \o r.out = net[i]
          /\ net[i] = <<>> => net[i] \o r.out = r.out
      BY <2>1, <2>4, OneOrNone
    <2> DEFINE all == net[i] \o r.out
    <2>6. /\ u \in Seq(Request)
          /\ ~Sendable(i) \/ all = <<>> => u = <<>>
          /\ Sendable(i) /\ Len(all) = 1 => u = all
      BY <2>1, <2>5, UnderWayFacts, Zenon
    <2> HIDE DEF u, all
    <2>7. m \in BOOLEAN
      OBVIOUS
    <2>8. ~Sendable(i) => u = <<>> /\ ~m
      BY <2>1, <2>6
    <2>9. ASSUME ~m
          PROVE  /\ Calm(r.dev)
                 /\ u # <<>> => Len(u) = 1 /\ AskedLast(r.dev, u[1])
      <3>1. /\ ~mixed[i] /\ Calm(d) /\ CalmOutcome(r)
            /\ net[i] # <<>> => Len(net[i]) = 1 /\ AskedLast(d, net[i][1])
        BY <2>1, <2>2, <2>9 DEF PlaceOK
      <3>2. CASE d.state = "read"
        BY <2>3, <2>5, <2>6, <3>1, <3>2 DEF all, CalmOutcome
      <3>3. CASE d.state # "read"
        BY <2>5, <2>6, <2>9, <3>1, <3>3 DEF all, CalmOutcome
      <3> QED
        BY <3>2, <3>3
    <2>10. PlaceOK(r.dev, u, m)
      BY <2>4, <2>9 DEF PlaceOK
    <2> QED
      BY <2>4, <2>6, <2>7, <2>8, <2>10 DEF d, r, u
  <1>4. /\ devices' \in Seq(Entry) /\ Len(devices') = Len(devices)
        /\ DOMAIN devices' = DOMAIN devices
    <2>1. \A i \in 1..Len(devices) : Changed(devices[i]).dev \in Entry
      BY <1>2, <1>3
    <2>2. devices' \in [1..Len(devices) -> Entry]
      BY <1>1, <1>2, <2>1
    <2> QED
      BY <1>2, <2>2, FunctionIsSequence
  <1>5. net' \in [Place -> Seq(Request)] /\ mixed' \in [Place -> BOOLEAN]
    <2>1. \A i \in Place :
            IF i \in DOMAIN devices
            THEN UnderWay(i, net[i] \o Changed(devices[i]).out) \in Seq(Request)
            ELSE net[i] \in Seq(Request)
      BY <1>2, <1>3
    <2> QED
      BY <1>1, <2>1
  <1>6. DeviceTypeOK'
    BY <1>1, <1>2, <1>4, <1>5 DEF DeviceTypeOK, settings
  <1>7. PlacesOK'
    <2>1. ASSUME NEW i \in DOMAIN devices'
          PROVE  PlaceOK(devices'[i], net'[i], mixed'[i])
      BY <1>1, <1>2, <1>3, <1>4
    <2>2. \A i \in Place : ~Sendable(i) => net'[i] = <<>> /\ ~mixed'[i]
      <3> TAKE i \in Place
      <3>1. CASE i \in DOMAIN devices
        BY <1>1, <1>3, <3>1
      <3>2. CASE i \notin DOMAIN devices
        BY <1>1, <3>2 DEF DeviceInv, PlacesOK
      <3> QED
        BY <3>1, <3>2
    <2>3. \A i \in Place \ DOMAIN devices' : net'[i] # <<>> => mixed'[i]
      BY <1>1, <1>4 DEF DeviceInv, PlacesOK
    <2> QED
      BY <2>1, <2>2, <2>3 DEF PlacesOK
  <1> QED
    BY <1>1, <1>4, <1>6, <1>7
    DEF DeviceInv, PendOK, UndefinedOnlyIfMixed, WorkerRuns

LEMMA LookUpKeeps ==
  ASSUME DeviceInv, NEW i \in Place, NEW op \in {"rpm", "wpm"},
         NEW c \in Command, LookUp(i, op, c)
  PROVE  DeviceInv'
  <1> DEFINE p == [place |-> i, op |-> op, what |-> c, freed |-> FALSE]
  <1>1. /\ undefined = "no" /\ i \in DOMAIN devices /\ Spend("command")
        /\ pend' = pend \cup {p}
        /\ UNCHANGED <<devices, settings, pc, net, mixed, undefined>>
    BY DEF LookUp
  <1>2. p \in Pending /\ p.place = i
    BY DEF Pending
  <1> HIDE DEF p
  <1>3. budget' \in [Events -> Nat]
    BY <1>1, SpendFacts DEF Events, DeviceInv
  <1>4. DeviceTypeOK'
    BY <1>1, <1>2, <1>3 DEF DeviceInv, DeviceTypeOK, settings
  <1>5. PendOK'
    BY <1>1, <1>2 DEF DeviceInv, PendOK
  <1> QED
    BY <1>1, <1>4, <1>5 DEF DeviceInv, PlacesOK, UndefinedOnlyIfMixed

LEMMA AddRequestKeeps ==
  ASSUME DeviceInv, NEW p \in pend, AddRequest(p)
  PROVE  DeviceInv'
  <1> DEFINE i == p.place
             d == devices[i]
             r == Properties(d.dev, p.op, p.what)
             e == [d EXCEPT !.queue = Append(d.queue, r)]
  <1>1. /\ undefined = "no" /\ ~p.freed
        /\ devices' = [devices EXCEPT ![i].queue = Append(@, r)]
        /\ pend' = pend \ {p}
        /\ UNCHANGED <<settings, pc, net, mixed, undefined, budget>>
    BY DEF AddRequest
  <1>2. /\ DeviceTypeOK /\ devices \in Seq(Entry) /\ i \in DOMAIN devices
        /\ i \in Place /\ d \in Entry /\ net[i] \in Seq(Request)
        /\ mixed[i] \in BOOLEAN /\ PlaceOK(d, net[i], mixed[i])
        /\ net \in [Place -> Seq(Request)] /\ mixed \in [Place -> BOOLEAN]
        /\ p \in Pending /\ budget \in [Events -> Nat]
    BY <1>1, TypeFacts DEF DeviceInv, DeviceTypeOK, PendOK, PlacesOK
  <1>3. devices' = [devices EXCEPT ![i] = e]
    BY <1>1, <1>2 DEF Entry
  <1>4. r \in Request /\ Requested(d, r)
    <2>1. d.dev \in Device /\ p.op \in {"rpm", "wpm"} /\ p.what \in Command
      BY <1>2, EntryFacts DEF Pending
    <2> QED
      BY <2>1, RequestFacts DEF Properties, Requested
  <1> HIDE DEF i, d, r
  <1> DEFINE q == Append(d.queue, r)
  <1>5. /\ d.queue \in Seq(Request) /\ q \in Seq(Request)
        /\ DOMAIN q = 1..(Len(d.queue) + 1) /\ q[Len(d.queue) + 1] = r
        /\ \A k \in 1..Len(d.queue) : q[k] = d.queue[k]
    BY <1>2, <1>4, EntryFacts, AppendFacts
  <1> HIDE DEF q
  <1>6. \A k \in DOMAIN q : Requested(d, q[k])
    <2>1. DOMAIN d.queue = 1..Len(d.queue) /\ Len(d.queue) \in Nat
      BY <1>5
    <2>2. \A k \in DOMAIN d.queue : Requested(d, d.queue[k])
      BY <1>2 DEF PlaceOK, EntryOK
    <2> TAKE k \in DOMAIN q
    <2>3. k = Len(d.queue) + 1 \/ k \in 1..Len(d.queue)
      BY <1>5, <2>1
    <2> QED
      BY <1>4, <1>5, <2>1, <2>2, <2>3
  <1>7. /\ e \in Entry /\ e.queue = q /\ e.dev = d.dev /\ e.state = d.state
        /\ e.disable = d.disable /\ e.sendNext = d.sendNext
        /\ e.update = d.update /\ e.size = d.size /\ e.next = d.next
        /\ e.objects = d.objects /\ e.handle = d.handle
    <2>1. e = [d EXCEPT !.queue = q]
      BY DEF q
    <2> QED
      BY <1>2, <1>5, <2>1 DEF Entry
  <1> HIDE DEF e
  <1>8. EntryOK(e)
    BY <1>2, <1>6, <1>7 DEF PlaceOK, EntryOK, Requested
  <1>9. Calm(d) => Calm(e)
    BY <1>7 DEF Calm, Complete, Listed
  <1>10. \A x : AskedLast(d, x) => AskedLast(e, x)
    BY <1>7 DEF AskedLast
  <1>11. PlaceOK(e, net[i], mixed[i])
    BY <1>2, <1>8, <1>9, <1>10 DEF PlaceOK
  <1>12. /\ net' = [net EXCEPT ![i] = net[i]]
         /\ mixed' = [mixed EXCEPT ![i] = mixed[i]]
    BY <1>1, <1>2
  <1>13. ~Sendable(i) => net[i] = <<>> /\ ~mixed[i]
    BY <1>2 DEF DeviceInv, PlacesOK
  <1>14. /\ pend' \subseteq Pending /\ budget' \in [Events -> Nat]
         /\ \A x \in pend' : ~x.freed => x.place \in DOMAIN devices
    BY <1>1, <1>2 DEF DeviceInv, DeviceTypeOK, PendOK
  <1>15. i \in DOMAIN devices /\ net[i] \in Seq(Request) /\ mixed[i] \in BOOLEAN
    BY <1>2
  <1>16. UNCHANGED <<settings, pc, undefined>> /\ undefined = "no"
    BY <1>1
  <1> QED
    BY <1>3, <1>11, <1>12, <1>13, <1>14, <1>15, <1>16, OnePlaceKeeps

LEMMA AddRequestToFreedKeeps ==
  ASSUME DeviceInv, NEW p \in pend, AddRequestToFreed(p)
  PROVE  DeviceInv'
  <1>1. /\ undefined' = "freed while looked up" /\ pend' = pend \ {p}
        /\ UNCHANGED <<devices, settings, pc, net, mixed, budget>>
    BY DEF AddRequestToFreed
  <1> QED
    BY <1>1
    DEF DeviceInv, DeviceTypeOK, PlacesOK, PendOK, UndefinedOnlyIfMixed, settings

-----------------------------------------------------------------------------
LEMMA DeviceInitOK == DeviceInit => DeviceInv
  <1> SUFFICES ASSUME DeviceInit PROVE DeviceInv
    OBVIOUS
  <1>1. /\ devices \in Seq(Entry) /\ DOMAIN devices = {} /\ Len(devices) = 0
    BY DEF DeviceInit
  <1>2. 0 <= MaxDevices
    BY DeviceAssumption
  <1>3. budget \in [Events -> Nat]
    BY DeviceAssumption DEF DeviceInit
  <1>4. /\ net \in [Place -> Seq(Request)] /\ mixed \in [Place -> BOOLEAN]
        /\ \A i \in Place : net[i] = <<>> /\ ~mixed[i]
    BY DEF DeviceInit
  <1>5. DeviceTypeOK
    BY <1>1, <1>2, <1>3, <1>4 DEF DeviceTypeOK, DeviceInit, SubscribeTypes
  <1>6. PlacesOK
    BY <1>1, <1>4 DEF PlacesOK
  <1> QED
    BY <1>5, <1>6
    DEF DeviceInv, PendOK, UndefinedOnlyIfMixed, DeviceInit

LEMMA DeviceNextOK == DeviceInv /\ [DeviceNext]_dvars => DeviceInv'
  <1> SUFFICES ASSUME DeviceInv, [DeviceNext]_dvars PROVE DeviceInv'
    OBVIOUS
  <1>1. CASE PublishingStep
    <2>1. ASSUME NEW i \in Place, NEW k \in DOMAIN net[i], RpmAnswer(i, k)
          PROVE  DeviceInv'
      BY <2>1, PropertiesAnswerKeeps
    <2>2. ASSUME NEW d \in Device, FoundWithRoom(d)
          PROVE  DeviceInv'
      BY <2>2, FoundWithRoomKeeps
    <2>3. ASSUME NEW d \in Device, NEW i \in Place, FoundEvicting(d, i)
          PROVE  DeviceInv'
      <3>1. Len(devices) >= MaxDevices
        BY <2>3 DEF FoundEvicting
      <3>2. i \in DOMAIN devices
        BY <3>1, DeviceAssumption, TypeFacts DEF DeviceInv, Place
      <3> QED
        BY <2>3, <3>2, FoundEvictingKeeps
    <2> QED
      BY <1>1, <2>1, <2>2, <2>3 DEF PublishingStep
  <1>2. CASE QuietStep
    <2>1. ASSUME NEW i \in Place, NEW k \in DOMAIN net[i],
                 \/ ReadAnswer(i, k) \/ SubscribeAnswer(i, k) \/ WpmAnswer(i, k)
                 \/ Refusal(i, k) \/ NullAnswer(i, k) \/ StaleAnswer(i, k)
          PROVE  DeviceInv'
      BY <2>1, ReadAnswerKeeps, SubscribeAnswerKeeps, PropertiesAnswerKeeps,
         RefusalKeeps, NullAnswerKeeps, StaleAnswerKeeps
    <2>2. ASSUME NEW i \in DOMAIN devices, NEW late \in BOOLEAN,
                 NEW discover \in BOOLEAN, NEW due \in BOOLEAN,
                 NEW expired \in SUBSET DOMAIN devices[i].objects,
                 Visit(i, late, discover, expired, due)
          PROVE  DeviceInv'
      BY <2>2, VisitKeeps
    <2>3. CASE ApplyChange
      BY <2>3, ApplyChangeKeeps
    <2>4. CASE Reset
      BY <2>4, ResetKeeps
    <2> QED
      BY <1>2, <2>1, <2>2, <2>3, <2>4 DEF QuietStep
  <1>3. CASE ClearStep
    BY <1>3, SettingsKeep DEF ClearStep
  <1>4. CASE NetworkStep
    BY <1>4, LoseKeeps DEF NetworkStep
  <1>5. CASE ArrivalStep
    BY <1>5, SettingsKeep, LookUpKeeps DEF ArrivalStep
  <1>6. CASE QueueingStep
    BY <1>6, AddRequestKeeps, AddRequestToFreedKeeps DEF QueueingStep
  <1>7. CASE UNCHANGED dvars
    <2>1. /\ UNCHANGED <<devices, type, typeChanged, covChanged, cancelType>>
          /\ UNCHANGED <<pc, pend, net, mixed, undefined, budget>>
      BY <1>7 DEF dvars, settings
    <2>2. DeviceTypeOK'
      BY <2>1 DEF DeviceInv, DeviceTypeOK
    <2>3. PlacesOK' /\ PendOK' /\ UndefinedOnlyIfMixed'
      BY <2>1 DEF DeviceInv, PlacesOK, PendOK, UndefinedOnlyIfMixed
    <2> QED
      BY <2>2, <2>3 DEF DeviceInv
  <1> QED
    BY <1>1, <1>2, <1>3, <1>4, <1>5, <1>6, <1>7 DEF DeviceNext, OutsideStep

(* What the invariant says of the properties that the runs check. *)
LEMMA DeviceInvMeans ==
  DeviceInv => /\ DeviceTypeOK /\ NeverStuck /\ AnswersMatch
               /\ ListComplete /\ UndefinedOnlyIfMixed
  <1> SUFFICES ASSUME DeviceInv
               PROVE  /\ DeviceTypeOK /\ NeverStuck /\ AnswersMatch
                      /\ ListComplete /\ UndefinedOnlyIfMixed
    OBVIOUS
  <1>1. \A i \in DOMAIN devices : PlaceOK(devices[i], net[i], mixed[i])
    BY DEF DeviceInv, PlacesOK
  <1>2. NeverStuck
    BY <1>1 DEF NeverStuck, PlaceOK, EntryOK
  <1>3. AnswersMatch
    BY <1>1 DEF AnswersMatch, PlaceOK
  <1>4. ListComplete
    <2> SUFFICES ASSUME NEW i \in DOMAIN devices, ~mixed[i], ~devices[i].update
                 PROVE  LET d == devices[i]
                            n == IF d.state = "read" THEN d.next - 1
                                 ELSE Len(ObjectList[d.dev])
                        IN Listed(d, n)
      BY DEF ListComplete, Listed
    <2> QED
      BY <1>1 DEF PlaceOK, Calm, Complete
  <1> QED
    BY <1>2, <1>3, <1>4 DEF DeviceInv

(* Every state of the devices is in order, whatever is answered, lost,     *)
(* replaced or configured.                                                 *)
THEOREM DeviceInvariant == DeviceSpec => []DeviceInv
  BY DeviceInitOK, DeviceNextOK, PTL DEF DeviceSpec

(* No device gets stuck. *)
THEOREM DevicesNeverStuck == DeviceSpec => []NeverStuck
  BY DeviceInvariant, DeviceInvMeans, PTL

(* At a place where nothing was mixed up the one request under way is what *)
(* the device's state stands for.                                          *)
THEOREM DeviceAnswersMatch == DeviceSpec => []AnswersMatch
  BY DeviceInvariant, DeviceInvMeans, PTL

(* ... and the gateway knows each supported object of the device once.     *)
THEOREM DeviceListComplete == DeviceSpec => []ListComplete
  BY DeviceInvariant, DeviceInvMeans, PTL

(* A null pointer or a freed device is only used after a mix-up.           *)
THEOREM DeviceUndefinedOnlyIfMixed == DeviceSpec => []UndefinedOnlyIfMixed
  BY DeviceInvariant, DeviceInvMeans, PTL
-----------------------------------------------------------------------------
(* What a step does to the queue of the device at a place.                 *)

LEMMA QueueUntouched ==
  ASSUME DeviceInv, NEW i \in DOMAIN devices, devices'[i].queue = devices[i].queue
  PROVE  QueueKept(i)
  <1>1. devices[i].queue \in Seq(Request)
    BY TypeFacts, EntryFacts DEF DeviceInv
  <1> QED
    BY <1>1 DEF QueueKept

(* What is sent is under way, unless there is no room for it.              *)
LEMMA SentIsUnderWay ==
  ASSUME NEW i \in Place, NEW rest \in Seq(Request), NEW out \in Seq(Request),
         NEW k \in DOMAIN out
  PROVE  LET u == UnderWay(i, rest \o out) IN
         \/ \E n \in DOMAIN u : u[n] = out[k]
         \/ ~Sendable(i) \/ Len(u) = MaxInFlight
  <1> DEFINE s == rest \o out
             u == UnderWay(i, s)
  <1>1. /\ s \in Seq(Request) /\ k + Len(rest) \in DOMAIN s
        /\ s[k + Len(rest)] = out[k]
    OBVIOUS
  <1>2. MaxInFlight \in Nat \ {0}
    BY DeviceAssumption
  <1> HIDE DEF s
  <1>3. CASE Sendable(i) /\ Len(s) <= MaxInFlight
    <2>1. u = s
      BY <1>3 DEF UnderWay
    <2> QED
      BY <1>1, <2>1 DEF s
  <1>4. CASE Sendable(i) /\ ~(Len(s) <= MaxInFlight)
    <2>1. u = SubSeq(s, 1, MaxInFlight)
      BY <1>4 DEF UnderWay
    <2>2. Len(s) \in Nat /\ MaxInFlight <= Len(s)
      BY <1>1, <1>2, <1>4
    <2>3. Len(SubSeq(s, 1, MaxInFlight)) = MaxInFlight
      BY <1>1, <1>2, <2>2
    <2> QED
      BY <2>1, <2>3 DEF s
  <1> QED
    BY <1>3, <1>4 DEF s

(* A handler ran for the device at place i.                                *)
LEMMA OutcomeIsKept ==
  ASSUME DeviceInv, NEW i \in DOMAIN devices, NEW rest \in Seq(Request),
         NEW r, r.dev \in Entry, r.out \in Seq(Request),
         QueueOutcome(devices[i], type, r),
         devices' = [devices EXCEPT ![i] = r.dev],
         net' = [net EXCEPT ![i] = UnderWay(i, rest \o r.out)]
  PROVE  \A j \in DOMAIN devices : QueueKept(j)
  <1> DEFINE d == devices[i]
             u == UnderWay(i, rest \o r.out)
  <1>1. /\ i \in Place /\ d.queue \in Seq(Request) /\ r.out \in Seq(Request)
        /\ r.dev.queue \in Seq(Request)
        /\ devices'[i] = r.dev /\ net'[i] = u
        /\ \A j \in DOMAIN devices : j # i => devices'[j] = devices[j]
    BY TypeFacts, EntryFacts DEF DeviceInv, DeviceTypeOK
  <1>2. ASSUME NEW j \in DOMAIN devices, j # i PROVE QueueKept(j)
    BY <1>1, <1>2, QueueUntouched
  <1>3. QueueKept(i)
    <2>1. CASE KeptBut(0, d.queue, r.dev.queue)
      BY <1>1, <2>1 DEF KeptBut, QueueKept
    <2>2. CASE HeadSent(d, type, r)
      <3>1. \/ \E k \in DOMAIN net'[i] : net'[i][k] = Head(d.queue)
            \/ ~Sendable(i) \/ Len(net'[i]) = MaxInFlight
            \/ Head(d.queue).op = "sub" /\ type = "none"
        <4>1. CASE Head(d.queue).op = "sub" /\ type = "none"
          BY <4>1
        <4>2. ASSUME NEW k \in DOMAIN r.out, r.out[k] = Head(d.queue)
              PROVE  \/ \E n \in DOMAIN u : u[n] = Head(d.queue)
                     \/ ~Sendable(i) \/ Len(u) = MaxInFlight
          BY <1>1, <4>2, SentIsUnderWay
        <4> QED
          BY <1>1, <2>2, <4>1, <4>2 DEF HeadSent
      <3> QED
        BY <1>1, <2>2, <3>1 DEF HeadSent, KeptBut, QueueKept
    <2> QED
      BY <2>1, <2>2 DEF QueueOutcome
  <1> QED
    BY <1>2, <1>3

LEMMA HandledQueue ==
  ASSUME DeviceInv, NEW i \in DOMAIN devices, NEW k \in DOMAIN net[i],
         NEW r, OutcomeOK(r), Handled(i, Without(net[i], k), r),
         QueueOutcome(devices[i], type, r)
  PROVE  \A j \in DOMAIN devices : QueueKept(j)
  <1>1. i \in Place /\ net[i] \in Seq(Request)
    BY TypeFacts DEF DeviceInv
  <1>2. Without(net[i], k) \in Seq(Request)
    BY <1>1, WithoutIsSequence
  <1>3. /\ devices' = [devices EXCEPT ![i] = r.dev]
        /\ net' = [net EXCEPT ![i] = UnderWay(i, Without(net[i], k) \o r.out)]
    BY DEF Handled
  <1> QED
    BY <1>2, <1>3, OutcomeIsKept DEF OutcomeOK, EntryOK

(* One answer. *)
LEMMA AnswersKeepQueues ==
  ASSUME DeviceInv, NEW i, NEW k,
         \/ ReadAnswer(i, k) \/ SubscribeAnswer(i, k) \/ RpmAnswer(i, k)
         \/ WpmAnswer(i, k) \/ Refusal(i, k)
  PROVE  \A j \in DOMAIN devices : QueueKept(j)
  <1> DEFINE q == net[i][k]
             d == devices[i]
  <1>1. CASE ReadAnswer(i, k)
    <2> DEFINE r == ListAnswer(d, type, q.to, q.index)
    <2>1. /\ Answered(i, k, {"read"}) /\ Exists(q)
          /\ Handled(i, Without(net[i], k), r)
      BY <1>1 DEF ReadAnswer
    <2>2. /\ i \in DOMAIN devices /\ k \in DOMAIN net[i]
          /\ q \in Request /\ q.op = "read" /\ EntryOK(d) /\ type \in SubscribeTypes
      BY <2>1, AnsweredFacts
    <2>3. /\ q.to \in Device /\ q.index \in Nat
          /\ q.index = 0 \/ q.index \in DOMAIN ObjectList[q.to]
      BY <2>1, <2>2, RequestFacts DEF Exists
    <2>4. /\ OutcomeOK(r)
          /\ \/ QueueOutcome(d, type, r)
             \/ d.update /\ ~r.dev.update /\ r.dev.queue = <<>>
      <3> HIDE DEF d, q
      <3> QED
        BY <2>2, <2>3, ListAnswerOutcome, ListAnswerQueue
    <2> HIDE DEF r
    <2>5. CASE QueueOutcome(d, type, r)
      BY <2>1, <2>2, <2>4, <2>5, HandledQueue
    <2>6. CASE d.update /\ ~r.dev.update /\ r.dev.queue = <<>>
      <3>1. devices' = [devices EXCEPT ![i] = r.dev]
        BY <2>1 DEF Handled
      <3>2. /\ devices'[i] = r.dev
            /\ \A j \in DOMAIN devices : j # i => devices'[j] = devices[j]
        BY <2>2, <3>1
      <3>3. QueueKept(i)
        BY <2>6, <3>2 DEF QueueKept
      <3>4. ASSUME NEW j \in DOMAIN devices, j # i PROVE QueueKept(j)
        BY <3>2, <3>4, QueueUntouched
      <3> QED
        BY <3>3, <3>4
    <2> QED
      BY <2>4, <2>5, <2>6
  <1>2. ASSUME NEW ops, Answered(i, k, ops),
               NEW r, Handled(i, Without(net[i], k), r),
               OutcomeOK(r), QueueOutcome(d, type, r)
        PROVE  \A j \in DOMAIN devices : QueueKept(j)
    BY <1>2, AnsweredFacts, HandledQueue
  <1>3. ASSUME NEW ops, Answered(i, k, ops)
        PROVE  /\ EntryOK(d) /\ d \in Entry /\ type \in SubscribeTypes
    BY <1>3, AnsweredFacts DEF EntryOK
  <1> HIDE DEF d
  <1>4. CASE SubscribeAnswer(i, k)
    <2>1. /\ Answered(i, k, {"sub", "cancel"}) /\ ~NullObject(d)
          /\ Handled(i, Without(net[i], k), SimpleAnswer(d, type))
      BY <1>4 DEF SubscribeAnswer, d
    <2> QED
      BY <1>2, <1>3, <2>1, SimpleAnswerOutcome, SimpleAnswerQueue
  <1>5. CASE RpmAnswer(i, k) \/ WpmAnswer(i, k)
    <2>1. PICK ops : /\ Answered(i, k, ops)
                     /\ Handled(i, Without(net[i], k), PropertiesAnswer(d, type))
      BY <1>5 DEF RpmAnswer, WpmAnswer, d
    <2>2. PropertiesAnswer(d, type) = SendNextRequest([d EXCEPT !.sendNext = TRUE], type)
      BY DEF PropertiesAnswer
    <2>3. /\ OutcomeOK(PropertiesAnswer(d, type))
          /\ QueueOutcome(d, type, PropertiesAnswer(d, type))
      BY <1>3, <2>1, <2>2, SendAgainOutcome, SendAgainQueue
    <2> QED
      BY <1>2, <2>1, <2>3
  <1>6. CASE Refusal(i, k)
    <2>1. PICK ops : /\ Answered(i, k, ops)
                     /\ Handled(i, Without(net[i], k), HandleForUnexpected(d, type))
      BY <1>6 DEF Refusal, d
    <2>2. /\ OutcomeOK(HandleForUnexpected(d, type))
          /\ QueueOutcome(d, type, HandleForUnexpected(d, type))
      BY <1>3, <2>1, UnexpectedOutcome, UnexpectedQueue
    <2> QED
      BY <1>2, <2>1, <2>2
  <1> QED
    BY <1>1, <1>4, <1>5, <1>6

(* One visit. *)
LEMMA VisitKeepsQueues ==
  ASSUME DeviceInv, NEW i \in DOMAIN devices, NEW late \in BOOLEAN,
         NEW discover \in BOOLEAN, NEW expired, NEW due \in BOOLEAN,
         Visit(i, late, discover, expired, due)
  PROVE  \A j \in DOMAIN devices : QueueKept(j)
  <1> DEFINE d == devices[i]
  <1>1. /\ DeviceTypeOK /\ i \in Place /\ EntryOK(d) /\ type \in SubscribeTypes
        /\ net[i] \in Seq(Request) /\ net \in [Place -> Seq(Request)]
    BY TypeFacts DEF DeviceInv, PlacesOK, PlaceOK, DeviceTypeOK
  <1>2. PICK first \in {IF late THEN TimedOut(devices[i], type)
                         ELSE Result(devices[i], <<>>)} :
          \E second \in Second(first.dev, type, discover, expired, due) :
          \E both \in {Result(second.dev, first.out \o second.out)} :
            /\ Len(both.dev.queue) <= MaxQueue
            /\ devices' = [devices EXCEPT ![i] = both.dev]
            /\ net' = [net EXCEPT ![i] = UnderWay(i, @ \o both.out)]
            /\ mixed' = [mixed EXCEPT
                           ![i] = Mixed(i, @ \/ (late /\ net[i] # <<>>),
                                        net[i], both)]
    BY Zenon DEF Visit
  <1>3. PICK second \in Second(first.dev, type, discover, expired, due) :
          \E both \in {Result(second.dev, first.out \o second.out)} :
            /\ devices' = [devices EXCEPT ![i] = both.dev]
            /\ net' = [net EXCEPT ![i] = UnderWay(i, @ \o both.out)]
    BY <1>2
  <1> DEFINE both == Result(second.dev, first.out \o second.out)
  <1>4. /\ devices' = [devices EXCEPT ![i] = both.dev]
        /\ net' = [net EXCEPT ![i] = UnderWay(i, net[i] \o both.out)]
    BY <1>1, <1>3
  <1>5. /\ both.dev = second.dev /\ both.out = first.out \o second.out
    BY DEF Result
  <1>6. first = IF late THEN TimedOut(d, type) ELSE Result(d, <<>>)
    BY <1>2
  <1>7. QueueOutcome(d, type, both)
    <2> HIDE DEF d
    <2> QED
      BY <1>1, <1>3, <1>6, VisitQueue
  <1>8. OutcomeOK(first)
    <2>1. CASE late
      BY <1>1, <1>6, <2>1, TimedOutOutcome
    <2>2. CASE ~late
      BY <1>1, <1>6, <2>2, NothingSent
    <2> QED
      BY <2>1, <2>2
  <1>9. OutcomeOK(second)
    BY <1>1, <1>8, SecondOutcome DEF OutcomeOK
  <1> HIDE DEF both
  <1>10. \A x, y \in Seq(Request) : x \o y \in Seq(Request)
    OBVIOUS
  <1>11. EntryOK(both.dev) /\ both.dev \in Entry /\ both.out \in Seq(Request)
    BY <1>5, <1>8, <1>9, <1>10 DEF OutcomeOK, EntryOK
  <1> QED
    BY <1>1, <1>4, <1>7, <1>11, OutcomeIsKept

(* The other steps that change the table. *)
LEMMA RestKeepsQueues ==
  ASSUME DeviceInv,
         \/ \E d \in Device : FoundWithRoom(d)
         \/ \E d \in Device, i \in Place : FoundEvicting(d, i)
         \/ ApplyChange \/ \E p \in pend : AddRequest(p)
  PROVE  \A j \in DOMAIN devices : QueueKept(j)
  <1>1. /\ DeviceTypeOK /\ devices \in Seq(Entry) /\ DOMAIN devices = 1..Len(devices)
        /\ Len(devices) \in Nat
    BY TypeFacts DEF DeviceInv
  <1>2. ASSUME NEW d \in Device, FoundWithRoom(d)
        PROVE  \A j \in DOMAIN devices : QueueKept(j)
    <2>1. devices' = Append(devices, NewDevice(d).dev)
      BY <1>2 DEF FoundWithRoom
    <2> DEFINE n == NewDevice(d).dev
    <2> HIDE DEF n
    <2>2. ASSUME NEW j \in DOMAIN devices
          PROVE  devices'[j] = devices[j]
      BY <1>1, <2>1 DEF n
    <2> QED
      BY <2>2, QueueUntouched
  <1>3. ASSUME NEW d \in Device, NEW i \in Place, FoundEvicting(d, i)
        PROVE  \A j \in DOMAIN devices : QueueKept(j)
    <2>1. PICK q \in Listings(Subscribed(i)) :
            LET old == devices[i]
                cancels == [n \in DOMAIN q |->
                              Cancellation(old.dev, old.objects[q[n]].id, "object")]
                result == Result(NewDevice(d).dev, cancels \o NewDevice(d).out)
            IN devices' = [devices EXCEPT ![i] = result.dev]
      BY <1>3 DEF FoundEvicting
    <2>2. devices' = [devices EXCEPT ![i] = NewDevice(d).dev]
      BY <2>1 DEF Result
    <2>3. NewDevice(d).dev.dev = d
      BY DEF NewDevice, ReadStructList, Result
    <2>4. ASSUME NEW j \in DOMAIN devices
          PROVE  QueueKept(j)
      <3>1. CASE j = i
        <4>1. devices'[i] = NewDevice(d).dev
          BY <2>2, <2>4, <3>1
        <4>2. devices[i].dev \in Known /\ d \notin Known
          BY <1>3, <2>4, <3>1 DEF Known, FoundEvicting
        <4> QED
          BY <2>3, <3>1, <4>1, <4>2 DEF QueueKept
      <3>2. CASE j # i
        <4>1. devices'[j] = devices[j]
          BY <2>2, <2>4, <3>2
        <4> QED
          BY <2>4, <4>1, QueueUntouched
      <3> QED
        BY <3>1, <3>2
    <2> QED
      BY <2>4
  <1>4. CASE ApplyChange
    <2>1. devices' = [i \in DOMAIN devices |-> Changed(devices[i]).dev]
      BY <1>4 DEF ApplyChange
    <2>2. \A j \in DOMAIN devices : EntryOK(devices[j])
      BY DEF DeviceInv, PlacesOK, PlaceOK
    <2>3. \A j \in DOMAIN devices : devices'[j].queue = devices[j].queue
      BY <1>1, <2>1, <2>2, ChangedOutcome
    <2> QED
      BY <2>3, QueueUntouched
  <1>5. ASSUME NEW p \in pend, AddRequest(p)
        PROVE  \A j \in DOMAIN devices : QueueKept(j)
    <2> DEFINE r == Properties(devices[p.place].dev, p.op, p.what)
    <2>1. /\ devices' = [devices EXCEPT ![p.place].queue = Append(@, r)]
          /\ p.place \in DOMAIN devices
      BY <1>5 DEF AddRequest, DeviceInv, PendOK
    <2>2. devices[p.place] \in Entry /\ devices[p.place].queue \in Seq(Request)
      BY <1>1, <2>1, EntryFacts
    <2>3. r \in Request
      BY <2>2, EntryFacts, RequestFacts DEF DeviceInv, DeviceTypeOK, Pending
    <2> HIDE DEF r
    <2>4. devices'[p.place].queue = Append(devices[p.place].queue, r)
      BY <2>1, <2>2 DEF Entry
    <2>5. QueueKept(p.place)
      BY <2>2, <2>3, <2>4 DEF QueueKept
    <2>6. ASSUME NEW j \in DOMAIN devices, j # p.place PROVE QueueKept(j)
      <3>1. devices'[j] = devices[j]
        BY <2>1, <2>6
      <3> QED
        BY <2>6, <3>1, QueueUntouched
    <2> QED
      BY <2>5, <2>6
  <1> QED
    BY <1>2, <1>3, <1>4, <1>5

LEMMA QueuesStep ==
  DeviceInv /\ [DeviceNext]_dvars =>
    \A i \in DOMAIN devices : devices' = <<>> \/ QueueKept(i)
  <1> SUFFICES ASSUME DeviceInv, [DeviceNext]_dvars
               PROVE  devices' = <<>> \/ \A i \in DOMAIN devices : QueueKept(i)
    OBVIOUS
  <1>1. CASE UNCHANGED devices
    BY <1>1, QueueUntouched
  <1>2. CASE PublishingStep
    BY <1>2, AnswersKeepQueues, RestKeepsQueues DEF PublishingStep
  <1>3. CASE QuietStep
    <2>1. ASSUME NEW i \in Place, NEW k \in DOMAIN net[i],
                 \/ ReadAnswer(i, k) \/ SubscribeAnswer(i, k) \/ WpmAnswer(i, k)
                 \/ Refusal(i, k)
          PROVE  \A j \in DOMAIN devices : QueueKept(j)
      BY <2>1, AnswersKeepQueues
    <2>2. ASSUME NEW i \in Place, NEW k \in DOMAIN net[i],
                 NullAnswer(i, k) \/ StaleAnswer(i, k)
          PROVE  UNCHANGED devices
      BY <2>2 DEF NullAnswer, StaleAnswer
    <2>3. ASSUME NEW i \in DOMAIN devices, NEW late \in BOOLEAN,
                 NEW discover \in BOOLEAN, NEW due \in BOOLEAN,
                 NEW expired \in SUBSET DOMAIN devices[i].objects,
                 Visit(i, late, discover, expired, due)
          PROVE  \A j \in DOMAIN devices : QueueKept(j)
      BY <2>3, VisitKeepsQueues
    <2>4. CASE ApplyChange
      BY <2>4, RestKeepsQueues
    <2>5. Reset => devices' = <<>>
      BY DEF Reset
    <2> QED
      BY <1>1, <1>3, <2>1, <2>2, <2>3, <2>4, <2>5 DEF QuietStep
  <1>4. ClearStep => UNCHANGED devices
    BY DEF ClearStep, ClearFlags
  <1>5. NetworkStep \/ ArrivalStep => UNCHANGED devices
    BY DEF NetworkStep, Lose, ArrivalStep, SetType, SetIncrement, LookUp
  <1>6. CASE QueueingStep
    <2>1. \A p \in pend : AddRequestToFreed(p) => UNCHANGED devices
      BY DEF AddRequestToFreed
    <2> QED
      BY <1>1, <1>6, <2>1, RestKeepsQueues DEF QueueingStep
  <1>7. UNCHANGED dvars => UNCHANGED devices
    BY DEF dvars
  <1> QED
    BY <1>1, <1>2, <1>3, <1>4, <1>5, <1>6, <1>7 DEF DeviceNext, OutsideStep

(* The queue of a device is first in, first out; no request is lost from   *)
(* it but by the reading of a new list, and none is sent twice.            *)
THEOREM DeviceCommandsKept == DeviceSpec => CommandsKept
  <1>1. DeviceInv /\ [DeviceNext]_dvars =>
          [\A i \in DOMAIN devices : devices' = <<>> \/ QueueKept(i)]_dvars
    BY QueuesStep
  <1> QED
    BY <1>1, DeviceInvariant, PTL DEF DeviceSpec, CommandsKept
=============================================================================
