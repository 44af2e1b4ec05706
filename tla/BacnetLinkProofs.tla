-------------------------- MODULE BacnetLinkProofs --------------------------
(***************************************************************************)
(* Proofs about BacnetLink for any size of the cache and any traffic: the  *)
(* ring buffer is a queue that forgets its oldest message, no message is   *)
(* lost unaccounted for, and the cache is in order until a cached message  *)
(* could not be sent.                                                      *)
(***************************************************************************)
EXTENDS BacnetLink, Integers, TLAPS

LinkInv == LinkTypeOK /\ NothingLost /\ CachedInOrder

-----------------------------------------------------------------------------
(* Sequences.                                                              *)

Elements(s) == {s[n] : n \in DOMAIN s}
Distinct(s) == \A m, n \in DOMAIN s : m # n => s[m] # s[n]
Increasing(s) == \A m, n \in DOMAIN s : m < n => s[m] < s[n]

LEMMA AddFacts ==
  ASSUME NEW S, NEW s \in Seq(S), NEW x \in S
  PROVE  /\ Append(s, x) \in Seq(S) /\ Len(Append(s, x)) = Len(s) + 1
         /\ DOMAIN s = 1..Len(s) /\ Len(s) \in Nat
         /\ DOMAIN Append(s, x) = 1..(Len(s) + 1)
         /\ \A k \in 1..Len(s) : Append(s, x)[k] = s[k]
         /\ Append(s, x)[Len(s) + 1] = x
  OBVIOUS

LEMMA RemoveFacts ==
  ASSUME NEW S, NEW s \in Seq(S), s # <<>>
  PROVE  /\ Tail(s) \in Seq(S) /\ Len(Tail(s)) = Len(s) - 1
         /\ DOMAIN s = 1..Len(s) /\ Len(s) \in Nat \ {0}
         /\ DOMAIN Tail(s) = 1..(Len(s) - 1)
         /\ \A k \in 1..(Len(s) - 1) : Tail(s)[k] = s[k + 1]
         /\ Head(s) = s[1]
  OBVIOUS

LEMMA AppendElements ==
  ASSUME NEW S, NEW s \in Seq(S), NEW x \in S
  PROVE  /\ Elements(Append(s, x)) = Elements(s) \cup {x}
         /\ Distinct(s) /\ x \notin Elements(s) => Distinct(Append(s, x))
  <1> DEFINE a == Append(s, x)
             n == Len(s)
  <1>1. /\ DOMAIN s = 1..n /\ n \in Nat /\ DOMAIN a = 1..(n + 1)
        /\ \A k \in 1..n : a[k] = s[k]
        /\ a[n + 1] = x
    BY AddFacts
  <1> HIDE DEF a, n
  <1>2. \A k \in 1..(n + 1) : k \in 1..n \/ k = n + 1
    BY <1>1
  <1>3. \A k \in 1..n : k \in 1..(n + 1) /\ k # n + 1
    BY <1>1
  <1>4. n + 1 \in 1..(n + 1)
    BY <1>1
  <1>5. Elements(a) = Elements(s) \cup {x}
    BY <1>1, <1>2, <1>3, <1>4 DEF Elements
  <1>6. Distinct(s) /\ x \notin Elements(s) => Distinct(a)
    BY <1>1, <1>2, <1>3, <1>4 DEF Elements, Distinct
  <1> QED
    BY <1>5, <1>6 DEF a

LEMMA TailElements ==
  ASSUME NEW S, NEW s \in Seq(S), s # <<>>, Distinct(s)
  PROVE  /\ Elements(Tail(s)) = Elements(s) \ {Head(s)}
         /\ Head(s) \in Elements(s)
         /\ Distinct(Tail(s))
  <1> DEFINE t == Tail(s)
             n == Len(s)
  <1>1. /\ DOMAIN s = 1..n /\ n \in Nat \ {0} /\ DOMAIN t = 1..(n - 1)
        /\ \A k \in 1..(n - 1) : t[k] = s[k + 1]
        /\ Head(s) = s[1]
    BY RemoveFacts
  <1> HIDE DEF t, n
  <1>2. \A k \in 1..(n - 1) : k + 1 \in 1..n /\ k + 1 # 1
    BY <1>1
  <1>3. \A k \in 1..n : k = 1 \/ (k - 1 \in 1..(n - 1) /\ (k - 1) + 1 = k)
    BY <1>1
  <1>4. 1 \in 1..n
    BY <1>1
  <1>5. Elements(t) = Elements(s) \ {Head(s)}
    <2>1. ASSUME NEW y \in Elements(t) PROVE y \in Elements(s) \ {Head(s)}
      <3>1. PICK k \in 1..(n - 1) : y = s[k + 1]
        BY <1>1 DEF Elements
      <3> QED
        BY <1>1, <1>2, <1>4, <3>1 DEF Elements, Distinct
    <2>2. ASSUME NEW y \in Elements(s) \ {Head(s)} PROVE y \in Elements(t)
      <3>1. PICK k \in 1..n : y = s[k]
        BY <1>1 DEF Elements
      <3>2. k # 1
        BY <1>1, <3>1
      <3>3. k - 1 \in 1..(n - 1) /\ t[k - 1] = y
        BY <1>1, <1>3, <3>1, <3>2
      <3> QED
        BY <1>1, <3>3 DEF Elements
    <2> QED
      BY <2>1, <2>2
  <1>6. Distinct(t)
    <2> SUFFICES ASSUME NEW a \in 1..(n - 1), NEW b \in 1..(n - 1), a # b
                 PROVE  t[a] # t[b]
      BY <1>1 DEF Distinct
    <2>1. a + 1 # b + 1
      OBVIOUS
    <2>2. t[a] = s[a + 1] /\ t[b] = s[b + 1]
      BY <1>1
    <2>3. a + 1 \in DOMAIN s /\ b + 1 \in DOMAIN s
      BY <1>1, <1>2
    <2> QED
      BY <2>1, <2>2, <2>3 DEF Distinct
  <1>7. Head(s) \in Elements(s)
    BY <1>1, <1>4 DEF Elements
  <1> QED
    BY <1>5, <1>6, <1>7 DEF t

LEMMA OrderFacts ==
  ASSUME NEW s \in Seq(Nat), Increasing(s)
  PROVE  /\ s # <<>> => Increasing(Tail(s)) /\ Elements(Tail(s)) \subseteq Elements(s)
         /\ \A x \in Nat : (\A y \in Elements(s) : y < x) =>
                             Increasing(Append(s, x))
  <1>1. ASSUME s # <<>> PROVE Increasing(Tail(s)) /\ Elements(Tail(s)) \subseteq Elements(s)
    <2> DEFINE t == Tail(s)
               n == Len(s)
    <2>1. /\ DOMAIN s = 1..n /\ n \in Nat \ {0} /\ DOMAIN t = 1..(n - 1)
          /\ \A k \in 1..(n - 1) : t[k] = s[k + 1]
      BY <1>1, RemoveFacts
    <2> HIDE DEF t, n
    <2>2. \A k \in 1..(n - 1) : k + 1 \in 1..n
      BY <2>1
    <2>3. Elements(t) \subseteq Elements(s)
      BY <2>1, <2>2 DEF Elements
    <2>4. Increasing(t)
      <3> SUFFICES ASSUME NEW a \in 1..(n - 1), NEW b \in 1..(n - 1), a < b
                   PROVE  t[a] < t[b]
        BY <2>1 DEF Increasing
      <3>1. a + 1 < b + 1
        OBVIOUS
      <3> QED
        BY <2>1, <2>2, <3>1 DEF Increasing
    <2> QED
      BY <2>3, <2>4 DEF t
  <1>2. ASSUME NEW x \in Nat, \A y \in Elements(s) : y < x
        PROVE  Increasing(Append(s, x))
    <2> DEFINE a == Append(s, x)
               n == Len(s)
    <2>1. /\ DOMAIN s = 1..n /\ n \in Nat /\ DOMAIN a = 1..(n + 1)
          /\ \A k \in 1..n : a[k] = s[k]
          /\ a[n + 1] = x
      BY AddFacts
    <2> HIDE DEF a, n
    <2> SUFFICES ASSUME NEW i \in 1..(n + 1), NEW j \in 1..(n + 1), i < j
                 PROVE  a[i] < a[j]
      BY <2>1 DEF Increasing, a
    <2>2. i \in 1..n /\ (j \in 1..n \/ j = n + 1)
      BY <2>1
    <2>3. CASE j \in 1..n
      BY <2>1, <2>2, <2>3 DEF Increasing
    <2>4. CASE j = n + 1
      BY <1>2, <2>1, <2>2, <2>4 DEF Elements
    <2> QED
      BY <2>2, <2>3, <2>4
  <1> QED
    BY <1>1, <1>2

-----------------------------------------------------------------------------
(* The ring: At(k) is the index k places after the head.                   *)

RingAt(k) == (head + k) % Size

LEMMA RingAtFacts ==
  ASSUME head \in 0..(Size - 1)
  PROVE  /\ \A k \in 0..Size :
              /\ RingAt(k) \in 0..(Size - 1)
              /\ RingAt(k) = IF head + k < Size THEN head + k ELSE (head + k) - Size
         /\ \A j, k \in 0..Size : j < k /\ k - j < Size => RingAt(j) # RingAt(k)
         /\ RingAt(0) = head /\ RingAt(Size) = head
         /\ \A k \in 0..(Size - 1) : (((head + 1) % Size) + k) % Size = RingAt(k + 1)
  <1>1. Size \in Nat \ {0}
    BY LinkAssumption
  <1>2. \A a \in 0..(Size - 1) : a % Size = a
    BY <1>1
  <1>3. \A a \in Size..(2 * Size - 1) : a % Size = a - Size
    BY <1>1
  <1>4. ASSUME NEW k \in 0..Size
        PROVE  RingAt(k) = IF head + k < Size THEN head + k ELSE (head + k) - Size
    <2>1. CASE head + k < Size
      BY <1>1, <1>2, <2>1 DEF RingAt
    <2>2. CASE ~(head + k < Size)
      <3>1. head + k \in Size..(2 * Size - 1)
        BY <1>1, <2>2
      <3> QED
        BY <1>3, <2>2, <3>1 DEF RingAt
    <2> QED
      BY <2>1, <2>2
  <1>5. \A k \in 0..Size : RingAt(k) \in 0..(Size - 1)
    BY <1>1, <1>4
  <1>6. \A j, k \in 0..Size : j < k /\ k - j < Size => RingAt(j) # RingAt(k)
    BY <1>1, <1>4
  <1>7. RingAt(0) = head /\ RingAt(Size) = head
    BY <1>1, <1>4
  <1>8. ASSUME NEW k \in 0..(Size - 1)
        PROVE  (((head + 1) % Size) + k) % Size = RingAt(k + 1)
    <2>1. k + 1 \in 0..Size
      BY <1>1
    <2>2. RingAt(k + 1) = IF head + (k + 1) < Size THEN head + (k + 1)
                          ELSE (head + (k + 1)) - Size
      BY <1>4, <2>1
    <2>3. CASE head + 1 < Size
      <3>1. (head + 1) % Size = head + 1
        BY <1>1, <1>2, <2>3
      <3>2. CASE head + 1 + k < Size
        <4>1. (head + 1 + k) % Size = head + 1 + k
          BY <1>1, <1>2, <3>2
        <4> QED
          BY <1>1, <2>2, <3>1, <3>2, <4>1
      <3>3. CASE ~(head + 1 + k < Size)
        <4>1. (head + 1 + k) % Size = (head + 1 + k) - Size
          BY <1>1, <1>3, <2>3, <3>3
        <4> QED
          BY <1>1, <2>2, <3>1, <3>3, <4>1
      <3> QED
        BY <3>2, <3>3
    <2>4. CASE ~(head + 1 < Size)
      <3>1. head + 1 = Size
        BY <1>1, <2>4
      <3>2. Size % Size = 0
        <4>1. Size \in Size..(2 * Size - 1)
          BY <1>1
        <4> QED
          BY <1>1, <1>3, <4>1
      <3>3. (0 + k) % Size = k
        BY <1>1, <1>2
      <3>4. RingAt(k + 1) = k
        BY <1>1, <2>2, <3>1
      <3> QED
        BY <3>1, <3>2, <3>3, <3>4
    <2> QED
      BY <2>3, <2>4
  <1> QED
    BY <1>4, <1>5, <1>6, <1>7, <1>8

Slots == 0..(Size - 1)
Content == Message \cup {None}
RingOK == ring \in [Slots -> Content] /\ head \in Slots /\ size \in 0..Size

LEMMA CachedFacts ==
  ASSUME RingOK
  PROVE  /\ Cached \in Seq(Content) /\ Len(Cached) = size
         /\ DOMAIN Cached = 1..size
         /\ \A n \in 1..size : Cached[n] = ring[RingAt(n - 1)]
  <1>1. Size \in Nat /\ size \in Nat
    BY LinkAssumption DEF RingOK
  <1>2. \A n \in 1..size : head + n - 1 = head + (n - 1) /\ n - 1 \in 0..Size
    BY <1>1 DEF RingOK, Slots
  <1>3. \A n \in 1..size : (head + n - 1) % Size = RingAt(n - 1)
    BY <1>2 DEF RingAt
  <1>4. \A n \in 1..size : RingAt(n - 1) \in Slots
    BY <1>2, RingAtFacts DEF RingOK, Slots
  <1>5. Cached = [n \in 1..size |-> ring[RingAt(n - 1)]]
    BY <1>3 DEF Cached
  <1>6. Cached \in [1..size -> Content]
    BY <1>4, <1>5 DEF RingOK
  <1>7. \A f \in [1..size -> Content] :
          f \in Seq(Content) /\ Len(f) = size /\ DOMAIN f = 1..size
    BY <1>1
  <1> QED
    BY <1>5, <1>6, <1>7

(* The ring after a step. *)
LEMMA CachedNext ==
  ASSUME RingOK', NEW s \in Seq(Content), Len(s) = size',
         \A n \in 1..size' : ring'[(head' + n - 1) % Size] = s[n]
  PROVE  Cached' = s
  <1>1. Cached' = [n \in 1..size' |-> ring'[(head' + n - 1) % Size]]
    BY DEF Cached
  <1>2. Cached' = [n \in 1..size' |-> s[n]]
    BY <1>1
  <1>3. DOMAIN s = 1..size'
    OBVIOUS
  <1>4. s = [n \in DOMAIN s |-> s[n]]
    OBVIOUS
  <1> QED
    BY <1>2, <1>3, <1>4

LEMMA PutFacts ==
  ASSUME RingOK, NEW m \in Message, PutBuffData(m)
  PROVE  /\ RingOK'
         /\ size < Size => /\ Cached' = Append(Cached, m)
                           /\ overwritten' = overwritten
         /\ size = Size => /\ Cached # <<>> /\ Cached' = Append(Tail(Cached), m)
                           /\ overwritten' = overwritten \cup {Head(Cached)}
  <1>1. Size \in Nat \ {0} /\ size \in 0..Size /\ head \in 0..(Size - 1)
    BY LinkAssumption DEF RingOK, Slots
  <1>2. /\ \A k \in 0..Size : RingAt(k) \in Slots
        /\ \A j, k \in 0..Size : j < k /\ k - j < Size => RingAt(j) # RingAt(k)
        /\ RingAt(0) = head /\ RingAt(Size) = head
        /\ \A k \in Slots : (((head + 1) % Size) + k) % Size = RingAt(k + 1)
    BY <1>1, RingAtFacts DEF Slots
  <1>3. /\ Cached \in Seq(Content) /\ Len(Cached) = size
        /\ \A n \in 1..size : Cached[n] = ring[RingAt(n - 1)]
    BY CachedFacts
  <1>4. Last = RingAt(size) /\ size \in 0..Size
    BY <1>1 DEF Last, RingAt
  <1>5. m \in Content
    BY DEF Content
  <1>6. ring' = [ring EXCEPT ![RingAt(size)] = m] /\ RingAt(size) \in Slots
    BY <1>2, <1>4 DEF PutBuffData
  <1>7. /\ ring' \in [Slots -> Content] /\ ring'[RingAt(size)] = m
        /\ \A i \in Slots : i # RingAt(size) => ring'[i] = ring[i]
    BY <1>5, <1>6 DEF RingOK
  <1>8. CASE size < Size
    <2>1. head' = head /\ size' = size + 1 /\ overwritten' = overwritten
      BY <1>1, <1>8 DEF PutBuffData, IsFull
    <2>2. RingOK'
      BY <1>1, <1>7, <1>8, <2>1 DEF RingOK
    <2> DEFINE s == Append(Cached, m)
    <2>3. /\ s \in Seq(Content) /\ Len(s) = size + 1 /\ s[size + 1] = m
          /\ \A n \in 1..size : s[n] = Cached[n]
      BY <1>3, <1>5, AddFacts
    <2> HIDE DEF s
    <2>4. \A n \in 1..(size + 1) : ring'[(head + n - 1) % Size] = s[n]
      <3> TAKE n \in 1..(size + 1)
      <3>1. (head + n - 1) % Size = RingAt(n - 1) /\ n - 1 \in 0..size
        <4>1. head + n - 1 = head + (n - 1)
          BY <1>1
        <4> QED
          BY <1>1, <4>1 DEF RingAt
      <3>2. CASE n = size + 1
        <4>1. n - 1 = size
          BY <1>1, <3>2
        <4> QED
          BY <1>7, <2>3, <3>1, <3>2, <4>1
      <3>3. CASE n # size + 1
        <4>1. n \in 1..size /\ n - 1 \in 0..Size /\ size \in 0..Size
              /\ n - 1 < size /\ size - (n - 1) < Size
          BY <1>1, <1>8, <3>3
        <4>2. RingAt(n - 1) # RingAt(size) /\ RingAt(n - 1) \in Slots
          BY <1>2, <4>1
        <4> QED
          BY <1>3, <1>7, <2>3, <3>1, <4>1, <4>2
      <3> QED
        BY <3>2, <3>3
    <2>5. Cached' = s
      BY <2>1, <2>2, <2>3, <2>4, CachedNext
    <2> QED
      BY <1>1, <1>8, <2>1, <2>2, <2>5 DEF s
  <1>9. CASE size = Size
    <2>1. /\ head' = (head + 1) % Size /\ size' = Size
          /\ overwritten' = overwritten \cup {ring[head]}
      BY <1>1, <1>2, <1>4, <1>9 DEF PutBuffData, IsFull
    <2>2. head' \in Slots
      <3>1. \A a \in Nat : a % Size \in 0..(Size - 1)
        BY <1>1
      <3> QED
        BY <1>1, <2>1, <3>1 DEF Slots
    <2>3. RingOK'
      BY <1>1, <1>7, <2>1, <2>2 DEF RingOK
    <2>4. Cached # <<>> /\ Head(Cached) = ring[head]
      <3>1. Cached # <<>>
        BY <1>1, <1>3, <1>9
      <3>2. Head(Cached) = Cached[1] /\ 1 \in 1..size
        BY <1>1, <1>3, <1>9, <3>1, RemoveFacts
      <3>3. 1 - 1 = 0
        OBVIOUS
      <3> QED
        BY <1>2, <1>3, <3>1, <3>2, <3>3
    <2> DEFINE t == Tail(Cached)
               s == Append(t, m)
    <2>5. /\ t \in Seq(Content) /\ Len(t) = Size - 1
          /\ \A n \in 1..(Size - 1) : t[n] = Cached[n + 1]
      BY <1>3, <1>9, <2>4, RemoveFacts
    <2> HIDE DEF t
    <2>6. /\ s \in Seq(Content) /\ Len(s) = Size /\ s[Size] = m
          /\ \A n \in 1..(Size - 1) : s[n] = Cached[n + 1]
      <3>1. /\ s \in Seq(Content) /\ Len(s) = Size - 1 + 1
            /\ s[Size - 1 + 1] = m /\ \A n \in 1..(Size - 1) : s[n] = t[n]
        BY <1>5, <2>5, AddFacts
      <3>2. Size - 1 + 1 = Size
        BY <1>1
      <3> QED
        BY <2>5, <3>1, <3>2
    <2> HIDE DEF s
    <2>7. \A n \in 1..Size : ring'[(head' + n - 1) % Size] = s[n]
      <3> TAKE n \in 1..Size
      <3>1. (head' + n - 1) % Size = RingAt(n) /\ n \in 0..Size
        <4>1. head' + n - 1 = head' + (n - 1) /\ n - 1 \in Slots /\ n - 1 + 1 = n
          BY <1>1, <2>2 DEF Slots
        <4> QED
          BY <1>1, <1>2, <2>1, <4>1
      <3>2. CASE n = Size
        BY <1>7, <1>9, <2>6, <3>1, <3>2
      <3>3. CASE n # Size
        <4>1. n < Size /\ Size - n < Size /\ n \in 1..(Size - 1) /\ n + 1 \in 1..size
              /\ (n + 1) - 1 = n /\ Size \in 0..Size
          BY <1>1, <1>9, <3>3
        <4>2. RingAt(n) # RingAt(size) /\ RingAt(n) \in Slots
          BY <1>2, <1>9, <3>1, <4>1
        <4>3. Cached[n + 1] = ring[RingAt(n)]
          BY <1>3, <4>1
        <4> QED
          BY <1>7, <2>6, <3>1, <4>1, <4>2, <4>3
      <3> QED
        BY <3>2, <3>3
    <2>8. Cached' = s
      BY <2>1, <2>3, <2>6, <2>7, CachedNext
    <2> QED
      BY <1>1, <1>9, <2>1, <2>3, <2>4, <2>8 DEF s, t
  <1> QED
    BY <1>1, <1>8, <1>9

LEMMA HeadFacts ==
  ASSUME RingOK, size > 0
  PROVE  Cached # <<>> /\ Head(Cached) = ring[head]
  <1>1. Size \in Nat \ {0} /\ size \in 0..Size /\ head \in 0..(Size - 1)
    BY LinkAssumption DEF RingOK, Slots
  <1>2. /\ Cached \in Seq(Content) /\ Len(Cached) = size
        /\ \A n \in 1..size : Cached[n] = ring[RingAt(n - 1)]
    BY CachedFacts
  <1>3. RingAt(0) = head
    BY <1>1, RingAtFacts
  <1>4. Cached # <<>>
    BY <1>1, <1>2
  <1>5. Head(Cached) = Cached[1] /\ 1 \in 1..size
    BY <1>1, <1>2, <1>4, RemoveFacts
  <1>6. 1 - 1 = 0
    OBVIOUS
  <1> QED
    BY <1>2, <1>3, <1>4, <1>5, <1>6

LEMMA GetFacts ==
  ASSUME RingOK, size > 0, GetBuffData
  PROVE  /\ RingOK' /\ overwritten' = overwritten
         /\ Cached # <<>> /\ Cached' = Tail(Cached) /\ Head(Cached) = ring[head]
  <1>1. Size \in Nat \ {0} /\ size \in 0..Size /\ head \in 0..(Size - 1)
    BY LinkAssumption DEF RingOK, Slots
  <1>2. \A k \in Slots : (((head + 1) % Size) + k) % Size = RingAt(k + 1)
    BY <1>1, RingAtFacts DEF Slots
  <1>3. /\ Cached \in Seq(Content) /\ Len(Cached) = size
        /\ \A n \in 1..size : Cached[n] = ring[RingAt(n - 1)]
    BY CachedFacts
  <1>4. /\ head' = (head + 1) % Size /\ size' = size - 1 /\ ring' = ring
        /\ overwritten' = overwritten
    BY DEF GetBuffData
  <1>5. head' \in Slots
    <2>1. \A a \in Nat : a % Size \in 0..(Size - 1)
      BY <1>1
    <2> QED
      BY <1>1, <1>4, <2>1 DEF Slots
  <1>6. RingOK'
    BY <1>1, <1>4, <1>5 DEF RingOK
  <1> DEFINE s == Tail(Cached)
  <1>7. /\ s \in Seq(Content) /\ Len(s) = size - 1
        /\ \A n \in 1..(size - 1) : s[n] = Cached[n + 1]
    BY <1>3, HeadFacts, RemoveFacts
  <1> HIDE DEF s
  <1>8. \A n \in 1..(size - 1) : ring'[(head' + n - 1) % Size] = s[n]
    <2> TAKE n \in 1..(size - 1)
    <2>1. /\ head' + n - 1 = head' + (n - 1) /\ n - 1 \in Slots
          /\ n - 1 + 1 = n /\ n + 1 \in 1..size /\ (n + 1) - 1 = n
      BY <1>1, <1>5 DEF Slots
    <2>2. (head' + n - 1) % Size = RingAt(n)
      BY <1>2, <1>4, <2>1
    <2> QED
      BY <1>3, <1>4, <1>7, <2>1, <2>2
  <1>9. Cached' = s
    BY <1>4, <1>6, <1>7, <1>8, CachedNext
  <1> QED
    BY <1>4, <1>6, <1>9, HeadFacts DEF s

LEMMA PutBackFacts ==
  ASSUME RingOK, size > 0, size' = size, head' = (head + 1) % Size,
         ring' = [ring EXCEPT ![(size - 1 + ((head + 1) % Size)) % Size] = ring[head]]
  PROVE  /\ RingOK'
         /\ Cached # <<>> /\ Cached' = Append(Tail(Cached), Head(Cached))
  <1>1. Size \in Nat \ {0} /\ size \in 0..Size /\ head \in 0..(Size - 1)
    BY LinkAssumption DEF RingOK, Slots
  <1>2. /\ \A k \in 0..Size : RingAt(k) \in Slots
        /\ \A j, k \in 0..Size : j < k /\ k - j < Size => RingAt(j) # RingAt(k)
        /\ \A k \in Slots : (((head + 1) % Size) + k) % Size = RingAt(k + 1)
    BY <1>1, RingAtFacts DEF Slots
  <1>3. /\ Cached \in Seq(Content) /\ Len(Cached) = size
        /\ \A n \in 1..size : Cached[n] = ring[RingAt(n - 1)]
    BY CachedFacts
  <1>4. head' \in Slots
    <2>1. \A a \in Nat : a % Size \in 0..(Size - 1)
      BY <1>1
    <2> QED
      BY <1>1, <2>1 DEF Slots
  <1>5. (size - 1 + ((head + 1) % Size)) % Size = RingAt(size)
    <2>1. /\ size - 1 \in Slots /\ size - 1 + 1 = size
          /\ size - 1 + head' = head' + (size - 1)
      BY <1>1, <1>4 DEF Slots
    <2> QED
      BY <1>2, <2>1
  <1>6. ring' = [ring EXCEPT ![RingAt(size)] = ring[head]] /\ RingAt(size) \in Slots
    BY <1>1, <1>2, <1>5
  <1>7. /\ ring' \in [Slots -> Content] /\ ring'[RingAt(size)] = ring[head]
        /\ \A i \in Slots : i # RingAt(size) => ring'[i] = ring[i]
    BY <1>6 DEF RingOK
  <1>8. RingOK'
    BY <1>1, <1>4, <1>7 DEF RingOK
  <1> DEFINE t == Tail(Cached)
             s == Append(t, ring[head])
  <1>9. /\ t \in Seq(Content) /\ Len(t) = size - 1
        /\ \A n \in 1..(size - 1) : t[n] = Cached[n + 1]
    BY <1>3, HeadFacts, RemoveFacts
  <1> HIDE DEF t
  <1>10. /\ s \in Seq(Content) /\ Len(s) = size /\ s[size] = ring[head]
         /\ \A n \in 1..(size - 1) : s[n] = Cached[n + 1]
    <2>1. ring[head] \in Content
      BY DEF RingOK
    <2>2. /\ s \in Seq(Content) /\ Len(s) = size - 1 + 1
          /\ s[size - 1 + 1] = ring[head]
          /\ \A n \in 1..(size - 1) : s[n] = t[n]
      BY <1>9, <2>1, AddFacts
    <2>3. size - 1 + 1 = size
      BY <1>1
    <2> QED
      BY <1>9, <2>2, <2>3
  <1> HIDE DEF s
  <1>11. \A n \in 1..size : ring'[(head' + n - 1) % Size] = s[n]
    <2> TAKE n \in 1..size
    <2>1. (head' + n - 1) % Size = RingAt(n) /\ n \in 0..Size
      <3>1. /\ head' + n - 1 = head' + (n - 1) /\ n - 1 \in Slots
            /\ n - 1 + 1 = n /\ n \in 0..Size
        BY <1>1, <1>4 DEF Slots
      <3> QED
        BY <1>2, <3>1
    <2>2. CASE n = size
      BY <1>7, <1>10, <2>1, <2>2
    <2>3. CASE n # size
      <3>1. /\ n < size /\ size - n < Size /\ n \in 1..(size - 1)
            /\ n + 1 \in 1..size /\ (n + 1) - 1 = n /\ size \in 0..Size
        BY <1>1, <2>3
      <3>2. RingAt(n) # RingAt(size) /\ RingAt(n) \in Slots
        BY <1>2, <2>1, <3>1
      <3>3. Cached[n + 1] = ring[RingAt(n)]
        BY <1>3, <3>1
      <3> QED
        BY <1>7, <1>10, <2>1, <3>1, <3>2, <3>3
    <2> QED
      BY <2>2, <2>3
  <1>12. Cached' = s
    BY <1>8, <1>10, <1>11, CachedNext
  <1> QED
    BY <1>8, <1>12, HeadFacts DEF s, t

-----------------------------------------------------------------------------
(* The messages.                                                           *)

LEMMA InvFacts ==
  ASSUME LinkInv
  PROVE  /\ RingOK /\ Cached \in Seq(Content) /\ delivered \in Seq(Message)
         /\ Len(Cached) = size /\ size \in Nat
         /\ Distinct(Cached) /\ Distinct(delivered)
         /\ 1..count = Elements(delivered) \cup Elements(Cached)
                         \cup overwritten \cup ({current} \ {None})
         /\ Elements(delivered) \cap
              (Elements(Cached) \cup overwritten \cup ({current} \ {None})) = {}
         /\ Elements(Cached) \cap (overwritten \cup ({current} \ {None})) = {}
         /\ overwritten \cap ({current} \ {None}) = {}
         /\ Elements(Cached) \subseteq Message /\ 1..count \subseteq Message
         /\ None \notin Message
         /\ ~putBack => /\ Increasing(Cached)
                        /\ current # None => \A y \in Elements(Cached) : y < current
  <1>1. RingOK /\ delivered \in Seq(Message)
    BY DEF LinkInv, LinkTypeOK, RingOK, Slots, Content
  <1>2. /\ Cached \in Seq(Content) /\ Len(Cached) = size /\ size \in Nat
    BY <1>1, CachedFacts, LinkAssumption DEF RingOK
  <1>3. count \in 0..MaxMessages /\ MaxMessages \in Nat /\ None \notin Nat
    BY LinkAssumption DEF LinkInv, LinkTypeOK
  <1>4. 1..count \subseteq Message /\ None \notin Message
    BY <1>3 DEF Message
  <1>5. /\ Distinct(Cached) /\ Distinct(delivered)
        /\ 1..count = Elements(delivered) \cup Elements(Cached)
                         \cup overwritten \cup ({current} \ {None})
        /\ Elements(delivered) \cap
              (Elements(Cached) \cup overwritten \cup ({current} \ {None})) = {}
        /\ Elements(Cached) \cap (overwritten \cup ({current} \ {None})) = {}
        /\ overwritten \cap ({current} \ {None}) = {}
    BY Zenon DEF LinkInv, NothingLost, Distinct, Elements
  <1>6. ~putBack => /\ Increasing(Cached)
                    /\ current # None => \A y \in Elements(Cached) : y < current
    BY Zenon DEF LinkInv, CachedInOrder, Increasing, Elements
  <1>7. Elements(Cached) \subseteq Message
    BY <1>4, <1>5
  <1> QED
    BY <1>1, <1>2, <1>4, <1>5, <1>6, <1>7

LEMMA InvNext ==
  ASSUME LinkTypeOK', Distinct(Cached'), Distinct(delivered'),
         1..count' = Elements(delivered') \cup Elements(Cached')
                         \cup overwritten' \cup ({current'} \ {None}),
         Elements(delivered') \cap
              (Elements(Cached') \cup overwritten' \cup ({current'} \ {None})) = {},
         Elements(Cached') \cap (overwritten' \cup ({current'} \ {None})) = {},
         overwritten' \cap ({current'} \ {None}) = {},
         ~putBack' => /\ Increasing(Cached')
                      /\ current' # None =>
                           \A y \in Elements(Cached') : y < current'
  PROVE  LinkInv'
  <1>1. NothingLost'
    BY DEF NothingLost, Distinct, Elements
  <1>2. CachedInOrder'
    BY DEF CachedInOrder, Increasing, Elements
  <1> QED
    BY <1>1, <1>2 DEF LinkInv
(* Append and Tail on the contents of the ring. *)
LEMMA PushFacts ==
  ASSUME NEW s \in Seq(Content), NEW x \in Content, NEW q, q = Append(s, x)
  PROVE  /\ Elements(q) = Elements(s) \cup {x}
         /\ Distinct(s) /\ x \notin Elements(s) => Distinct(q)
  <1>1. /\ Elements(Append(s, x)) = Elements(s) \cup {x}
        /\ Distinct(s) /\ x \notin Elements(s) => Distinct(Append(s, x))
    BY AppendElements, Zenon
  <1> QED
    BY <1>1, Zenon

LEMMA PushOrder ==
  ASSUME NEW s \in Seq(Nat), NEW x \in Nat, NEW q, q = Append(s, x),
         Increasing(s), \A y \in Elements(s) : y < x
  PROVE  Increasing(q)
  <1>1. Increasing(Append(s, x))
    BY OrderFacts, Zenon
  <1> QED
    BY <1>1, Zenon


LEMMA CachedNumbers ==
  ASSUME LinkInv
  PROVE  Cached \in Seq(Nat)
  <1>1. Cached \in Seq(Content) /\ Elements(Cached) \subseteq Message
    BY InvFacts
  <1>2. DOMAIN Cached = 1..Len(Cached) /\ \A k \in DOMAIN Cached : Cached[k] \in Message
    BY <1>1 DEF Elements
  <1>3. \A x \in Message : x \in Nat
    BY LinkAssumption DEF Message
  <1>4. \A k \in 1..Len(Cached) : Cached[k] \in Nat
    BY <1>2, <1>3
  <1> QED
    BY <1>1, <1>4

(* A new message is cached. *)
LEMMA PutKeeps ==
  ASSUME LinkInv, NEW m \in Message, PutBuffData(m),
         m \notin Elements(Cached), m \notin overwritten
  PROVE  /\ RingOK' /\ overwritten' \subseteq Message
         /\ Distinct(Cached')
         /\ Elements(Cached') \cup overwritten' =
              Elements(Cached) \cup overwritten \cup {m}
         /\ Elements(Cached') \cap overwritten' = {}
         /\ ~putBack /\ (\A y \in Elements(Cached) : y < m) => Increasing(Cached')
  <1>1. /\ RingOK /\ Cached \in Seq(Content) /\ Distinct(Cached)
        /\ Len(Cached) = size /\ size \in 0..Size /\ Size \in Nat
        /\ Elements(Cached) \subseteq Message
        /\ Elements(Cached) \cap overwritten = {}
        /\ ~putBack => Increasing(Cached)
        /\ overwritten \subseteq Message
    BY InvFacts, LinkAssumption DEF LinkInv, LinkTypeOK
  <1>2. m \in Content /\ m \in Nat
    BY LinkAssumption DEF Content, Message
  <1>3. /\ RingOK'
        /\ size < Size => /\ Cached' = Append(Cached, m)
                          /\ overwritten' = overwritten
        /\ size = Size => /\ Cached # <<>> /\ Cached' = Append(Tail(Cached), m)
                          /\ overwritten' = overwritten \cup {Head(Cached)}
    BY <1>1, PutFacts
  <1>4. Cached \in Seq(Nat)
    BY CachedNumbers
  <1>5. CASE size < Size
    <2>0. Cached' = Append(Cached, m)
      BY <1>3, <1>5
    <2>1. Elements(Cached') = Elements(Cached) \cup {m} /\ Distinct(Cached')
      BY <1>1, <1>2, <2>0, PushFacts
    <2>2. ~putBack /\ (\A y \in Elements(Cached) : y < m) => Increasing(Cached')
      BY <1>1, <1>2, <1>4, <2>0, PushOrder
    <2> QED
      BY <1>1, <1>3, <1>5, <2>1, <2>2
  <1>6. CASE size = Size
    <2> DEFINE t == Tail(Cached)
               h == Head(Cached)
    <2>1. /\ Elements(t) = Elements(Cached) \ {h} /\ h \in Elements(Cached)
          /\ Distinct(t) /\ t \in Seq(Content) /\ t \in Seq(Nat)
      BY <1>1, <1>3, <1>4, <1>6, TailElements, RemoveFacts
    <2>2. ~putBack => Increasing(t)
      BY <1>1, <1>3, <1>4, <1>6, OrderFacts
    <2>3. Cached' = Append(t, m) /\ overwritten' = overwritten \cup {h}
      BY <1>3, <1>6
    <2> HIDE DEF t, h
    <2>4. Elements(Cached') = Elements(t) \cup {m} /\ Distinct(Cached')
      BY <1>2, <2>1, <2>3, PushFacts
    <2>5. ~putBack /\ (\A y \in Elements(Cached) : y < m) => Increasing(Cached')
      BY <1>2, <2>1, <2>2, <2>3, PushOrder
    <2> QED
      BY <1>1, <1>3, <2>1, <2>3, <2>4, <2>5
  <1> QED
    BY <1>1, <1>5, <1>6

LEMMA PublishKeeps ==
  ASSUME LinkInv, Publish
  PROVE  LinkInv'
  <1> DEFINE m == count + 1
  <1>1. /\ LinkTypeOK /\ phase = "loop" /\ current = None
        /\ left' = [left EXCEPT !.messages = @ - 1] /\ left.messages > 0
        /\ count' = m
        /\ UNCHANGED <<session, lost, connected, delivered, putBack, raced>>
    BY DEF Publish, LinkInv, LinkTypeOK
  <1>2. /\ count \in Nat /\ MaxMessages \in Nat /\ left.messages \in Nat
        /\ left.drops \in Nat /\ count + left.messages <= MaxMessages
        /\ left \in [messages : Nat, drops : Nat]
    BY <1>1, LinkAssumption DEF LinkTypeOK
  <1>3. /\ m \in Message /\ m \in 0..MaxMessages /\ m \notin 1..count
        /\ 1..m = (1..count) \cup {m} /\ m # None
        /\ \A y \in 1..count : y < m
    BY <1>1, <1>2, LinkAssumption DEF Message
  <1>4. /\ left' \in [messages : Nat, drops : Nat]
        /\ left'.messages = left.messages - 1
        /\ m + left'.messages <= MaxMessages
    BY <1>1, <1>2
  <1> HIDE DEF m
  <1>5. CASE session
    <2>1. phase' = "sending" /\ current' = m /\ UNCHANGED buffer
      BY <1>5 DEF Publish, m
    <2>2. Cached' = Cached /\ overwritten' = overwritten
      BY <2>1 DEF buffer, Cached
    <2>3. LinkTypeOK'
      BY <1>1, <1>2, <1>3, <1>4, <2>1 DEF LinkTypeOK, buffer
    <2>4. current # m /\ {current'} \ {None} = {m} /\ {current} \ {None} = {}
      BY <1>1, <1>3, <2>1
    <2>5. /\ 1..count' = Elements(delivered') \cup Elements(Cached')
                         \cup overwritten' \cup ({current'} \ {None})
          /\ Elements(delivered') \cap
              (Elements(Cached') \cup overwritten' \cup ({current'} \ {None})) = {}
          /\ Elements(Cached') \cap (overwritten' \cup ({current'} \ {None})) = {}
          /\ overwritten' \cap ({current'} \ {None}) = {}
          /\ Distinct(Cached') /\ Distinct(delivered')
      BY <1>1, <1>3, <2>2, <2>4, InvFacts
    <2>6. ~putBack' => /\ Increasing(Cached')
                       /\ current' # None =>
                           \A y \in Elements(Cached') : y < current'
      BY <1>1, <1>3, <2>1, <2>2, InvFacts
    <2> QED
      BY <2>3, <2>5, <2>6, InvNext
  <1>6. CASE ~session
    <2>1. PutBuffData(m) /\ phase' = phase /\ current' = current
      BY <1>6 DEF Publish, m
    <2>2. /\ m \notin Elements(Cached) /\ m \notin overwritten
          /\ m \notin Elements(delivered)
          /\ \A y \in Elements(Cached) : y < m
      BY <1>3, InvFacts
    <2>3. /\ RingOK' /\ overwritten' \subseteq Message
          /\ Distinct(Cached')
          /\ Elements(Cached') \cup overwritten' =
               Elements(Cached) \cup overwritten \cup {m}
          /\ Elements(Cached') \cap overwritten' = {}
          /\ ~putBack => Increasing(Cached')
      BY <1>3, <2>1, <2>2, PutKeeps
    <2>4. LinkTypeOK'
      BY <1>1, <1>2, <1>3, <1>4, <2>1, <2>3
      DEF LinkTypeOK, RingOK, Slots, Content
    <2>5. {current'} \ {None} = {}
      BY <1>1, <2>1
    <2>6. /\ 1..count' = Elements(delivered') \cup Elements(Cached')
                         \cup overwritten' \cup ({current'} \ {None})
          /\ Elements(delivered') \cap
              (Elements(Cached') \cup overwritten' \cup ({current'} \ {None})) = {}
          /\ Elements(Cached') \cap (overwritten' \cup ({current'} \ {None})) = {}
          /\ overwritten' \cap ({current'} \ {None}) = {}
          /\ Distinct(Cached') /\ Distinct(delivered')
      BY <1>1, <1>3, <2>2, <2>3, <2>5, InvFacts
    <2> QED
      BY <1>1, <2>1, <2>3, <2>4, <2>6, InvNext
  <1> QED
    BY <1>5, <1>6

LEMMA SendNewKeeps ==
  ASSUME LinkInv, SendNew
  PROVE  LinkInv'
  <1>1. /\ LinkTypeOK /\ current \in Message /\ current # None
        /\ delivered' = Append(delivered, current)
        /\ phase' = "draining" /\ current' = None
        /\ UNCHANGED <<session, lost, connected, buffer, count, putBack, raced, left>>
    BY DEF SendNew, LinkInv, LinkTypeOK
  <1>2. Cached' = Cached /\ overwritten' = overwritten
    BY <1>1 DEF buffer, Cached
  <1>3. current \notin Elements(delivered) /\ delivered \in Seq(Message)
    BY <1>1, InvFacts
  <1>4. /\ Elements(delivered') = Elements(delivered) \cup {current}
        /\ Distinct(delivered') /\ delivered' \in Seq(Message)
    BY <1>1, <1>3, InvFacts, AppendElements, AddFacts
  <1>5. LinkTypeOK'
    BY <1>1, <1>4 DEF LinkTypeOK, buffer
  <1>6. {current'} \ {None} = {} /\ {current} \ {None} = {current}
    BY <1>1
  <1>7. /\ 1..count' = Elements(delivered') \cup Elements(Cached')
                         \cup overwritten' \cup ({current'} \ {None})
        /\ Elements(delivered') \cap
             (Elements(Cached') \cup overwritten' \cup ({current'} \ {None})) = {}
        /\ Elements(Cached') \cap (overwritten' \cup ({current'} \ {None})) = {}
        /\ overwritten' \cap ({current'} \ {None}) = {}
        /\ Distinct(Cached')
    BY <1>1, <1>2, <1>4, <1>6, InvFacts
  <1>8. ~putBack' => Increasing(Cached')
    BY <1>1, <1>2, InvFacts
  <1> QED
    BY <1>1, <1>4, <1>5, <1>7, <1>8, InvNext

LEMMA SendNewFailsKeeps ==
  ASSUME LinkInv, SendNewFails
  PROVE  LinkInv'
  <1>1. /\ LinkTypeOK /\ current \in Message /\ current # None
        /\ PutBuffData(current) /\ connected' = FALSE
        /\ phase' = "crashed" /\ current' = None
        /\ UNCHANGED <<session, lost, count, delivered, putBack, raced, left>>
    BY DEF SendNewFails, LinkInv, LinkTypeOK
  <1>2. /\ current \notin Elements(Cached) /\ current \notin overwritten
        /\ ~putBack => \A y \in Elements(Cached) : y < current
    BY <1>1, InvFacts
  <1>3. /\ RingOK' /\ overwritten' \subseteq Message
        /\ Distinct(Cached')
        /\ Elements(Cached') \cup overwritten' =
             Elements(Cached) \cup overwritten \cup {current}
        /\ Elements(Cached') \cap overwritten' = {}
        /\ ~putBack => Increasing(Cached')
    BY <1>1, <1>2, PutKeeps
  <1>4. LinkTypeOK'
    BY <1>1, <1>3 DEF LinkTypeOK, RingOK, Slots, Content
  <1>5. {current'} \ {None} = {} /\ {current} \ {None} = {current}
    BY <1>1
  <1>6. /\ 1..count' = Elements(delivered') \cup Elements(Cached')
                         \cup overwritten' \cup ({current'} \ {None})
        /\ Elements(delivered') \cap
             (Elements(Cached') \cup overwritten' \cup ({current'} \ {None})) = {}
        /\ Elements(Cached') \cap (overwritten' \cup ({current'} \ {None})) = {}
        /\ overwritten' \cap ({current'} \ {None}) = {}
        /\ Distinct(Cached') /\ Distinct(delivered')
    BY <1>1, <1>3, <1>5, InvFacts
  <1> QED
    BY <1>1, <1>3, <1>4, <1>6, InvNext

LEMMA SendCachedKeeps ==
  ASSUME LinkInv, SendCached
  PROVE  LinkInv'
  <1>1. /\ LinkTypeOK /\ GetBuffData /\ size > 0 /\ current = None
        /\ delivered' = Append(delivered, ring[head])
        /\ UNCHANGED <<session, lost, connected, phase, current, count, putBack,
                       raced, left>>
    <2>1. LinkTypeOK /\ size \in 0..Size
      BY DEF LinkInv, LinkTypeOK
    <2>2. size > 0 <=> ~IsEmpty
      BY <2>1, LinkAssumption DEF IsEmpty
    <2> QED
      BY <2>1, <2>2 DEF SendCached, LinkTypeOK
  <1> DEFINE h == Head(Cached)
  <1>2. /\ RingOK' /\ overwritten' = overwritten
        /\ Cached # <<>> /\ Cached' = Tail(Cached) /\ h = ring[head]
    BY <1>1, InvFacts, GetFacts
  <1>3. /\ Elements(Cached') = Elements(Cached) \ {h}
        /\ h \in Elements(Cached) /\ Distinct(Cached')
    BY <1>2, InvFacts, TailElements
  <1> HIDE DEF h
  <1>4. h \notin Elements(delivered) /\ h \in Message
    BY <1>3, InvFacts
  <1>5. /\ Elements(delivered') = Elements(delivered) \cup {h}
        /\ Distinct(delivered') /\ delivered' \in Seq(Message)
    BY <1>1, <1>2, <1>4, InvFacts, AppendElements, AddFacts
  <1>6. LinkTypeOK'
    BY <1>1, <1>2, <1>5 DEF LinkTypeOK, RingOK, Slots, Content
  <1>7. {current'} \ {None} = {} /\ {current} \ {None} = {}
    BY <1>1
  <1>8. /\ 1..count' = Elements(delivered') \cup Elements(Cached')
                         \cup overwritten' \cup ({current'} \ {None})
        /\ Elements(delivered') \cap
             (Elements(Cached') \cup overwritten' \cup ({current'} \ {None})) = {}
        /\ Elements(Cached') \cap (overwritten' \cup ({current'} \ {None})) = {}
        /\ overwritten' \cap ({current'} \ {None}) = {}
    BY <1>1, <1>2, <1>3, <1>5, <1>7, InvFacts
  <1>9. ~putBack' => Increasing(Cached')
    BY <1>1, <1>2, InvFacts, CachedNumbers, OrderFacts
  <1> QED
    BY <1>1, <1>3, <1>5, <1>6, <1>8, <1>9, InvNext

LEMMA SendCachedFailsKeeps ==
  ASSUME LinkInv, SendCachedFails
  PROVE  LinkInv'
  <1>1. /\ LinkTypeOK /\ size > 0 /\ current = None
        /\ size' = size /\ head' = (head + 1) % Size
        /\ ring' = [ring EXCEPT ![(size - 1 + ((head + 1) % Size)) % Size] = ring[head]]
        /\ connected' = FALSE /\ phase' = "loop" /\ putBack' = TRUE
        /\ UNCHANGED <<session, lost, current, overwritten, count, delivered,
                       raced, left>>
    <2>1. LinkTypeOK /\ size \in 0..Size
      BY DEF LinkInv, LinkTypeOK
    <2>2. size > 0 <=> ~IsEmpty
      BY <2>1, LinkAssumption DEF IsEmpty
    <2> QED
      BY <2>1, <2>2 DEF SendCachedFails, LinkTypeOK
  <1> DEFINE h == Head(Cached)
             t == Tail(Cached)
  <1>2. RingOK' /\ Cached # <<>> /\ Cached' = Append(t, h)
    BY <1>1, InvFacts, PutBackFacts
  <1>3. /\ Elements(t) = Elements(Cached) \ {h}
        /\ h \in Elements(Cached) /\ Distinct(t) /\ t \in Seq(Content)
    BY <1>2, InvFacts, TailElements, RemoveFacts
  <1> HIDE DEF h, t
  <1>4. h \in Content
    BY <1>3, InvFacts DEF Content
  <1>5. Elements(Cached') = Elements(Cached) /\ Distinct(Cached')
    <2>1. Elements(Cached') = Elements(t) \cup {h}
      BY <1>2, <1>3, <1>4, PushFacts
    <2>2. Distinct(Cached')
      BY <1>2, <1>3, <1>4, PushFacts
    <2> QED
      BY <1>3, <2>1, <2>2
  <1>6. LinkTypeOK'
    BY <1>1, <1>2 DEF LinkTypeOK, RingOK, Slots, Content
  <1>7. /\ 1..count' = Elements(delivered') \cup Elements(Cached')
                         \cup overwritten' \cup ({current'} \ {None})
        /\ Elements(delivered') \cap
             (Elements(Cached') \cup overwritten' \cup ({current'} \ {None})) = {}
        /\ Elements(Cached') \cap (overwritten' \cup ({current'} \ {None})) = {}
        /\ overwritten' \cap ({current'} \ {None}) = {}
        /\ Distinct(delivered')
    BY <1>1, <1>5, InvFacts
  <1> QED
    BY <1>1, <1>5, <1>6, <1>7, InvNext

(* The other steps touch no message. *)
LEMMA QuietKeeps ==
  ASSUME LinkInv,
         UNCHANGED <<current, buffer, count, delivered, putBack>>,
         session' \in BOOLEAN, lost' \in BOOLEAN, connected' \in BOOLEAN,
         raced' \in BOOLEAN,
         phase' \in {"loop", "down", "subscribing", "sending", "draining", "crashed"},
         phase = "sending" <=> phase' = "sending",
         left' \in [messages : Nat, drops : Nat], left'.messages = left.messages
  PROVE  LinkInv' /\ Cached' = Cached
  <1>1. LinkTypeOK'
    BY DEF LinkInv, LinkTypeOK, buffer
  <1>2. Cached' = Cached
    BY DEF Cached, buffer
  <1>3. NothingLost'
    BY <1>2 DEF LinkInv, NothingLost, buffer
  <1>4. CachedInOrder'
    BY <1>2 DEF LinkInv, CachedInOrder, buffer
  <1> QED
    BY <1>1, <1>2, <1>3, <1>4 DEF LinkInv

Quiet == \/ Connect \/ ConnectFails \/ Subscribed2Topics \/ Drained
         \/ LoseSession \/ ConnectionLost \/ UNCHANGED lvars

LEMMA QuietSteps ==
  ASSUME LinkInv, Quiet
  PROVE  LinkInv' /\ Cached' = Cached
  <1>1. LinkTypeOK
    BY DEF LinkInv
  <1>2. CASE Connect
    BY <1>1, <1>2, QuietKeeps DEF Connect, LinkTypeOK
  <1>3. CASE ConnectFails
    BY <1>1, <1>3, QuietKeeps DEF ConnectFails, LinkTypeOK
  <1>4. CASE Subscribed2Topics
    BY <1>1, <1>4, QuietKeeps DEF Subscribed2Topics, LinkTypeOK
  <1>5. CASE Drained
    BY <1>1, <1>5, QuietKeeps DEF Drained, LinkTypeOK
  <1>6. CASE LoseSession
    <2>1. /\ left' \in [messages : Nat, drops : Nat]
          /\ left'.messages = left.messages
      BY <1>1, <1>6 DEF LoseSession, LinkTypeOK
    <2> QED
      BY <1>1, <1>6, <2>1, QuietKeeps DEF LoseSession, LinkTypeOK
  <1>7. CASE ConnectionLost
    BY <1>1, <1>7, QuietKeeps DEF ConnectionLost, LinkTypeOK
  <1>8. CASE UNCHANGED lvars
    BY <1>1, <1>8, QuietKeeps DEF lvars, LinkTypeOK
  <1> QED
    BY <1>2, <1>3, <1>4, <1>5, <1>6, <1>7, <1>8 DEF Quiet

LEMMA LinkCases ==
  ASSUME [LinkNext]_lvars
  PROVE  \/ Publish \/ SendNew \/ SendNewFails \/ SendCached \/ SendCachedFails
         \/ Quiet
  BY Zenon DEF LinkNext, LinkWorker, LinkOutside, Quiet

LEMMA LinkInitOK ==
  ASSUME LinkInit
  PROVE  LinkInv /\ Cached = <<>>
  <1>1. Size \in Nat \ {0} /\ left.messages \in 0..MaxMessages /\ MaxMessages \in Nat
        /\ left \in [messages : 0..MaxMessages, drops : Nat]
    BY LinkAssumption DEF LinkInit
  <1>2. LinkTypeOK
    <2>1. left \in [messages : Nat, drops : Nat]
      BY <1>1
    <2>2. delivered \in Seq(Message)
      BY DEF LinkInit
    <2>3. ring \in [0..(Size - 1) -> Message \cup {None}]
      BY DEF LinkInit
    <2>4. head \in 0..(Size - 1) /\ size \in 0..Size
      BY <1>1 DEF LinkInit
    <2>5. count \in 0..MaxMessages /\ count + left.messages <= MaxMessages
      BY <1>1 DEF LinkInit
    <2> QED
      BY <2>1, <2>2, <2>3, <2>4, <2>5 DEF LinkInit, LinkTypeOK
  <1>3. RingOK /\ size = 0
    BY <1>2 DEF LinkInit, LinkTypeOK, RingOK, Slots, Content
  <1>4. /\ Cached \in Seq(Content) /\ Len(Cached) = 0
        /\ DOMAIN Cached = {} /\ DOMAIN delivered = {}
    BY <1>3, CachedFacts DEF LinkInit
  <1>5. Cached = <<>>
    BY <1>4
  <1>6. NothingLost
    <2>1. 1..count = {} /\ overwritten = {} /\ current = None
      BY DEF LinkInit
    <2> QED
      BY <1>4, <2>1 DEF NothingLost
  <1>7. CachedInOrder
    BY <1>4 DEF CachedInOrder
  <1> QED
    BY <1>2, <1>5, <1>6, <1>7 DEF LinkInv

LEMMA LinkNextOK == LinkInv /\ [LinkNext]_lvars => LinkInv'
  BY LinkCases, PublishKeeps, SendNewKeeps, SendNewFailsKeeps, SendCachedKeeps,
     SendCachedFailsKeeps, QuietSteps

(* The step of the queue that a step of the gateway is. *)
CacheNext == Cache!Take \/ Cache!PutBack \/ \E m \in Message : Cache!Put(m)

LEMMA PutIsPut ==
  ASSUME LinkInv, NEW m \in Message, PutBuffData(m)
  PROVE  Cache!Put(m)
  <1>1. RingOK /\ Len(Cached) = size /\ size \in 0..Size /\ Size \in Nat
    BY InvFacts, LinkAssumption DEF RingOK
  <1>2. /\ size < Size => Cached' = Append(Cached, m)
        /\ size = Size => Cached' = Append(Tail(Cached), m)
    BY <1>1, PutFacts
  <1>3. CASE size < Size
    BY <1>1, <1>2, <1>3 DEF Cache!Put
  <1>4. CASE size = Size
    BY <1>1, <1>2, <1>4 DEF Cache!Put
  <1> QED
    BY <1>1, <1>3, <1>4

LEMMA CacheSteps == LinkInv /\ [LinkNext]_lvars => [CacheNext]_Cached
  <1> SUFFICES ASSUME LinkInv, [LinkNext]_lvars PROVE CacheNext \/ Cached' = Cached
    OBVIOUS
  <1>1. LinkTypeOK /\ RingOK
    BY InvFacts DEF LinkInv
  <1>2. CASE Publish
    <2>1. CASE session
      BY <1>2, <2>1 DEF Publish, buffer, Cached
    <2>2. CASE ~session
      <3>1. PutBuffData(count + 1)
        BY <1>2, <2>2 DEF Publish
      <3>2. count + 1 \in Message
        BY <1>1, <1>2, LinkAssumption DEF Publish, LinkTypeOK, Message
      <3> QED
        BY <3>1, <3>2, PutIsPut DEF CacheNext
    <2> QED
      BY <2>1, <2>2
  <1>3. CASE SendNew
    BY <1>3 DEF SendNew, buffer, Cached
  <1>4. CASE SendNewFails
    <2>1. PutBuffData(current) /\ current \in Message
      BY <1>1, <1>4 DEF SendNewFails, LinkTypeOK
    <2> QED
      BY <2>1, PutIsPut DEF CacheNext
  <1>5. CASE SendCached
    <2>1. size > 0 /\ GetBuffData
      BY <1>1, <1>5, LinkAssumption DEF SendCached, IsEmpty, LinkTypeOK
    <2>2. Cached # <<>> /\ Cached' = Tail(Cached)
      BY <1>1, <2>1, GetFacts
    <2> QED
      BY <2>2 DEF CacheNext, Cache!Take
  <1>6. CASE SendCachedFails
    <2>1. /\ size > 0 /\ size' = size /\ head' = (head + 1) % Size
          /\ ring' = [ring EXCEPT ![(size - 1 + ((head + 1) % Size)) % Size]
                                    = ring[head]]
      BY <1>1, <1>6, LinkAssumption DEF SendCachedFails, IsEmpty, LinkTypeOK
    <2>2. Cached # <<>> /\ Cached' = Append(Tail(Cached), Head(Cached))
      BY <1>1, <2>1, PutBackFacts
    <2> QED
      BY <2>2 DEF CacheNext, Cache!PutBack
  <1>7. CASE Quiet
    BY <1>7, QuietSteps
  <1> QED
    BY <1>2, <1>3, <1>4, <1>5, <1>6, <1>7, LinkCases

-----------------------------------------------------------------------------
(* The invariant holds in every behaviour.                                 *)
THEOREM LinkInvariant == LinkSpec => []LinkInv
  <1>1. LinkInit => LinkInv
    BY LinkInitOK
  <1> QED
    BY <1>1, LinkNextOK, PTL DEF LinkSpec

(* Every message handed to send_data is in one place and only once: sent,  *)
(* cached, given way in a full cache, or being sent.                       *)
THEOREM LinkNothingLost == LinkSpec => []NothingLost
  <1>1. LinkInv => NothingLost
    BY DEF LinkInv
  <1> QED
    BY <1>1, LinkInvariant, PTL

(* The cache stays in the order of publication until send_data puts a      *)
(* cached message back.                                                    *)
THEOREM LinkCachedInOrder == LinkSpec => []CachedInOrder
  <1>1. LinkInv => CachedInOrder
    BY DEF LinkInv
  <1> QED
    BY <1>1, LinkInvariant, PTL

(* g_data_to_send with its head and size implements the queue that forgets *)
(* its oldest message, wherever the head is.                               *)
THEOREM LinkCacheIsFifo == LinkSpec => CacheIsFifo
  <1>1. LinkInit => LinkInv /\ Cache!Init
    BY LinkInitOK DEF Cache!Init
  <1>2. LinkInv /\ [LinkNext]_lvars =>
          [Cache!Take \/ Cache!PutBack \/ \E m \in Message : Cache!Put(m)]_Cached
    BY CacheSteps DEF CacheNext
  <1> QED
    BY <1>1, <1>2, LinkNextOK, PTL DEF LinkSpec, CacheIsFifo, Cache!Spec
=============================================================================
