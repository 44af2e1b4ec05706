------------------------- MODULE PolicyWorkerProofs -------------------------
(***************************************************************************)
(* Proofs about PolicyWorker for all configurations and intervals: no      *)
(* update and no lost connection goes unnoticed, no policy leaves the list *)
(* and, once each has run, the list is in the order of the next runs.      *)
(***************************************************************************)
EXTENDS PolicyWorker, TLAPS

Entry == [id : PolicyId, due : Int]

(* A function on 1 .. n is a sequence of length n.                         *)
LEMMA FunctionIsSeq ==
  ASSUME NEW n \in Nat, NEW S, NEW f \in [1 .. n -> S]
  PROVE  f \in Seq(S) /\ Len(f) = n /\ DOMAIN f = 1 .. n
  OBVIOUS

(* InsertAt moves what is at k or behind it by one, and keeps the rest.    *)
LEMMA InsertAtFacts ==
  ASSUME NEW l \in Seq(Entry), NEW k \in 1 .. Len(l) + 1, NEW p \in Entry
  PROVE  /\ InsertAt(l, k, p) \in Seq(Entry)
         /\ Len(InsertAt(l, k, p)) = Len(l) + 1
         /\ InsertAt(l, k, p)[k] = p
         /\ \A i \in 1 .. k - 1 : InsertAt(l, k, p)[i] = l[i]
         /\ \A i \in k + 1 .. Len(l) + 1 : InsertAt(l, k, p)[i] = l[i - 1]
  <1> DEFINE m == InsertAt(l, k, p)
  <1>1. \A i \in 1 .. Len(l) + 1 :
          m[i] = IF i < k THEN l[i] ELSE IF i = k THEN p ELSE l[i - 1]
    BY DEF InsertAt
  <1>2. ASSUME NEW i \in 1 .. k - 1
        PROVE  m[i] = l[i]
    BY <1>1
  <1>3. m[k] = p
    BY <1>1
  <1>4. ASSUME NEW i \in k + 1 .. Len(l) + 1
        PROVE  m[i] = l[i - 1]
    BY <1>1
  <1>5. \A i \in 1 .. Len(l) + 1 : m[i] \in Entry
    BY <1>2, <1>3, <1>4
  <1>6. m \in [1 .. Len(l) + 1 -> Entry]
    BY <1>5 DEF InsertAt
  <1> QED
    BY <1>2, <1>3, <1>4, <1>6, FunctionIsSeq

-----------------------------------------------------------------------------
LEMMA PolicyFacts ==
  ASSUME NEW p \in PolicyId
  PROVE  p.config \in Config /\ p \in Policies(p.config) /\ Interval(p) \in Nat
  <1>1. PICK c \in Config : p \in Policies(c)
    BY DEF PolicyId
  <1>2. p.config = c /\ p.index \in DOMAIN Intervals[c] /\ Intervals[c] \in Seq(Nat)
    BY <1>1, PolicyAssumption DEF Policies
  <1> QED
    BY <1>1, <1>2 DEF Interval

(* load_slave_policy_from_cache puts every policy of a configuration into  *)
(* the list, each once.                                                    *)
LEMMA NewListFacts ==
  ASSUME NEW c \in Config
  PROVE  /\ NewList(c) \in Seq(Entry)
         /\ Len(NewList(c)) = Len(Intervals[c])
         /\ {NewList(c)[i].id : i \in DOMAIN NewList(c)} = Policies(c)
         /\ \A i, j \in DOMAIN NewList(c) : NewList(c)[i].id = NewList(c)[j].id => i = j
  <1> DEFINE n == Len(Intervals[c])
             l == NewList(c)
  <1>1. Intervals[c] \in [1 .. n -> Nat] /\ n \in Nat /\ DOMAIN Intervals[c] = 1 .. n
    BY PolicyAssumption
  <1>2. ASSUME NEW i \in 1 .. n
        PROVE  NewPolicy(c, i) \in Entry
    <2>1. [config |-> c, index |-> i] \in PolicyId
      BY <1>1 DEF PolicyId, Policies
    <2> QED
      BY <1>1, <2>1 DEF NewPolicy, Entry
  <1>3. \A i \in 1 .. n : l[i] = NewPolicy(c, n + 1 - i)
    BY DEF NewList
  <1>4. l \in Seq(Entry) /\ Len(l) = n /\ DOMAIN l = 1 .. n
    <2>1. \A i \in 1 .. n : n + 1 - i \in 1 .. n
      BY <1>1
    <2>2. \A i \in 1 .. n : l[i] \in Entry
      BY <1>2, <1>3, <2>1
    <2>3. l \in [1 .. n -> Entry]
      BY <2>2 DEF NewList
    <2> QED
      BY <1>1, <2>3, FunctionIsSeq
  <1>5. \A i \in 1 .. n : l[i].id = [config |-> c, index |-> n + 1 - i]
    <2> SUFFICES ASSUME NEW i \in 1 .. n
                 PROVE  NewPolicy(c, n + 1 - i).id = [config |-> c, index |-> n + 1 - i]
      BY <1>3
    <2> QED
      BY Zenon DEF NewPolicy
  <1>6. {l[i].id : i \in DOMAIN l} = Policies(c)
    <2>1. ASSUME NEW q \in Policies(c)
          PROVE  \E i \in 1 .. n : l[i].id = q
      <3>1. q.index \in 1 .. n /\ q = [config |-> c, index |-> q.index]
        BY <1>1 DEF Policies
      <3> DEFINE k == n + 1 - q.index
      <3>2. k \in 1 .. n /\ n + 1 - k = q.index
        BY <1>1, <3>1
      <3>3. l[k].id = [config |-> c, index |-> n + 1 - k]
        BY <1>5, <3>2
      <3>4. l[k].id = q
        BY <3>1, <3>2, <3>3
      <3> QED
        BY <3>2, <3>4
    <2>2. ASSUME NEW i \in 1 .. n
          PROVE  l[i].id \in Policies(c)
      <3>1. n + 1 - i \in DOMAIN Intervals[c]
        BY <1>1
      <3>2. [config |-> c, index |-> n + 1 - i] \in Policies(c)
        BY <3>1 DEF Policies
      <3> QED
        BY <1>5, <3>2
    <2> DEFINE ids == {l[i].id : i \in 1 .. n}
    <2>3. ids \subseteq Policies(c)
      BY <2>2
    <2>4. Policies(c) \subseteq ids
      BY <2>1
    <2>5. DOMAIN l = 1 .. n
      BY <1>4
    <2>6. ids = Policies(c)
      BY <2>3, <2>4
    <2> QED
      BY <2>5, <2>6
  <1>7. \A i, j \in 1 .. n : l[i].id = l[j].id => i = j
    <2> SUFFICES ASSUME NEW i \in 1 .. n, NEW j \in 1 .. n, l[i].id = l[j].id
                 PROVE  i = j
      OBVIOUS
    <2> HIDE DEF l, n
    <2>1. [config |-> c, index |-> n + 1 - i] = [config |-> c, index |-> n + 1 - j]
      BY <1>5
    <2>2. n + 1 - i = n + 1 - j
      BY <2>1
    <2>3. n \in Nat
      BY <1>1
    <2> QED
      BY <2>2, <2>3
  <1> QED
    BY <1>4, <1>6, <1>7

-----------------------------------------------------------------------------
(* One lemma per action: the inductive invariant is preserved.             *)
LEMMA InitInv == Init => PolicyInv
  <1> SUFFICES ASSUME Init PROVE PolicyInv
    OBVIOUS
  <1> USE PolicyAssumption DEF Init
  <1>1. TypeOK
    <2>1. list \in Seq([id : PolicyId, due : Int])
      OBVIOUS
    <2>2. age \in 0 .. MaxPass /\ restarts \in Nat
      OBVIOUS
    <2> QED
      BY <2>1, <2>2 DEF TypeOK
  <1>2. LoadedIsLatest /\ LossIsNoticed /\ ListIsLoaded
    BY DEF LoadedIsLatest, LossIsNoticed, ListIsLoaded
  <1>3. RanInOrder /\ NoTwins /\ LinkInv /\ WorkerInv
    BY DEF RanInOrder, NoTwins, LinkInv, WorkerInv, InPass
  <1> QED
    BY <1>1, <1>2, <1>3 DEF PolicyInv

(* What no action but Build, Execute, Tick and Restart disturbs.           *)
LEMMA ListUntouched ==
  ASSUME PolicyInv, UNCHANGED <<loaded, list, ran>>
  PROVE  ListIsLoaded' /\ RanInOrder' /\ NoTwins'
  BY DEF PolicyInv, ListIsLoaded, RanInOrder, NoTwins

LEMMA PushStep ==
  ASSUME PolicyInv, (\E c \in Config : PushBegin(c)) \/ PushEnd
  PROVE  PolicyInv'
  <1> USE PolicyAssumption DEF PushBegin, PushEnd, policies, link
  <1>1. ListIsLoaded' /\ RanInOrder' /\ NoTwins'
    BY ListUntouched
  <1>2. TypeOK'
    BY DEF PolicyInv, TypeOK
  <1>3. LoadedIsLatest'
    BY DEF PolicyInv, TypeOK, LoadedIsLatest
  <1>4. LossIsNoticed' /\ LinkInv' /\ WorkerInv'
    BY DEF PolicyInv, LossIsNoticed, LinkInv, WorkerInv, InPass
  <1> QED
    BY <1>1, <1>2, <1>3, <1>4 DEF PolicyInv

LEMMA ReadStep ==
  ASSUME PolicyInv, Read \/ NothingNew
  PROVE  PolicyInv'
  <1> USE PolicyAssumption DEF Read, NothingNew, config, policies, link
  <1>1. ListIsLoaded' /\ RanInOrder' /\ NoTwins'
    BY ListUntouched
  <1>2. TypeOK'
    BY DEF PolicyInv, TypeOK
  <1>3. LoadedIsLatest'
    BY DEF PolicyInv, TypeOK, LoadedIsLatest
  <1>4. LossIsNoticed' /\ LinkInv' /\ WorkerInv'
    BY DEF PolicyInv, LossIsNoticed, LinkInv, WorkerInv, InPass
  <1> QED
    BY <1>1, <1>2, <1>3, <1>4 DEF PolicyInv

LEMMA BuildStep ==
  ASSUME PolicyInv, Build
  PROVE  PolicyInv'
  <1> USE PolicyAssumption DEF Build, link
  <1>a. content \in Config /\ list' = NewList(content) /\ loaded' = content
    BY DEF PolicyInv, WorkerInv
  <1>b. /\ list' \in Seq(Entry)
        /\ Len(list') = Len(Intervals[content])
        /\ {list'[i].id : i \in DOMAIN list'} = Policies(content)
        /\ \A i, j \in DOMAIN list' : list'[i].id = list'[j].id => i = j
    BY <1>a, NewListFacts
  <1>1. ListIsLoaded' /\ NoTwins'
    BY <1>a, <1>b DEF ListIsLoaded, NoTwins
  <1>2. RanInOrder'
    BY DEF RanInOrder
  <1>3. TypeOK'
    BY <1>a, <1>b DEF PolicyInv, TypeOK, Entry
  <1>4. LoadedIsLatest'
    BY DEF PolicyInv, LoadedIsLatest
  <1>5. LossIsNoticed' /\ LinkInv' /\ WorkerInv'
    BY DEF PolicyInv, LossIsNoticed, LinkInv, WorkerInv, InPass
  <1> QED
    BY <1>1, <1>2, <1>3, <1>4, <1>5 DEF PolicyInv

LEMMA LinkStep ==
  ASSUME PolicyInv,
         \/ AlreadyConnected \/ ListenFails \/ ListenConnects \/ ListenDone
         \/ SessionEnds \/ ConnectionLost
  PROVE  PolicyInv'
  <1> USE DEF AlreadyConnected, ListenFails, ListenConnects, ListenDone,
              SessionEnds, ConnectionLost, config, policies, link
  <1>1. ListIsLoaded' /\ RanInOrder' /\ NoTwins'
    BY ListUntouched
  <1>2. TypeOK'
    BY DEF PolicyInv, TypeOK
  <1>3. LoadedIsLatest'
    BY DEF PolicyInv, LoadedIsLatest
  <1>4. LossIsNoticed' /\ LinkInv'
    BY DEF PolicyInv, TypeOK, LossIsNoticed, LinkInv
  <1>5. WorkerInv'
    BY DEF PolicyInv, WorkerInv, InPass
  <1> QED
    BY <1>1, <1>2, <1>3, <1>4, <1>5 DEF PolicyInv

LEMMA PassStep ==
  ASSUME PolicyInv, Queried \/ PassEnds \/ Wake
  PROVE  PolicyInv'
  <1> USE PolicyAssumption DEF Queried, PassEnds, Wake, config, policies, link
  <1>1. ListIsLoaded' /\ RanInOrder' /\ NoTwins'
    BY ListUntouched
  <1>2. TypeOK'
    <2>1. age' \in 0 .. MaxPass
      BY DEF PolicyInv, TypeOK
    <2> QED
      BY <2>1 DEF PolicyInv, TypeOK
  <1>3. LoadedIsLatest'
    BY DEF PolicyInv, LoadedIsLatest
  <1>4. LossIsNoticed' /\ LinkInv' /\ WorkerInv'
    BY DEF PolicyInv, LossIsNoticed, LinkInv, WorkerInv, InPass
  <1> QED
    BY <1>1, <1>2, <1>3, <1>4 DEF PolicyInv

(* The policy at the head of the list is put back at place k: what was at  *)
(* from[i] is at i afterwards.                                             *)
LEMMA ExecuteStep ==
  ASSUME PolicyInv, Execute
  PROVE  PolicyInv'
  <1> USE PolicyAssumption DEF config, link
  <1> DEFINE h == Head(list)
             rest == Tail(list)
             n == Len(list)
             e == [id |-> h.id, due |-> Interval(h.id)]
  <1>a. list \in Seq(Entry) /\ list # << >> /\ DOMAIN list = 1 .. n /\ n \in Nat \ {0}
    BY DEF PolicyInv, TypeOK, Entry, Execute, HeadIsDue
  <1>b. h = list[1] /\ h \in Entry /\ h.id \in PolicyId /\ e \in Entry
    <2>1. h = list[1] /\ h \in Entry
      BY <1>a
    <2>2. h.id \in PolicyId
      BY <2>1 DEF Entry
    <2> QED
      BY <2>1, <2>2, PolicyFacts DEF Entry
  <1>c. /\ rest \in Seq(Entry) /\ Len(rest) = n - 1
        /\ \A i \in 1 .. n - 1 : rest[i] = list[i + 1]
    BY <1>a
  <1>d. PICK k \in Position(rest, Interval(h.id)) : list' = InsertAt(rest, k, e)
    BY DEF Execute
  <1>e. /\ k \in 1 .. n
        /\ \A i \in 1 .. k - 1 : rest[i].due < e.due
        /\ k <= n - 1 => rest[k].due >= e.due
    BY <1>c, <1>d DEF Position
  <1>f. /\ list' \in Seq(Entry) /\ Len(list') = n /\ DOMAIN list' = 1 .. n
        /\ list'[k] = e
        /\ \A i \in 1 .. k - 1 : list'[i] = list[i + 1]
        /\ \A i \in k + 1 .. n : list'[i] = list[i]
    <2>1. k \in 1 .. Len(rest) + 1
      BY <1>a, <1>c, <1>e
    <2>2. /\ list' \in Seq(Entry) /\ Len(list') = Len(rest) + 1
          /\ list'[k] = e
          /\ \A i \in 1 .. k - 1 : list'[i] = rest[i]
          /\ \A i \in k + 1 .. Len(rest) + 1 : list'[i] = rest[i - 1]
      <3>1. rest \in Seq(Entry) /\ e \in Entry /\ list' = InsertAt(rest, k, e)
        BY <1>b, <1>c, <1>d
      <3> HIDE DEF rest, e, h, n
      <3>2. /\ InsertAt(rest, k, e) \in Seq(Entry)
            /\ Len(InsertAt(rest, k, e)) = Len(rest) + 1
            /\ InsertAt(rest, k, e)[k] = e
            /\ \A i \in 1 .. k - 1 : InsertAt(rest, k, e)[i] = rest[i]
            /\ \A i \in k + 1 .. Len(rest) + 1 : InsertAt(rest, k, e)[i] = rest[i - 1]
        BY <2>1, <3>1, InsertAtFacts, SMTT(40)
      <3> QED
        BY <3>1, <3>2
    <2>3. Len(list') = n /\ DOMAIN list' = 1 .. n
      BY <1>a, <1>c, <2>2
    <2>4. \A i \in 1 .. k - 1 : list'[i] = list[i + 1]
      BY <1>a, <1>c, <1>e, <2>2
    <2>5. ASSUME NEW i \in k + 1 .. n
          PROVE  list'[i] = list[i]
      <3>1. i - 1 \in 1 .. n - 1 /\ i \in k + 1 .. Len(rest) + 1
        BY <1>a, <1>c, <1>e
      <3> QED
        BY <1>c, <2>2, <3>1
    <2> QED
      BY <2>2, <2>3, <2>4, <2>5
  <1> DEFINE from == [i \in 1 .. n |-> IF i < k THEN i + 1 ELSE IF i = k THEN 1 ELSE i]
  <1>h. /\ \A i \in 1 .. k - 1 : from[i] = i + 1
        /\ from[k] = 1
        /\ \A i \in k + 1 .. n : from[i] = i
    BY <1>a, <1>e
  <1>g. /\ \A i \in 1 .. n : from[i] \in 1 .. n /\ list'[i].id = list[from[i]].id
        /\ \A i, j \in 1 .. n : from[i] = from[j] => i = j
        /\ \A i \in 1 .. n : \E j \in 1 .. n : from[j] = i
    <2>1. ASSUME NEW i \in 1 .. n
          PROVE  from[i] \in 1 .. n /\ list'[i].id = list[from[i]].id
      <3> HIDE DEF from
      <3>1. CASE i < k
        <4>1. i \in 1 .. k - 1 /\ i + 1 \in 1 .. n
          BY <1>a, <1>e, <3>1
        <4> QED
          BY <1>f, <1>h, <4>1
      <3>2. CASE i = k
        <4>1. e.id = h.id /\ 1 \in 1 .. n
          BY <1>a
        <4> QED
          BY <1>b, <1>f, <1>h, <3>2, <4>1
      <3>3. CASE i > k
        <4>1. i \in k + 1 .. n
          BY <1>a, <1>e, <3>3
        <4> QED
          BY <1>f, <1>h, <4>1
      <3> QED
        BY <1>a, <1>e, <3>1, <3>2, <3>3
    <2>2. \A i, j \in 1 .. n : from[i] = from[j] => i = j
      BY <1>a, <1>e
    <2>3. ASSUME NEW i \in 1 .. n
          PROVE  \E j \in 1 .. n : from[j] = i
      <3> DEFINE j == IF i = 1 THEN k ELSE IF i <= k THEN i - 1 ELSE i
      <3>1. j \in 1 .. n /\ from[j] = i
        BY <1>a, <1>e
      <3> QED
        BY <3>1
    <2> QED
      BY <2>1, <2>2, <2>3
  <1>1. ListIsLoaded' /\ NoTwins'
    <2>1. {list'[i].id : i \in DOMAIN list'} = {list[i].id : i \in DOMAIN list}
      <3> HIDE DEF from, n
      <3> DEFINE new == {list'[i].id : i \in 1 .. n}
                 old == {list[i].id : i \in 1 .. n}
      <3>1. ASSUME NEW i \in 1 .. n
            PROVE  list'[i].id \in old
        <4>1. from[i] \in 1 .. n /\ list'[i].id = list[from[i]].id
          BY <1>g
        <4> QED
          BY <4>1
      <3>2. ASSUME NEW i \in 1 .. n
            PROVE  list[i].id \in new
        <4>1. PICK j \in 1 .. n : from[j] = i
          BY <1>g
        <4>2. list'[j].id = list[i].id
          BY <1>g, <4>1
        <4> QED
          BY <4>2
      <3>0. new \subseteq old
        BY <3>1
      <3>3. old \subseteq new
        BY <3>2
      <3> QED
        BY <1>a, <1>f, <3>0, <3>3
    <2>2. ListIsLoaded'
      BY <1>a, <1>f, <2>1 DEF PolicyInv, ListIsLoaded, Execute
    <2>3. NoTwins'
      <3> SUFFICES ASSUME NEW i \in 1 .. n, NEW j \in 1 .. n, list'[i].id = list'[j].id
                   PROVE  i = j
        BY <1>f DEF NoTwins
      <3> HIDE DEF from, n
      <3>0. \A l, m \in 1 .. n : list[l].id = list[m].id => l = m
        BY <1>a DEF PolicyInv, NoTwins
      <3>a. from[i] \in 1 .. n /\ from[j] \in 1 .. n /\ list[from[i]].id = list[from[j]].id
        BY <1>g
      <3>1. from[i] = from[j]
        BY <3>0, <3>a
      <3> QED
        BY <1>g, <3>1
    <2> QED
      BY <2>2, <2>3
  <1>2. RanInOrder'
    <2> SUFFICES ASSUME NEW i \in 1 .. n, NEW j \in 1 .. n, i < j, list'[j].id \in ran'
                 PROVE  list'[i].due <= list'[j].due
      BY <1>f DEF RanInOrder
    <2>0. ran' = ran \cup {h.id}
      BY DEF Execute
    <2>1. ASSUME NEW m \in 2 .. n, list[m].id \in ran'
          PROVE  list[m].id \in ran
      <3>1. list[m].id # h.id
        BY <1>a, <1>b DEF PolicyInv, NoTwins
      <3> QED
        BY <2>0, <2>1, <3>1
    <2>2. \A l, m \in 1 .. n : l < m /\ list[m].id \in ran => list[l].due <= list[m].due
      BY <1>a DEF PolicyInv, RanInOrder
    <2>d. ASSUME NEW m \in 1 .. n
          PROVE  list[m].due \in Int
      <3>1. list[m] \in Entry
        BY <1>a
      <3> QED
        BY <3>1 DEF Entry
    <2>e. e.due \in Int
      BY <1>b DEF Entry
    <2>3. CASE j = k
      <3>1. i \in 1 .. k - 1 /\ i \in 1 .. n - 1
        BY <1>a, <1>e, <2>3
      <3>2. list'[i] = list[i + 1] /\ rest[i] = list[i + 1] /\ rest[i].due < e.due
        BY <1>c, <1>e, <1>f, <3>1
      <3>3. i + 1 \in 1 .. n
        BY <1>a, <3>1
      <3> QED
        BY <1>f, <2>3, <2>d, <2>e, <3>2, <3>3
    <2>4. CASE i = k
      <3>1. j \in k + 1 .. n /\ j \in 2 .. n /\ k \in 1 .. n - 1 /\ k + 1 \in 1 .. n
        BY <1>a, <1>e, <2>4
      <3>2. list'[i] = e /\ list'[j] = list[j] /\ list[j].id \in ran
        BY <1>f, <2>1, <2>4, <3>1
      <3>3. e.due <= list[k + 1].due
        BY <1>a, <1>c, <1>e, <2>d, <2>e, <3>1
      <3>4. list[k + 1].due <= list[j].due
        BY <2>2, <2>d, <3>1, <3>2
      <3> QED
        BY <2>d, <2>e, <3>1, <3>2, <3>3, <3>4
    <2>5. CASE i # k /\ j # k
      <3>1. CASE j < k
        <4>1. i \in 1 .. k - 1 /\ j \in 1 .. k - 1 /\ j + 1 \in 2 .. n /\ i + 1 \in 1 .. n /\ i + 1 < j + 1
          BY <1>a, <1>e, <3>1
        <4> QED
          BY <1>f, <2>1, <2>2, <4>1
      <3>2. CASE j > k
        <4>1. j \in k + 1 .. n /\ j \in 2 .. n
          BY <1>a, <1>e, <3>2
        <4>2. list'[j] = list[j] /\ list[j].id \in ran
          BY <1>f, <2>1, <4>1
        <4>3. PICK m \in 1 .. n : m < j /\ list'[i] = list[m]
          <5>1. CASE i < k
            <6>1. i \in 1 .. k - 1 /\ i + 1 \in 1 .. n /\ i + 1 < j
              BY <1>a, <1>e, <3>2, <5>1
            <6> QED
              BY <1>f, <6>1
          <5>2. CASE i > k
            <6>1. i \in k + 1 .. n
              BY <1>a, <1>e, <5>2
            <6> QED
              BY <1>f, <6>1
          <5> QED
            BY <1>e, <2>5, <5>1, <5>2
        <4> QED
          BY <2>2, <4>2, <4>3
      <3> QED
        BY <1>e, <2>5, <3>1, <3>2
    <2> QED
      BY <2>3, <2>4, <2>5
  <1>3. TypeOK'
    BY <1>b, <1>f DEF PolicyInv, TypeOK, Entry, Execute
  <1>4. LoadedIsLatest'
    BY DEF PolicyInv, LoadedIsLatest, Execute
  <1>5. LossIsNoticed' /\ LinkInv' /\ WorkerInv'
    BY DEF PolicyInv, LossIsNoticed, LinkInv, WorkerInv, InPass, Execute
  <1> QED
    BY <1>1, <1>2, <1>3, <1>4, <1>5 DEF PolicyInv

LEMMA TickStep ==
  ASSUME PolicyInv, Tick
  PROVE  PolicyInv'
  <1> USE PolicyAssumption DEF Tick, config, link
  <1>a. list \in Seq(Entry) /\ Len(list) \in Nat /\ DOMAIN list = 1 .. Len(list)
    BY DEF PolicyInv, TypeOK, Entry
  <1>b. ASSUME NEW e \in Entry
        PROVE  Sooner(e) \in Entry /\ Sooner(e).id = e.id
    BY <1>b DEF Entry, Sooner, Earliest
  <1>c. ASSUME NEW e \in Entry, NEW g \in Entry, e.due <= g.due
        PROVE  Sooner(e).due <= Sooner(g).due
    BY <1>c DEF Entry, Sooner, Earliest
  <1>d. /\ list' \in Seq(Entry) /\ Len(list') = Len(list) /\ DOMAIN list' = DOMAIN list
        /\ \A i \in DOMAIN list : list'[i] = Sooner(list[i]) /\ list[i] \in Entry
    <2>1. \A i \in 1 .. Len(list) : list[i] \in Entry
      BY <1>a
    <2>2. list' \in [1 .. Len(list) -> Entry]
      BY <1>a, <1>b, <2>1
    <2> QED
      BY <1>a, <2>1, <2>2, FunctionIsSeq
  <1>1. ListIsLoaded'
    <2>1. {list'[i].id : i \in DOMAIN list'} = {list[i].id : i \in DOMAIN list}
      BY <1>b, <1>d
    <2> QED
      BY <1>a, <1>d, <2>1 DEF PolicyInv, ListIsLoaded
  <1>2. RanInOrder' /\ NoTwins'
    BY <1>b, <1>c, <1>d DEF PolicyInv, RanInOrder, NoTwins
  <1>3. TypeOK'
    BY <1>d DEF PolicyInv, TypeOK, Entry, InPass
  <1>4. LoadedIsLatest'
    BY DEF PolicyInv, LoadedIsLatest
  <1>5. LossIsNoticed' /\ LinkInv' /\ WorkerInv'
    BY DEF PolicyInv, LossIsNoticed, LinkInv, WorkerInv, InPass
  <1> QED
    BY <1>1, <1>2, <1>3, <1>4, <1>5 DEF PolicyInv

LEMMA RestartStep ==
  ASSUME PolicyInv, Restart
  PROVE  PolicyInv'
  <1> USE PolicyAssumption DEF Restart
  <1>1. TypeOK'
    <2>1. list' \in Seq([id : PolicyId, due : Int])
      OBVIOUS
    <2>2. age' \in 0 .. MaxPass /\ restarts' \in Nat
      BY DEF PolicyInv, TypeOK
    <2> QED
      BY <2>1, <2>2 DEF PolicyInv, TypeOK
  <1>2. LoadedIsLatest' /\ LossIsNoticed' /\ ListIsLoaded'
    BY DEF LoadedIsLatest, LossIsNoticed, ListIsLoaded
  <1>3. RanInOrder' /\ NoTwins' /\ LinkInv' /\ WorkerInv'
    BY DEF RanInOrder, NoTwins, LinkInv, WorkerInv, InPass
  <1> QED
    BY <1>1, <1>2, <1>3 DEF PolicyInv

LEMMA NextInv == PolicyInv /\ [Next]_vars => PolicyInv'
  <1> SUFFICES ASSUME PolicyInv, [Next]_vars PROVE PolicyInv'
    OBVIOUS
  <1>1. CASE (\E c \in Config : PushBegin(c)) \/ PushEnd
    BY <1>1, PushStep
  <1>2. CASE Worker
    BY <1>2, ReadStep, BuildStep, LinkStep, ExecuteStep, PassStep DEF Worker
  <1>3. CASE SessionEnds \/ ConnectionLost
    BY <1>3, LinkStep
  <1>4. CASE Tick
    BY <1>4, TickStep
  <1>5. CASE Restart
    BY <1>5, RestartStep
  <1>6. CASE UNCHANGED vars
    <2> USE <1>6 DEF vars, config, policies, link
    <2>1. ListIsLoaded' /\ RanInOrder' /\ NoTwins'
      BY ListUntouched
    <2>2. TypeOK' /\ LoadedIsLatest' /\ LossIsNoticed' /\ LinkInv' /\ WorkerInv'
      BY DEF PolicyInv, TypeOK, LoadedIsLatest, LossIsNoticed, LinkInv, WorkerInv, InPass
    <2> QED
      BY <2>1, <2>2 DEF PolicyInv
  <1> QED
    BY <1>1, <1>2, <1>3, <1>4, <1>5, <1>6 DEF Next

-----------------------------------------------------------------------------
(* The inductive invariant holds of every behaviour.                       *)
THEOREM PolicyInvHolds == Spec => []PolicyInv
  BY InitInv, NextInv, PTL DEF Spec

(* With the flag down and no push under way, the worker polls what the     *)
(* cache file says, or is about to: handle_config_msg and                  *)
(* load_slave_policy_from_cache lose no update between them.               *)
THEOREM NoUpdateIsLost == Spec => []LoadedIsLatest
  <1>1. PolicyInv => LoadedIsLatest
    BY DEF PolicyInv
  <1> QED
    BY PolicyInvHolds, <1>1, PTL

(* start_listen_command and connection_lost never leave the flag raised    *)
(* without a session, or a callback still to come, behind it.              *)
THEOREM NoLossIsMissed == Spec => []LossIsNoticed
  <1>1. PolicyInv => LossIsNoticed
    BY DEF PolicyInv
  <1> QED
    BY PolicyInvHolds, <1>1, PTL

(* The list holds the policies of the loaded configuration, each once.     *)
THEOREM NoPolicyIsLost == Spec => []ListIsLoaded
  <1>1. PolicyInv => ListIsLoaded
    BY DEF PolicyInv
  <1> QED
    BY PolicyInvHolds, <1>1, PTL

(* Once every policy was executed, the list is in the order of the next    *)
(* runs for as long as it is not replaced.                                 *)
THEOREM OneRoundOrdersTheList == Spec => []OrderedAfterFirstRound
  <1>1. PolicyInv => OrderedAfterFirstRound
    <2> SUFFICES ASSUME PolicyInv, loaded # None, ran = Policies(loaded),
                        NEW i \in DOMAIN list, NEW j \in DOMAIN list, i < j
                 PROVE  list[i].due <= list[j].due
      BY DEF OrderedAfterFirstRound, Ordered
    <2>1. list[j].id \in ran
      BY DEF PolicyInv, ListIsLoaded
    <2> QED
      BY <2>1 DEF PolicyInv, RanInOrder
  <1> QED
    BY PolicyInvHolds, <1>1, PTL

(* Every variable of the polling worker keeps its type.                    *)
THEOREM PolicyTypesHold == Spec => []TypeOK
  <1>1. PolicyInv => TypeOK
    BY DEF PolicyInv
  <1> QED
    BY PolicyInvHolds, <1>1, PTL
=============================================================================
