------------------------- MODULE ShadowClientProofs -------------------------
(***************************************************************************)
(* Proofs about ShadowClient for every number of clients, places in the    *)
(* group, slots and requests, and all timeouts: the callback of a request  *)
(* runs at most once, a request keeps its slot until it is answered, only  *)
(* late replies are ignored, and the housekeeper stays clear of freed      *)
(* clients.                                                                *)
(***************************************************************************)
EXTENDS ShadowClient, TLAPS

USE DEF Place, Slot

-----------------------------------------------------------------------------
(* One lemma per action: the inductive invariant is preserved.             *)

LEMMA InitInv == Init => ShadowInv
  <1> SUFFICES ASSUME Init PROVE ShadowInv
    OBVIOUS
  <1> USE DEF Init, Free, Asleep, Idle
  <1>1. TypeOK
    BY DEF TypeOK, Entries
  <1>2. CalledAtMostOnce /\ OnlyLateRepliesIgnored /\ KeeperIsSafe /\ ThreadInv
    BY DEF CalledAtMostOnce, OnlyLateRepliesIgnored, KeeperIsSafe, ThreadInv
  <1>3. SlotInv /\ RequestInv
    BY DEF SlotInv, RequestInv
  <1> QED
    BY <1>1, <1>2, <1>3 DEF ShadowInv

LEMMA SlotsUntouched ==
  ASSUME SlotInv, UNCHANGED <<life, group, vault, owner, keeper, mqtt, calls>>
  PROVE  SlotInv'
  BY DEF SlotInv, InCallback, KeeperIn, MqttIn

(* One slot of one client is written, and no other.                        *)
LEMMA OneSlotWritten ==
  ASSUME vault \in [Client -> [Slot -> Entries]],
         NEW c \in Client, NEW s \in Slot, NEW e \in Entries,
         vault' = [vault EXCEPT ![c][s] = e]
  PROVE  /\ vault' \in [Client -> [Slot -> Entries]]
         /\ vault'[c][s] = e
         /\ \A d \in Client, u \in Slot : (d # c \/ u # s) => vault'[d][u] = vault[d][u]
  <1>1. vault'[c] = [vault[c] EXCEPT ![s] = e] /\ vault[c] \in [Slot -> Entries]
    OBVIOUS
  <1>2. vault' \in [Client -> [Slot -> Entries]]
    BY <1>1
  <1>3. ASSUME NEW d \in Client, NEW u \in Slot, d # c \/ u # s
        PROVE  vault'[d][u] = vault[d][u]
    <2>1. CASE d # c
      BY <2>1
    <2>2. CASE d = c
      BY <1>1, <1>3, <2>2
    <2> QED
      BY <2>1, <2>2
  <1> QED
    BY <1>1, <1>2, <1>3

LEMMA CreateStep ==
  ASSUME ShadowInv, NEW c \in Client, Create(c)
  PROVE  ShadowInv'
  <1> USE ShadowAssumption DEF ShadowInv, Create, Vacant, Lowest, GroupLocked, network, history
  <1>1. TypeOK'
    <2>1. group' \in [Place -> Client \cup {None}]
      <3>1. CASE UNCHANGED group
        BY <3>1 DEF TypeOK
      <3>2. CASE \E i \in Place : group' = [group EXCEPT ![i] = c]
        BY <3>2 DEF TypeOK
      <3> QED
        BY <3>1, <3>2
    <2>2. life' \in [Client -> {"absent", "alive", "freed"}]
      BY DEF TypeOK
    <2> QED
      BY <2>1, <2>2 DEF TypeOK
  <1>2. CalledAtMostOnce' /\ OnlyLateRepliesIgnored'
    BY DEF TypeOK, Entries, CalledAtMostOnce, OnlyLateRepliesIgnored
  <1>3. KeeperIsSafe'
    BY DEF TypeOK, KeeperIsSafe, Member, MqttIn
  <1>4. ThreadInv'
    BY DEF TypeOK, Entries, ThreadInv, Entry, Member
  <1>5. SlotInv'
    <2>1. \A d \in Client, t \in Slot : InCallback(d, t)' <=> InCallback(d, t)
      BY DEF InCallback, KeeperIn, MqttIn
    <2>2. \A d \in Client : life[d] = "alive" => life'[d] = "alive"
      BY DEF TypeOK
    <2> QED
      BY <2>1, <2>2 DEF SlotInv
  <1>6. RequestInv'
    BY DEF TypeOK, Entries, RequestInv
  <1> QED
    BY <1>1, <1>2, <1>3, <1>4, <1>5, <1>6

LEMMA DestroyStep ==
  ASSUME ShadowInv, NEW c \in Client, Destroy(c)
  PROVE  ShadowInv'
  <1> USE ShadowAssumption DEF ShadowInv, Destroy, Mine, GroupLocked, Free, network, history
  <1>1. TypeOK'
    BY DEF TypeOK, Entries, Idle
  <1>2. CalledAtMostOnce' /\ OnlyLateRepliesIgnored'
    BY DEF TypeOK, Entries, CalledAtMostOnce, OnlyLateRepliesIgnored
  <1>3. KeeperIsSafe'
    BY DEF TypeOK, KeeperIsSafe, Member, MqttIn
  <1>4. ThreadInv'
    BY DEF TypeOK, Entries, ThreadInv, Entry, Member
  <1>5. SlotInv'
    <2>1. \A d \in Client, t \in Slot : InCallback(d, t)' <=> InCallback(d, t)
      BY DEF InCallback, KeeperIn, MqttIn
    <2>2. vault'[c] = [t \in Slot |-> Free]
      BY DEF TypeOK
    <2>3. \A d \in Client : d # c => vault'[d] = vault[d] /\ life'[d] = life[d]
      BY DEF TypeOK
    <2> QED
      BY <2>1, <2>2, <2>3 DEF SlotInv
  <1>6. RequestInv'
    BY DEF TypeOK, Entries, RequestInv
  <1> QED
    BY <1>1, <1>2, <1>3, <1>4, <1>5, <1>6

LEMMA ConnectedStep ==
  ASSUME ShadowInv, NEW c \in Client, Connected(c)
  PROVE  ShadowInv'
  <1> USE ShadowAssumption DEF ShadowInv, Connected, network, history
  <1>1. TypeOK'
    BY DEF TypeOK, Entries, Idle
  <1>2. CalledAtMostOnce' /\ OnlyLateRepliesIgnored'
    BY DEF TypeOK, Entries, CalledAtMostOnce, OnlyLateRepliesIgnored
  <1>3. KeeperIsSafe'
    BY DEF TypeOK, KeeperIsSafe, Member, MqttIn
  <1>4. ThreadInv'
    BY DEF TypeOK, Entries, ThreadInv, Entry, Member
  <1>5. SlotInv'
    BY SlotsUntouched
  <1>6. RequestInv'
    BY DEF TypeOK, Entries, RequestInv
  <1> QED
    BY <1>1, <1>2, <1>3, <1>4, <1>5, <1>6

LEMMA ConnectionLostStep ==
  ASSUME ShadowInv, NEW c \in Client, ConnectionLost(c)
  PROVE  ShadowInv'
  <1> USE ShadowAssumption DEF ShadowInv, ConnectionLost, Mine, network, history
  <1>1. TypeOK'
    BY DEF TypeOK, Entries, Idle
  <1>2. CalledAtMostOnce' /\ OnlyLateRepliesIgnored'
    BY DEF TypeOK, Entries, CalledAtMostOnce, OnlyLateRepliesIgnored
  <1>3. KeeperIsSafe'
    BY DEF TypeOK, KeeperIsSafe, Member, MqttIn
  <1>4. ThreadInv'
    BY DEF TypeOK, Entries, ThreadInv, Entry, Member
  <1>5. SlotInv'
    BY SlotsUntouched
  <1>6. RequestInv'
    BY DEF TypeOK, Entries, RequestInv
  <1> QED
    BY <1>1, <1>2, <1>3, <1>4, <1>5, <1>6

LEMMA AddStep ==
  ASSUME ShadowInv, NEW c \in Client, NEW r \in Request, NEW t \in Timeouts, Add(c, r, t)
  PROVE  ShadowInv'
  <1> USE ShadowAssumption DEF ShadowInv, Add, FreeSlots, Lowest, network, history
  <1>a. PICK s \in Slot :
          /\ vault[c][s].req = None
          /\ vault' = [vault EXCEPT ![c][s] = [req |-> r, age |-> 0, timeout |-> t]]
    OBVIOUS
  <1>b. /\ vault'[c][s].req = r
        /\ \A d \in Client, u \in Slot : (d # c \/ u # s) => vault'[d][u] = vault[d][u]
    <2>1. [req |-> r, age |-> 0, timeout |-> t] \in Entries
      BY DEF Entries
    <2> QED
      BY <1>a, <2>1, OneSlotWritten DEF TypeOK
  <1>c. /\ calls[r] = 0 /\ r \notin toSend \cup wire \cup replies
        /\ \A d \in Client, u \in Slot : vault[d][u].req # r
    BY SMTT(40) DEF TypeOK, SlotInv, RequestInv
  <1>d. ~InCallback(c, s)
    BY <1>a DEF ThreadInv, InCallback, KeeperIn, MqttIn, Entry, Member
  <1>1. TypeOK'
    BY <1>a DEF TypeOK, Entries, Idle
  <1>2. CalledAtMostOnce' /\ OnlyLateRepliesIgnored'
    BY DEF TypeOK, Entries, CalledAtMostOnce, OnlyLateRepliesIgnored
  <1>3. KeeperIsSafe'
    BY DEF TypeOK, KeeperIsSafe, Member, MqttIn
  <1>4. ThreadInv'
    <2>1. ASSUME NEW d \in Client, NEW u \in Slot, vault[d][u].req # None
          PROVE  vault'[d][u].req # None
      BY <1>b, <2>1
    <2>2. keeper.at = "callback" => Member \in Client /\ keeper.slot \in Slot
      BY DEF TypeOK, KeeperIsSafe
    <2>3. mqtt.at = "callback" => mqtt.client \in Client /\ mqtt.slot \in Slot
      BY DEF TypeOK, Idle
    <2> QED
      BY <2>1, <2>2, <2>3 DEF ThreadInv, Entry, Member
  <1>5. SlotInv'
    <2>1. \A d \in Client, v \in Slot : InCallback(d, v)' <=> InCallback(d, v)
      BY DEF InCallback, KeeperIn, MqttIn
    <2>2. owner'[r] = c /\ \A q \in Request : q # r => owner'[q] = owner[q]
      BY DEF TypeOK
    <2> SUFFICES ASSUME NEW d \in Client, NEW u \in Slot, vault'[d][u].req # None
                 PROVE  /\ life[d] = "alive"
                        /\ owner'[vault'[d][u].req] = d
                        /\ calls[vault'[d][u].req] = IF InCallback(d, u) THEN 1 ELSE 0
                        /\ \A v \in Slot : vault'[d][v].req = vault'[d][u].req => v = u
      BY <2>1 DEF SlotInv
    <2>3. CASE d = c /\ u = s
      BY <1>b, <1>c, <1>d, <2>2, <2>3
    <2>4. CASE (d # c \/ u # s)
      <3>a. vault'[d][u] = vault[d][u] /\ vault[d][u] \in Entries
        BY <1>b, <2>4 DEF TypeOK
      <3>1. vault'[d][u] = vault[d][u] /\ vault[d][u].req \in Request
        BY <3>a DEF Entries
      <3> QED
        BY <1>b, <1>c, <2>2, <2>4, <3>1 DEF SlotInv
    <2> QED
      BY <2>3, <2>4
  <1>6. RequestInv'
    <2>1. owner'[r] = c /\ \A q \in Request : q # r => owner'[q] = owner[q]
      BY DEF TypeOK
    <2> SUFFICES ASSUME NEW q \in Request
                 PROVE  /\ IF owner'[q] = None THEN calls[q] = 0 ELSE life[owner'[q]] # "absent"
                        /\ q \in toSend' \cup wire \cup replies =>
                             owner'[q] # None /\ life[owner'[q]] = "alive"
                        /\ owner'[q] # None /\ life[owner'[q]] = "alive" =>
                             calls[q] > 0 \/ \E u \in Slot : vault'[owner'[q]][u].req = q
      BY DEF RequestInv
    <2>2. CASE q = r
      BY <1>b, <2>1, <2>2
    <2>3. CASE q # r
      <3>1. ASSUME NEW u \in Slot, owner[q] \in Client, vault[owner[q]][u].req = q
            PROVE  vault'[owner[q]][u].req = q
        BY <1>a, <1>b, <3>1
      <3> QED
        BY <2>1, <2>3, <3>1 DEF TypeOK, RequestInv
    <2> QED
      BY <2>2, <2>3
  <1> QED
    BY <1>1, <1>2, <1>3, <1>4, <1>5, <1>6

LEMMA PublishStep ==
  ASSUME ShadowInv, NEW r \in Request, Publish(r)
  PROVE  ShadowInv'
  <1> USE ShadowAssumption DEF ShadowInv, Publish, network, history
  <1>1. TypeOK'
    BY DEF TypeOK, Entries, Idle
  <1>2. CalledAtMostOnce' /\ OnlyLateRepliesIgnored'
    BY DEF TypeOK, Entries, CalledAtMostOnce, OnlyLateRepliesIgnored
  <1>3. KeeperIsSafe'
    BY DEF TypeOK, KeeperIsSafe, Member, MqttIn
  <1>4. ThreadInv'
    BY DEF TypeOK, Entries, ThreadInv, Entry, Member
  <1>5. SlotInv'
    BY SlotsUntouched
  <1>6. RequestInv'
    BY DEF TypeOK, Entries, RequestInv
  <1> QED
    BY <1>1, <1>2, <1>3, <1>4, <1>5, <1>6

LEMMA ServerRepliesStep ==
  ASSUME ShadowInv, NEW r \in Request, ServerReplies(r)
  PROVE  ShadowInv'
  <1> USE ShadowAssumption DEF ShadowInv, ServerReplies, network, history
  <1>1. TypeOK'
    BY DEF TypeOK, Entries, Idle
  <1>2. CalledAtMostOnce' /\ OnlyLateRepliesIgnored'
    BY DEF TypeOK, Entries, CalledAtMostOnce, OnlyLateRepliesIgnored
  <1>3. KeeperIsSafe'
    BY DEF TypeOK, KeeperIsSafe, Member, MqttIn
  <1>4. ThreadInv'
    BY DEF TypeOK, Entries, ThreadInv, Entry, Member
  <1>5. SlotInv'
    BY SlotsUntouched
  <1>6. RequestInv'
    BY DEF TypeOK, Entries, RequestInv
  <1> QED
    BY <1>1, <1>2, <1>3, <1>4, <1>5, <1>6

LEMMA MatchStep ==
  ASSUME ShadowInv, NEW r \in Request, Match(r)
  PROVE  ShadowInv'
  <1> USE ShadowAssumption DEF ShadowInv, Match, Deliver, Lowest, Waiting, Idle, network, history
  <1>a. owner[r] \in Client /\ life[owner[r]] = "alive"
    BY DEF TypeOK, RequestInv
  <1>b. PICK s \in Slot :
          /\ vault[owner[r]][s].req = r
          /\ mqtt' = [at |-> "callback", client |-> owner[r], slot |-> s]
    OBVIOUS
  <1>c. ~InCallback(owner[r], s)
    BY DEF InCallback, KeeperIn, MqttIn
  <1>d. calls[r] = 0
    BY <1>a, <1>b, <1>c DEF SlotInv
  <1>e. calls'[r] = 1 /\ \A q \in Request : q # r => calls'[q] = calls[q]
    BY <1>d DEF TypeOK
  <1>1. TypeOK'
    BY <1>a, <1>b DEF TypeOK, Idle
  <1>2. CalledAtMostOnce' /\ OnlyLateRepliesIgnored'
    BY <1>e DEF CalledAtMostOnce, OnlyLateRepliesIgnored, TypeOK
  <1>3. KeeperIsSafe'
    BY <1>b DEF TypeOK, KeeperIsSafe, Member, MqttIn, KeeperIn
  <1>4. ThreadInv'
    BY <1>a, <1>b DEF ThreadInv, Entry, Member
  <1>5. SlotInv'
    <2> SUFFICES ASSUME NEW d \in Client, NEW u \in Slot, vault[d][u].req # None
                 PROVE  calls'[vault[d][u].req] = IF InCallback(d, u)' THEN 1 ELSE 0
      BY DEF SlotInv
    <2>1. CASE vault[d][u].req = r
      <3>1. d = owner[r] /\ u = s
        BY <1>b, <2>1 DEF SlotInv
      <3>2. InCallback(d, u)'
        BY <1>b, <3>1 DEF InCallback, KeeperIn, MqttIn
      <3> QED
        BY <1>e, <2>1, <3>2
    <2>2. CASE vault[d][u].req # r
      <3>1. InCallback(d, u)' <=> InCallback(d, u)
        BY <1>b, <2>2 DEF InCallback, KeeperIn, MqttIn
      <3>2. vault[d][u].req \in Request
        BY DEF TypeOK, Entries
      <3> QED
        BY <1>e, <2>2, <3>1, <3>2 DEF SlotInv
    <2> QED
      BY <2>1, <2>2
  <1>6. RequestInv'
    BY <1>a, <1>e DEF TypeOK, RequestInv
  <1> QED
    BY <1>1, <1>2, <1>3, <1>4, <1>5, <1>6

LEMMA NoMatchStep ==
  ASSUME ShadowInv, NEW r \in Request, NoMatch(r)
  PROVE  ShadowInv'
  <1> USE ShadowAssumption DEF ShadowInv, NoMatch, Deliver, Waiting, Idle, network, history
  <1>1. TypeOK'
    BY DEF TypeOK, Entries, Idle
  <1>2. CalledAtMostOnce' /\ OnlyLateRepliesIgnored'
    <2>1. calls[r] > 0
      BY DEF RequestInv
    <2> QED
      BY <2>1 DEF CalledAtMostOnce, OnlyLateRepliesIgnored
  <1>3. KeeperIsSafe'
    BY DEF TypeOK, KeeperIsSafe, Member, MqttIn
  <1>4. ThreadInv'
    BY DEF TypeOK, Entries, ThreadInv, Entry, Member
  <1>5. SlotInv'
    BY SlotsUntouched
  <1>6. RequestInv'
    BY DEF TypeOK, Entries, RequestInv
  <1> QED
    BY <1>1, <1>2, <1>3, <1>4, <1>5, <1>6

LEMMA MqttReturnsStep ==
  ASSUME ShadowInv, MqttReturns
  PROVE  ShadowInv'
  <1> USE ShadowAssumption DEF ShadowInv, MqttReturns, Idle, network, history
  <1> DEFINE c == mqtt.client
             s == mqtt.slot
  <1>a. c \in Client /\ s \in Slot /\ InCallback(c, s)
    BY DEF TypeOK, Idle, InCallback, KeeperIn, MqttIn
  <1>c. /\ vault' \in [Client -> [Slot -> Entries]]
        /\ life[c] = "alive" => vault'[c][s] = Free
        /\ life[c] # "alive" => vault' = vault
        /\ \A d \in Client, u \in Slot : (d # c \/ u # s) => vault'[d][u] = vault[d][u]
    <2>1. CASE life[c] = "alive"
      <3>1. Free \in Entries /\ vault' = [vault EXCEPT ![c][s] = Free]
        BY <2>1 DEF Free, Entries, Release
      <3> QED
        BY <1>a, <2>1, <3>1, OneSlotWritten DEF TypeOK
    <2>2. CASE life[c] # "alive"
      BY <2>2 DEF TypeOK
    <2> QED
      BY <2>1, <2>2
  <1>d. life[c] # "alive" => vault[c][s].req = None
    BY <1>a DEF SlotInv
  <1>1. TypeOK'
    BY <1>c DEF TypeOK
  <1>2. CalledAtMostOnce' /\ OnlyLateRepliesIgnored'
    BY DEF TypeOK, Entries, CalledAtMostOnce, OnlyLateRepliesIgnored
  <1>3. KeeperIsSafe'
    BY DEF TypeOK, KeeperIsSafe, Member, MqttIn
  <1>4. ThreadInv'
    <2>1. keeper.at = "callback" => (Member # c \/ keeper.slot # s) /\ Member \in Client
      BY DEF KeeperIsSafe, MqttIn
    <2> QED
      BY <1>c, <2>1 DEF TypeOK, ThreadInv, Entry, Member
  <1>5. SlotInv'
    <2>1. vault'[c][s].req = None
      BY <1>c, <1>d DEF Free
    <2>2. ASSUME NEW d \in Client, NEW u \in Slot, (d # c \/ u # s)
          PROVE  InCallback(d, u)' <=> InCallback(d, u)
      BY <2>2 DEF InCallback, KeeperIn, MqttIn
    <2> QED
      BY <1>a, <1>c, <2>1, <2>2 DEF SlotInv
  <1>6. RequestInv'
    <2> SUFFICES ASSUME NEW q \in Request, owner[q] # None, life[owner[q]] = "alive", calls[q] = 0,
                        NEW u \in Slot, vault[owner[q]][u].req = q
                 PROVE  vault'[owner[q]][u].req = q
      BY DEF TypeOK, RequestInv
    <2>1. owner[q] \in Client /\ q # None
      BY DEF TypeOK
    <2>2. calls[q] = IF InCallback(owner[q], u) THEN 1 ELSE 0
      BY <2>1 DEF SlotInv
    <2>3. ~InCallback(owner[q], u)
      BY <2>2
    <2> QED
      BY <1>a, <1>c, <2>1, <2>3
  <1> QED
    BY <1>1, <1>2, <1>3, <1>4, <1>5, <1>6

LEMMA KeeperStartsStep ==
  ASSUME ShadowInv, KeeperStarts
  PROVE  ShadowInv'
  <1> USE ShadowAssumption DEF ShadowInv, KeeperStarts, Asleep, network, history
  <1>1. TypeOK'
    BY DEF TypeOK, Entries, Idle
  <1>2. CalledAtMostOnce' /\ OnlyLateRepliesIgnored'
    BY DEF TypeOK, Entries, CalledAtMostOnce, OnlyLateRepliesIgnored
  <1>3. KeeperIsSafe'
    BY DEF TypeOK, KeeperIsSafe, Member, MqttIn
  <1>4. ThreadInv'
    BY DEF TypeOK, Entries, ThreadInv, Entry, Member
  <1>5. SlotInv'
    <2>1. \A d \in Client, t \in Slot : InCallback(d, t)' <=> InCallback(d, t)
      BY DEF InCallback, KeeperIn, MqttIn
    <2> QED
      BY <2>1 DEF SlotInv
  <1>6. RequestInv'
    BY DEF TypeOK, Entries, RequestInv
  <1> QED
    BY <1>1, <1>2, <1>3, <1>4, <1>5, <1>6

LEMMA KeeperSkipsStep ==
  ASSUME ShadowInv, KeeperSkips
  PROVE  ShadowInv'
  <1> USE ShadowAssumption DEF ShadowInv, KeeperSkips, NextPlace, Asleep, network, history
  <1>1. TypeOK'
    BY DEF TypeOK, Entries, Idle
  <1>2. CalledAtMostOnce' /\ OnlyLateRepliesIgnored'
    BY DEF TypeOK, Entries, CalledAtMostOnce, OnlyLateRepliesIgnored
  <1>3. KeeperIsSafe'
    BY DEF TypeOK, KeeperIsSafe, Member, MqttIn
  <1>4. ThreadInv'
    BY DEF TypeOK, Entries, ThreadInv, Entry, Member
  <1>5. SlotInv'
    <2>1. \A d \in Client, t \in Slot : InCallback(d, t)' <=> InCallback(d, t)
      BY DEF InCallback, KeeperIn, MqttIn
    <2> QED
      BY <2>1 DEF SlotInv
  <1>6. RequestInv'
    BY DEF TypeOK, Entries, RequestInv
  <1> QED
    BY <1>1, <1>2, <1>3, <1>4, <1>5, <1>6

LEMMA KeeperEntersStep ==
  ASSUME ShadowInv, KeeperEnters
  PROVE  ShadowInv'
  <1> USE ShadowAssumption DEF ShadowInv, KeeperEnters, network, history
  <1>a. keeper' = [at |-> "slots", place |-> keeper.place, slot |-> 1] /\ keeper.place \in Place
    BY DEF TypeOK
  <1>1. TypeOK'
    BY <1>a DEF TypeOK
  <1>2. CalledAtMostOnce' /\ OnlyLateRepliesIgnored'
    BY DEF TypeOK, Entries, CalledAtMostOnce, OnlyLateRepliesIgnored
  <1>3. KeeperIsSafe'
    BY <1>a DEF TypeOK, KeeperIsSafe, Member, MqttIn
  <1>4. ThreadInv'
    BY <1>a DEF ThreadInv
  <1>5. SlotInv'
    <2>1. \A d \in Client, t \in Slot : InCallback(d, t)' <=> InCallback(d, t)
      BY <1>a DEF InCallback, KeeperIn, MqttIn
    <2> QED
      BY <2>1 DEF SlotInv
  <1>6. RequestInv'
    BY DEF TypeOK, Entries, RequestInv
  <1> QED
    BY <1>1, <1>2, <1>3, <1>4, <1>5, <1>6

LEMMA KeeperPassesStep ==
  ASSUME ShadowInv, KeeperPasses
  PROVE  ShadowInv'
  <1> USE ShadowAssumption DEF ShadowInv, KeeperPasses, NextSlot, NextPlace, Asleep, network, history
  <1>1. TypeOK'
    BY DEF TypeOK, Entries, Idle
  <1>2. CalledAtMostOnce' /\ OnlyLateRepliesIgnored'
    BY DEF TypeOK, Entries, CalledAtMostOnce, OnlyLateRepliesIgnored
  <1>3. KeeperIsSafe'
    BY DEF TypeOK, KeeperIsSafe, Member, MqttIn
  <1>4. ThreadInv'
    BY DEF TypeOK, Entries, ThreadInv, Entry, Member
  <1>5. SlotInv'
    <2>1. \A d \in Client, t \in Slot : InCallback(d, t)' <=> InCallback(d, t)
      <3>1. keeper.at # "callback" /\ keeper'.at # "callback"
        OBVIOUS
      <3> QED
        BY <3>1 DEF InCallback, KeeperIn, MqttIn
    <2> QED
      BY <2>1 DEF SlotInv
  <1>6. RequestInv'
    BY DEF TypeOK, Entries, RequestInv
  <1> QED
    BY <1>1, <1>2, <1>3, <1>4, <1>5, <1>6

LEMMA KeeperExpiresStep ==
  ASSUME ShadowInv, KeeperExpires
  PROVE  ShadowInv'
  <1> USE ShadowAssumption DEF ShadowInv, KeeperExpires, Expired, network, history
  <1> DEFINE c == Member
             s == keeper.slot
             r == Entry.req
  <1>a. /\ c \in Client /\ s \in Slot /\ r \in Request /\ vault[c][s].req = r
        /\ keeper.place \in Place
    BY DEF TypeOK, Entries, KeeperIsSafe, Entry
  <1>b. ~InCallback(c, s) /\ ~MqttIn(c) /\ KeeperIn(c)
    BY DEF InCallback, KeeperIn, MqttIn, KeeperIsSafe, Member
  <1>c. calls[r] = 0
    BY <1>a, <1>b DEF SlotInv
  <1>d. calls'[r] = 1 /\ \A q \in Request : q # r => calls'[q] = calls[q]
    BY <1>a, <1>c DEF TypeOK
  <1>e. keeper' = [at |-> "callback", place |-> keeper.place, slot |-> s]
    BY DEF TypeOK
  <1>1. TypeOK'
    <2>1. calls' \in [Request -> Nat]
      BY <1>a DEF TypeOK
    <2>2. keeper' \in [at : {"slots", "callback"}, place : Place, slot : Slot]
      BY <1>a, <1>e
    <2> QED
      BY <2>1, <2>2 DEF TypeOK
  <1>2. CalledAtMostOnce' /\ OnlyLateRepliesIgnored'
    BY <1>d DEF CalledAtMostOnce, OnlyLateRepliesIgnored, TypeOK
  <1>3. KeeperIsSafe'
    BY <1>e DEF KeeperIsSafe, Member, MqttIn
  <1>4. ThreadInv'
    BY <1>a, <1>e DEF ThreadInv, Entry, Member
  <1>5. SlotInv'
    <2> SUFFICES ASSUME NEW d \in Client, NEW u \in Slot, vault[d][u].req # None
                 PROVE  calls'[vault[d][u].req] = IF InCallback(d, u)' THEN 1 ELSE 0
      BY DEF SlotInv
    <2>1. CASE vault[d][u].req = r
      <3>1. d = c /\ u = s
        BY <1>a, <2>1 DEF SlotInv
      <3>2. InCallback(d, u)'
        BY <1>e, <3>1 DEF InCallback, KeeperIn, MqttIn, Member
      <3> QED
        BY <1>d, <2>1, <3>2
    <2>2. CASE vault[d][u].req # r
      <3>1. (d # c \/ u # s)
        BY <1>a, <2>2
      <3>2. InCallback(d, u)' <=> InCallback(d, u)
        BY <1>e, <3>1 DEF InCallback, KeeperIn, MqttIn, Member
      <3>3. vault[d][u].req \in Request
        BY DEF TypeOK, Entries
      <3> QED
        BY <1>d, <2>2, <3>2, <3>3 DEF SlotInv
    <2> QED
      BY <2>1, <2>2
  <1>6. RequestInv'
    <2>1. owner[r] = c
      BY <1>a DEF SlotInv
    <2> QED
      BY <1>a, <1>d, <2>1 DEF TypeOK, RequestInv
  <1> QED
    BY <1>1, <1>2, <1>3, <1>4, <1>5, <1>6

LEMMA KeeperReturnsStep ==
  ASSUME ShadowInv, KeeperReturns
  PROVE  ShadowInv'
  <1> USE ShadowAssumption DEF ShadowInv, KeeperReturns, network, history
  <1> DEFINE c == Member
             s == keeper.slot
  <1>a. /\ c \in Client /\ s \in Slot /\ keeper.place \in Place
        /\ InCallback(c, s) /\ ~MqttIn(c)
    BY DEF TypeOK, KeeperIsSafe, InCallback, KeeperIn, MqttIn, Member
  <1>b. /\ vault' \in [Client -> [Slot -> Entries]]
        /\ vault'[c][s] = Free
        /\ \A d \in Client, u \in Slot : (d # c \/ u # s) => vault'[d][u] = vault[d][u]
    <2>1. Free \in Entries /\ vault' = [vault EXCEPT ![c][s] = Free]
      BY DEF Free, Entries, Release
    <2> QED
      BY <1>a, <2>1, OneSlotWritten DEF TypeOK
  <1>c. /\ keeper' \in {Asleep} \cup [at : {"group"}, place : Place, slot : {0}]
                      \cup [at : {"slots"}, place : {keeper.place}, slot : Slot]
        /\ keeper'.at # "callback"
    BY <1>a DEF NextSlot, NextPlace, Asleep
  <1>1. TypeOK'
    <2>1. keeper' \in [at : {"sleep"}, place : {0}, slot : {0}]
                       \cup [at : {"group"}, place : Place, slot : {0}]
                       \cup [at : {"slots", "callback"}, place : Place, slot : Slot]
      BY <1>a, <1>c DEF Asleep
    <2> QED
      BY <1>b, <2>1 DEF TypeOK
  <1>2. CalledAtMostOnce' /\ OnlyLateRepliesIgnored'
    BY DEF TypeOK, Entries, CalledAtMostOnce, OnlyLateRepliesIgnored
  <1>3. KeeperIsSafe'
    BY <1>a, <1>c DEF KeeperIsSafe, Member, MqttIn, Asleep
  <1>4. ThreadInv'
    <2>1. mqtt.at = "callback" => mqtt.client # c /\ mqtt.client \in Client /\ mqtt.slot \in Slot
      BY <1>a DEF TypeOK, Idle, MqttIn
    <2> QED
      BY <1>b, <1>c, <2>1 DEF ThreadInv
  <1>5. SlotInv'
    <2>1. vault'[c][s].req = None
      BY <1>b DEF Free
    <2>2. ASSUME NEW d \in Client, NEW u \in Slot, (d # c \/ u # s)
          PROVE  InCallback(d, u)' <=> InCallback(d, u)
      <3>1. ~(KeeperIn(d) /\ keeper.at = "callback" /\ keeper.slot = u)
        BY <1>a, <2>2 DEF KeeperIn, Member
      <3>2. ~(KeeperIn(d) /\ keeper.at = "callback" /\ keeper.slot = u)'
        BY <1>c
      <3>3. MqttIn(d)' <=> MqttIn(d)
        BY DEF MqttIn
      <3> QED
        BY <3>1, <3>2, <3>3 DEF InCallback
    <2> SUFFICES ASSUME NEW d \in Client, NEW u \in Slot, vault'[d][u].req # None
                 PROVE  /\ life[d] = "alive"
                        /\ owner[vault'[d][u].req] = d
                        /\ calls[vault'[d][u].req] = IF InCallback(d, u)' THEN 1 ELSE 0
                        /\ \A v \in Slot : vault'[d][v].req = vault'[d][u].req => v = u
      BY DEF SlotInv
    <2>3. (d # c \/ u # s) /\ vault'[d][u] = vault[d][u]
      BY <1>b, <2>1
    <2>4. /\ life[d] = "alive"
          /\ owner[vault[d][u].req] = d
          /\ calls[vault[d][u].req] = IF InCallback(d, u) THEN 1 ELSE 0
          /\ \A v \in Slot : vault[d][v].req = vault[d][u].req => v = u
      BY <2>3 DEF SlotInv
    <2>5. ASSUME NEW v \in Slot, vault'[d][v].req = vault'[d][u].req
          PROVE  v = u
      BY <1>b, <2>1, <2>3, <2>4, <2>5
    <2> QED
      BY <2>2, <2>3, <2>4, <2>5
  <1>6. RequestInv'
    <2> SUFFICES ASSUME NEW q \in Request, owner[q] # None, life[owner[q]] = "alive", calls[q] = 0,
                        NEW u \in Slot, vault[owner[q]][u].req = q
                 PROVE  vault'[owner[q]][u].req = q
      <3>1. UNCHANGED <<life, owner, calls, toSend, wire, replies>>
        OBVIOUS
      <3>2. calls \in [Request -> Nat]
        BY DEF TypeOK
      <3> QED
        BY <3>1, <3>2 DEF RequestInv
    <2>1. owner[q] \in Client /\ q # None
      BY DEF TypeOK
    <2>2. calls[q] = IF InCallback(owner[q], u) THEN 1 ELSE 0
      BY <2>1 DEF SlotInv
    <2>3. ~InCallback(owner[q], u)
      BY <2>2
    <2> QED
      BY <1>a, <1>b, <2>1, <2>3
  <1> QED
    BY <1>1, <1>2, <1>3, <1>4, <1>5, <1>6

LEMMA TickStep ==
  ASSUME ShadowInv, Tick
  PROVE  ShadowInv'
  <1> USE ShadowAssumption DEF ShadowInv, Tick, network, history
  <1>a. ASSUME NEW e \in Entries
        PROVE  Older(e) \in Entries /\ Older(e).req = e.req
    BY <1>a DEF Entries, Older
  <1>b. \A d \in Client, u \in Slot :
          vault'[d][u] \in Entries /\ vault'[d][u].req = vault[d][u].req
    BY <1>a DEF TypeOK
  <1>1. TypeOK'
    BY <1>b DEF TypeOK, Idle
  <1>2. CalledAtMostOnce' /\ OnlyLateRepliesIgnored'
    BY DEF TypeOK, Entries, CalledAtMostOnce, OnlyLateRepliesIgnored
  <1>3. KeeperIsSafe'
    BY DEF TypeOK, KeeperIsSafe, Member, MqttIn
  <1>4. ThreadInv'
    BY <1>b DEF TypeOK, ThreadInv, KeeperIsSafe, Entry, Member, Idle
  <1>5. SlotInv'
    <2>1. \A d \in Client, t \in Slot : InCallback(d, t)' <=> InCallback(d, t)
      BY DEF InCallback, KeeperIn, MqttIn
    <2> QED
      BY <1>b, <2>1 DEF SlotInv
  <1>6. RequestInv'
    <2>1. ASSUME NEW q \in Request, NEW u \in Slot, owner[q] # None, vault[owner[q]][u].req = q
          PROVE  vault'[owner[q]][u].req = q
      BY <1>b, <2>1 DEF TypeOK
    <2> QED
      BY <2>1 DEF TypeOK, RequestInv
  <1> QED
    BY <1>1, <1>2, <1>3, <1>4, <1>5, <1>6

LEMMA NextInv == ShadowInv /\ [Next]_vars => ShadowInv'
  <1> SUFFICES ASSUME ShadowInv, [Next]_vars PROVE ShadowInv'
    OBVIOUS
  <1>1. ASSUME NEW c \in Client,
               Create(c) \/ Destroy(c) \/ Connected(c) \/ ConnectionLost(c)
        PROVE  ShadowInv'
    BY <1>1, CreateStep, DestroyStep, ConnectedStep, ConnectionLostStep
  <1>2. ASSUME NEW c \in Client, NEW r \in Request, NEW t \in Timeouts, Add(c, r, t)
        PROVE  ShadowInv'
    BY <1>2, AddStep
  <1>3. ASSUME NEW r \in Request, Publish(r) \/ ServerReplies(r) \/ Match(r) \/ NoMatch(r)
        PROVE  ShadowInv'
    BY <1>3, PublishStep, ServerRepliesStep, MatchStep, NoMatchStep
  <1>4. CASE MqttReturns
    BY <1>4, MqttReturnsStep
  <1>5. CASE Keeper
    BY <1>5, KeeperStartsStep, KeeperSkipsStep, KeeperEntersStep,
       KeeperPassesStep, KeeperExpiresStep, KeeperReturnsStep DEF Keeper
  <1>6. CASE Tick
    BY <1>6, TickStep
  <1>7. CASE UNCHANGED vars
    <2> USE <1>7 DEF vars, network, history, ShadowInv
    <2>1. TypeOK' /\ CalledAtMostOnce' /\ OnlyLateRepliesIgnored'
      BY DEF TypeOK, CalledAtMostOnce, OnlyLateRepliesIgnored
    <2>2. KeeperIsSafe' /\ ThreadInv'
      BY DEF KeeperIsSafe, ThreadInv, Member, Entry, MqttIn
    <2>3. SlotInv' /\ RequestInv'
      BY SlotsUntouched DEF RequestInv
    <2> QED
      BY <2>1, <2>2, <2>3
  <1> QED
    BY <1>1, <1>2, <1>3, <1>4, <1>5, <1>6, <1>7 DEF Next

-----------------------------------------------------------------------------
(* The inductive invariant holds of every behaviour.                       *)
THEOREM ShadowInvHolds == Spec => []ShadowInv
  BY InitInv, NextInv, PTL DEF Spec

(* A reply that races the timeout, comes late or comes twice never runs    *)
(* the callback of a request a second time.                                *)
THEOREM CallbackRunsAtMostOnce == Spec => []CalledAtMostOnce
  <1>1. ShadowInv => CalledAtMostOnce
    BY DEF ShadowInv
  <1> QED
    BY ShadowInvHolds, <1>1, PTL

(* handle_response reports "no in flight payload" only for a request that  *)
(* was answered before.                                                    *)
THEOREM NoFirstReplyIsLost == Spec => []OnlyLateRepliesIgnored
  <1>1. ShadowInv => OnlyLateRepliesIgnored
    BY DEF ShadowInv
  <1> QED
    BY ShadowInvHolds, <1>1, PTL

(* The housekeeping thread never touches a freed client, nor the slots of  *)
(* a client whose reply is being handled.                                  *)
THEOREM HousekeeperIsSafe == Spec => []KeeperIsSafe
  <1>1. ShadowInv => KeeperIsSafe
    BY DEF ShadowInv
  <1> QED
    BY ShadowInvHolds, <1>1, PTL

(* No request of a living client is forgotten, none is answered and kept,  *)
(* and none has two slots.                                                 *)
THEOREM RequestKeepsItsSlot == Spec => []SlotUntilAnswered
  <1>1. ShadowInv => SlotUntilAnswered
    <2> SUFFICES ASSUME ShadowInv,
                        NEW r \in Request, owner[r] # None, life[owner[r]] = "alive"
                 PROVE  /\ calls[r] = 0 <=> \E s \in Slot : Holds(owner[r], s, r)
                        /\ \A c \in Client, s, t \in Slot :
                             vault[owner[r]][s].req = r /\ vault[c][t].req = r
                               => c = owner[r] /\ t = s
      BY DEF SlotUntilAnswered
    <2> USE ShadowAssumption DEF ShadowInv
    <2>1. owner[r] \in Client /\ calls[r] \in Nat /\ r # None
      BY DEF TypeOK
    <2>2. calls[r] = 0 => \E s \in Slot : Holds(owner[r], s, r)
      BY <2>1 DEF RequestInv, SlotInv, Holds
    <2>3. (\E s \in Slot : Holds(owner[r], s, r)) => calls[r] = 0
      BY <2>1 DEF SlotInv, Holds
    <2>4. \A c \in Client, s, t \in Slot :
            vault[owner[r]][s].req = r /\ vault[c][t].req = r => c = owner[r] /\ t = s
      BY <2>1 DEF SlotInv
    <2> QED
      BY <2>2, <2>3, <2>4
  <1> QED
    BY ShadowInvHolds, <1>1, PTL

(* Every variable of the client keeps its type: clients stay within the    *)
(* group's places and requests within their slots.                         *)
THEOREM ShadowTypesHold == Spec => []TypeOK
  <1>1. ShadowInv => TypeOK
    BY DEF ShadowInv
  <1> QED
    BY ShadowInvHolds, <1>1, PTL
=============================================================================
