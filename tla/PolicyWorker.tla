----------------------------- MODULE PolicyWorker -----------------------------
(***************************************************************************)
(* The polling worker of the Modbus gateway (business.c).  The cloud       *)
(* pushes the slave policies over MQTT; the MQTT thread writes them to the *)
(* policy cache, a file, and raises a flag.  The worker thread loads the   *)
(* file when it finds the flag raised, reconnects the gateway when it      *)
(* finds the connection lost, and executes the policies that are due, from *)
(* the head of a list that is meant to be ordered by the next run.         *)
(*                                                                         *)
(* Times are kept relative to the clock: due is nextRun - time(NULL).      *)
(***************************************************************************)
EXTENDS Integers, Sequences

CONSTANTS
  Config,       \* the lists of policies the cloud may push
  Intervals,    \* Intervals[c]: the polling interval of each policy of c
  None,         \* no policy file, nothing loaded, no push under way
  Torn,         \* a policy file that was opened for writing and not written
  MaxPass,      \* bound: seconds a pass over the list may take
  MaxRestarts   \* bound: restarts of the gateway in a behaviour

ASSUME PolicyAssumption ==
  /\ None \notin Config /\ Torn \notin Config
  /\ \A c \in Config : Intervals[c] \in Seq(Nat)
  /\ MaxPass \in Nat

VARIABLES
  file,       \* the policy cache file
  updated,    \* g_policy_updated
  pushing,    \* the configuration the MQTT thread is writing, under its lock
  content,    \* the configuration the worker has read from the file
  loaded,     \* the configuration the list was made from
  list,       \* the policies after g_slave_header
  pc,         \* where the worker is in its loop
  age,        \* seconds since the worker took the time for this pass
  ran,        \* policies executed since they were loaded (history)
  last,       \* the policy executed last (history)
  connected,  \* g_gateway_connected
  session,    \* the MQTT session with the cloud is up
  lost,       \* connection_lost is about to run
  restarts    \* restarts so far

policies == <<list, age, ran, last>>
config == <<file, updated, pushing, content, loaded>>
link == <<connected, session, lost>>
vars == <<config, policies, pc, link, restarts>>

(* Nothing tells a policy that is more than MaxPass seconds late from one  *)
(* that is later still: it is due, and comes before any that was just run. *)
Earliest == -1 - MaxPass

Policies(c) == [config : {c}, index : DOMAIN Intervals[c]]

Interval(p) == Intervals[p.config][p.index]

Init ==
  /\ file \in Config \cup {None}
  /\ updated = TRUE
  /\ pushing = None
  /\ content = None
  /\ loaded = None
  /\ list = << >>
  /\ pc = "top"
  /\ age = 0
  /\ ran = {}
  /\ last = None
  /\ connected = FALSE /\ session = FALSE /\ lost = FALSE
  /\ restarts = 0

-----------------------------------------------------------------------------
(***************************************************************************)
(* handle_config_msg, on the MQTT thread, under g_policy_update_lock: the  *)
(* file is emptied, written and closed, then the flag is raised.           *)
(***************************************************************************)
PushBegin(c) ==
  /\ session
  /\ pushing = None
  /\ pushing' = c
  /\ file' = Torn
  /\ UNCHANGED <<updated, content, loaded, policies, pc, link, restarts>>

PushEnd ==
  /\ pushing # None
  /\ file' = pushing
  /\ updated' = TRUE
  /\ pushing' = None
  /\ UNCHANGED <<content, loaded, policies, pc, link, restarts>>

-----------------------------------------------------------------------------
(***************************************************************************)
(* load_slave_policy_from_cache.  The flag is cleared and the file is read *)
(* under g_policy_update_lock; parsing and building the list follow        *)
(* outside it.  A file that cannot be read leaves the list as it was.      *)
(***************************************************************************)
\* Mutant: a file that was not written to its end is not recognised.
ReadTorn ==
  /\ pc = "top"
  /\ updated
  /\ pushing = None
  /\ updated' = FALSE
  /\ IF file # None
     THEN content' = file /\ pc' = "build"
     ELSE pc' = "listen" /\ UNCHANGED content
  /\ UNCHANGED <<file, pushing, loaded, policies, link, restarts>>

Read ==
  /\ pc = "top"
  /\ updated
  /\ pushing = None
  /\ updated' = FALSE
  /\ IF file \in Config
     THEN content' = file /\ pc' = "build"
     ELSE pc' = "listen" /\ UNCHANGED content
  /\ UNCHANGED <<file, pushing, loaded, policies, link, restarts>>

(* Each policy goes to the head of the list, first due after one interval. *)
NewPolicy(c, i) == [id |-> [config |-> c, index |-> i], due |-> Intervals[c][i]]

NewList(c) ==
  LET n == Len(Intervals[c]) IN [i \in 1 .. n |-> NewPolicy(c, n + 1 - i)]

\* Mutant: the flag is cleared when the list has been built.
BuildClearsFlag ==
  /\ pc = "build"
  /\ list' = NewList(content)
  /\ loaded' = content
  /\ ran' = {}
  /\ updated' = FALSE
  /\ pc' = "listen"
  /\ UNCHANGED <<file, pushing, content, age, last, link, restarts>>

Build ==
  /\ pc = "build"
  /\ list' = NewList(content)
  /\ loaded' = content
  /\ ran' = {}
  /\ pc' = "listen"
  /\ UNCHANGED <<file, updated, pushing, content, age, last, link, restarts>>

NothingNew ==
  /\ pc = "top"
  /\ ~updated
  /\ pc' = "listen"
  /\ UNCHANGED <<config, policies, link, restarts>>

-----------------------------------------------------------------------------
(***************************************************************************)
(* start_listen_command holds g_gateway_mutex from before it connects      *)
(* until it has set the flag (pc = "subscribe"); connection_lost, on a     *)
(* thread of the MQTT library, takes the same mutex to clear it.           *)
(***************************************************************************)
AlreadyConnected ==
  /\ pc = "listen"
  /\ connected
  /\ pc' = "pass"
  /\ UNCHANGED <<config, policies, link, restarts>>

ListenFails ==
  /\ pc = "listen"
  /\ ~connected
  /\ pc' = "pass"
  /\ UNCHANGED <<config, policies, link, restarts>>

ListenConnects ==
  /\ pc = "listen"
  /\ ~connected
  /\ session' = TRUE
  /\ pc' = "subscribe"
  /\ UNCHANGED <<config, policies, connected, lost, restarts>>

ListenDone ==
  /\ pc = "subscribe"
  /\ connected' = TRUE
  /\ pc' = "pass"
  /\ UNCHANGED <<config, policies, session, lost, restarts>>

SessionEnds ==
  /\ session
  /\ session' = FALSE
  /\ lost' = TRUE
  /\ UNCHANGED <<config, policies, pc, connected, restarts>>

\* Mutant: the flag is cleared without the mutex.
ConnectionLostUnlocked ==
  /\ lost
  /\ connected' = FALSE
  /\ lost' = FALSE
  /\ UNCHANGED <<config, policies, pc, session, restarts>>

ConnectionLost ==
  /\ lost
  /\ pc # "subscribe"
  /\ connected' = FALSE
  /\ lost' = FALSE
  /\ UNCHANGED <<config, policies, pc, session, restarts>>

-----------------------------------------------------------------------------
(***************************************************************************)
(* One pass over the list.  The clock is read once, before the pass;       *)
(* execute_policy reads it again for the next run.                         *)
(***************************************************************************)
InsertAt(l, k, p) ==
  [i \in 1 .. Len(l) + 1 |->
     IF i < k THEN l[i] ELSE IF i = k THEN p ELSE l[i - 1]]

\* Mutant: always to the end of the list.
AtEnd(l, d) == {Len(l) + 1}

(* insert_slave_policy: behind the policies that are due earlier, up to    *)
(* the first that is not.                                                  *)
Position(l, d) ==
  {k \in 1 .. Len(l) + 1 :
     /\ \A i \in 1 .. k - 1 : l[i].due < d
     /\ k <= Len(l) => l[k].due >= d}

HeadIsDue == list # << >> /\ Head(list).due + age <= 0

\* Mutant: the policy is put back only if the slave answers.
ExecuteForgets ==
  /\ pc = "pass"
  /\ HeadIsDue
  /\ list' = Tail(list)
  /\ ran' = ran \cup {Head(list).id} /\ last' = Head(list).id
  /\ pc' = "query"
  /\ UNCHANGED <<config, age, link, restarts>>

(* execute_policy puts the policy back before it queries the slave.        *)
Execute ==
  /\ pc = "pass"
  /\ HeadIsDue
  /\ LET p == Head(list).id
         rest == Tail(list)
     IN  /\ \E k \in Position(rest, Interval(p)) :
              list' = InsertAt(rest, k, [id |-> p, due |-> Interval(p)])
         /\ ran' = ran \cup {p}
         /\ last' = p
  /\ pc' = "query"
  /\ UNCHANGED <<config, age, link, restarts>>

Queried ==
  /\ pc = "query"
  /\ pc' = "pass"
  /\ UNCHANGED <<config, policies, link, restarts>>

PassEnds ==
  /\ pc = "pass"
  /\ ~HeadIsDue
  /\ pc' = "sleep"
  /\ age' = 0
  /\ UNCHANGED <<config, list, ran, last, link, restarts>>

Wake ==
  /\ pc = "sleep"
  /\ pc' = "top"
  /\ UNCHANGED <<config, policies, link, restarts>>

-----------------------------------------------------------------------------
(* A second passes.                                                        *)
InPass == pc \in {"pass", "query"}

Sooner(p) == IF p.due > Earliest THEN [p EXCEPT !.due = @ - 1] ELSE p

Tick ==
  /\ InPass => age < MaxPass
  /\ list' = [i \in DOMAIN list |-> Sooner(list[i])]
  /\ age' = IF InPass THEN age + 1 ELSE age
  /\ UNCHANGED <<config, ran, last, pc, link, restarts>>

(* The gateway dies and is started again.  Only the file survives.  The    *)
(* main thread loads the policies and connects, as the loop does, before   *)
(* it starts the worker.                                                   *)
Restart ==
  /\ restarts < MaxRestarts
  /\ restarts' = restarts + 1
  /\ updated' = TRUE /\ pushing' = None /\ content' = None /\ loaded' = None
  /\ list' = << >> /\ age' = 0 /\ ran' = {} /\ last' = None
  /\ connected' = FALSE /\ session' = FALSE /\ lost' = FALSE
  /\ pc' = "top"
  /\ UNCHANGED file

Worker ==
  \/ Read \/ Build \/ NothingNew
  \/ AlreadyConnected \/ ListenFails \/ ListenConnects \/ ListenDone
  \/ Execute \/ Queried \/ PassEnds \/ Wake

Next ==
  \/ \E c \in Config : PushBegin(c)
  \/ PushEnd
  \/ Worker
  \/ SessionEnds \/ ConnectionLost
  \/ Tick
  \/ Restart

Spec == Init /\ [][Next]_vars

(* The threads keep running, queries return and time passes.  Nothing is   *)
(* promised about connections.                                             *)
FairSpec ==
  Spec /\ WF_vars(Worker) /\ WF_vars(PushEnd) /\ WF_vars(ConnectionLost) /\ WF_vars(Tick)

-----------------------------------------------------------------------------
(***************************************************************************)
(* Properties.                                                             *)
(***************************************************************************)
PolicyId == UNION {Policies(c) : c \in Config}

TypeOK ==
  /\ file \in Config \cup {None, Torn}
  /\ updated \in BOOLEAN
  /\ pushing \in Config \cup {None}
  /\ content \in Config \cup {None}
  /\ loaded \in Config \cup {None}
  /\ list \in Seq([id : PolicyId, due : Int])
  /\ pc \in {"top", "build", "listen", "subscribe", "pass", "query", "sleep"}
  /\ age \in 0 .. MaxPass
  /\ ran \subseteq PolicyId
  /\ last \in PolicyId \cup {None}
  /\ connected \in BOOLEAN /\ session \in BOOLEAN /\ lost \in BOOLEAN
  /\ restarts \in Nat

(* No update is lost: with the flag down and no push under way, the worker *)
(* polls what the cache file says, or is just about to.                    *)
LoadedIsLatest ==
  ~updated /\ pushing = None /\ file \in Config =>
    IF pc = "build" THEN content = file ELSE loaded = file

(* A lost connection does not go unnoticed: a raised flag without a        *)
(* session behind it will be cleared, and a connection_lost that is still  *)
(* to come never clears the flag of the session that followed.             *)
LossIsNoticed ==
  /\ connected /\ ~session => lost
  /\ ~(session /\ lost)

(* The list is the loaded configuration: no policy is lost or doubled by   *)
(* the execution of policies.                                              *)
ListIsLoaded ==
  IF loaded = None THEN list = << >>
  ELSE /\ {list[i].id : i \in DOMAIN list} = Policies(loaded)
       /\ Len(list) = Len(Intervals[loaded])

(* "ordered by the nextRun asc so that the head of the list is always the  *)
(* next slave need to execute" (insert_slave_policy).  This takes one      *)
(* round: loading does not order the list.                                 *)
Ordered == \A i, j \in DOMAIN list : i < j => list[i].due <= list[j].due

OrderedAfterFirstRound ==
  loaded # None /\ ran = Policies(loaded) => Ordered

HeadIsNext == \A i \in DOMAIN list : Head(list).due <= list[i].due

(* Why: what was executed since it was loaded has nothing due later in     *)
(* front of it, and a session, or its loss, is somebody's business.        *)
RanInOrder ==
  \A i, j \in DOMAIN list : i < j /\ list[j].id \in ran => list[i].due <= list[j].due

NoTwins == \A i, j \in DOMAIN list : list[i].id = list[j].id => i = j

LinkInv ==
  /\ session \/ lost => connected \/ pc = "subscribe"
  /\ pc = "subscribe" => session \/ lost

WorkerInv ==
  /\ pc = "build" => content \in Config
  /\ ~InPass => age = 0

PolicyInv ==
  /\ TypeOK /\ LoadedIsLatest /\ LossIsNoticed /\ ListIsLoaded
  /\ RanInOrder /\ NoTwins /\ LinkInv /\ WorkerInv

(* An update is loaded, unless another one replaces it.                    *)
UpdatesAreLoaded ==
  \A c \in Config : file = c ~> (loaded = c \/ file # c)

(* Once the cloud pushes nothing more, every loaded policy is polled again *)
(* and again.                                                              *)
EveryPolicyPolled ==
  <>[](pushing = None) =>
    \A p \in PolicyId : []<>((pc = "query" /\ last = p) \/ loaded # p.config)

(* A gateway without a session tries to connect.                           *)
GatewayReconnects == ~session ~> (session \/ (pc = "listen" /\ ~connected))
=============================================================================
