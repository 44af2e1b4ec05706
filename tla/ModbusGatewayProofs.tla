-------------------------- MODULE ModbusGatewayProofs --------------------------
(***************************************************************************)
(* Proofs about ModbusGateway for any configurations, slaves and           *)
(* addresses.  With its contexts the gateway still does what PolicyWorker  *)
(* says, so that all that is proved there holds here; and its contexts     *)
(* lead where the loaded configuration says.                               *)
(***************************************************************************)
EXTENDS ModbusGateway, PolicyWorkerProofs, WellFoundedInduction

(* The smallest element of a set of numbers is one of them.                *)
LEMMA MinIsElement ==
  ASSUME NEW S \in SUBSET Nat, S # {}
  PROVE  Min(S) \in S
  <1> DEFINE R == {pair \in Nat \X Nat : pair[1] < pair[2]}
  <1>1. IsWellFoundedOn(R, Nat)
    BY NatLessThanWellFounded DEF OpToRel
  <1>2. PICK x \in S : \A y \in S : ~ (<<y, x>> \in R)
    <2> HIDE DEF R
    <2> QED
      BY <1>1, WFMin, Zenon
  <1>3. ASSUME NEW y \in S PROVE x <= y
    <2>1. x \in Nat /\ y \in Nat /\ <<y, x>> \notin R
      BY <1>2
    <2>2. ~(y < x)
      BY <2>1
    <2> QED
      BY <2>1, <2>2
  <1> QED
    BY <1>3 DEF Min

-----------------------------------------------------------------------------
(***************************************************************************)
(* The gateway implements PolicyWorker.                                    *)
(***************************************************************************)
LEMMA WorkerStep == [ModbusNext]_modbusVars => [Next]_vars
  <1> SUFFICES ASSUME [ModbusNext]_modbusVars PROVE Next \/ UNCHANGED vars
    OBVIOUS
  <1>1. CASE ModbusWorker
    <2>1. Build \/ Queried \/ WorkerElse
      BY <1>1, Zenon DEF ModbusWorker, Load, NoContext, ReadSucceeds, ReadFails
    <2> QED
      BY <2>1, Zenon DEF WorkerElse, Worker, Next
  <1>2. CASE \E c \in Config : Push(c)
    BY <1>2, Zenon DEF Push, Next
  <1>3. CASE (\E s \in Slave : WriteBegin(s)) \/ WriteEnd
    BY <1>3, Zenon DEF WriteBegin, WriteEnd
  <1>4. CASE \E a \in Address : SlaveGoes(a) \/ SlaveComes(a)
    BY <1>4, Zenon DEF SlaveGoes, SlaveComes
  <1>5. CASE Elsewhere
    BY <1>5, Zenon DEF Elsewhere, Next
  <1>6. CASE GatewayRestarts
    BY <1>6, Zenon DEF GatewayRestarts, Next
  <1>7. CASE UNCHANGED modbusVars
    BY <1>7 DEF modbusVars
  <1> QED
    BY <1>1, <1>2, <1>3, <1>4, <1>5, <1>6, <1>7, Zenon DEF ModbusNext

(* The gateway with its contexts implements the specification of the       *)
(* worker without: what modbuslib.c does keeps no policy from being loaded *)
(* and scheduled as business.c says.                                       *)
THEOREM GatewayIsWorker == ModbusSpec => Spec
  <1>1. ModbusInit => Init
    BY DEF ModbusInit
  <1> QED
    BY <1>1, WorkerStep, PTL DEF ModbusSpec, Spec

(* So the worker's invariant holds of the gateway.                         *)
LEMMA WorkerInvariant == ModbusSpec => []PolicyInv
  BY GatewayIsWorker, PolicyInvHolds, PTL

-----------------------------------------------------------------------------
(***************************************************************************)
(* The inductive invariant of the contexts: the policy that is queried is  *)
(* one of those loaded, so that reconnecting its slave leads to one of     *)
(* their addresses.                                                        *)
(***************************************************************************)
QueriedIsLoaded == pc = "query" => loaded # None /\ last \in Policies(loaded)

ContextInv == ContextsTyped /\ ConnectionsArePolled /\ QueriedIsLoaded

LEMMA PolicyPlace ==
  ASSUME NEW c \in Config, NEW p \in Policies(c)
  PROVE  /\ p \in PolicyId /\ p.config = c
         /\ SlaveId(p) \in Slave /\ Addr(p) \in Address
  <1>1. p \in PolicyId
    BY DEF PolicyId
  <1>2. p.config = c /\ p.index \in DOMAIN Intervals[c]
    BY DEF Policies
  <1> QED
    BY <1>1, <1>2, ContextAssumption DEF SlaveId, Addr

LEMMA OpenFacts ==
  ASSUME NEW a \in Address
  PROVE  /\ Open(a) \in Context \cup {None}
         /\ Open(a) # None => Open(a).addr = a /\ Open(a).open /\ a \in up \cup Serial
  BY DEF Open, Context

(* Loading connects each slave at the address of one of its policies.      *)
LEMMA ContextsForFacts ==
  ASSUME NEW c \in Config
  PROVE  /\ ContextsFor(c) \in [Slave -> Context \cup {None}]
         /\ \A s \in Slave : ContextsFor(c)[s] # None =>
              \E p \in Policies(c) : SlaveId(p) = s /\ Addr(p) = ContextsFor(c)[s].addr
  <1>1. ASSUME NEW s \in Slave, Reachable(c, s) # {}
        PROVE  \E p \in Policies(c) :
                 /\ SlaveId(p) = s /\ Addr(p) \in Address
                 /\ ContextsFor(c)[s] = Open(Addr(p))
    <2> DEFINE i == Min(Reachable(c, s))
               p == [config |-> c, index |-> i]
    <2>1. Reachable(c, s) \subseteq DOMAIN Intervals[c] /\ DOMAIN Intervals[c] \subseteq Nat
      BY PolicyAssumption, ContextAssumption DEF Reachable
    <2>2. i \in Reachable(c, s)
      BY <1>1, <2>1, MinIsElement
    <2> HIDE DEF i
    <2>3. i \in DOMAIN Intervals[c] /\ Slaves[c][i] = s
      BY <2>1, <2>2 DEF Reachable
    <2>4. p \in Policies(c) /\ SlaveId(p) = s /\ Addr(p) = Addresses[c][i]
      BY <2>3 DEF Policies, SlaveId, Addr
    <2>5. ContextsFor(c)[s] = Open(Addresses[c][i])
      BY <1>1 DEF ContextsFor, i
    <2> QED
      BY <2>4, <2>5, PolicyPlace
  <1>2. ASSUME NEW s \in Slave
        PROVE  /\ ContextsFor(c)[s] \in Context \cup {None}
               /\ ContextsFor(c)[s] # None =>
                    \E p \in Policies(c) : SlaveId(p) = s /\ Addr(p) = ContextsFor(c)[s].addr
    <2>1. CASE Reachable(c, s) = {}
      BY <2>1 DEF ContextsFor
    <2>2. CASE Reachable(c, s) # {}
      <3>1. PICK p \in Policies(c) : /\ SlaveId(p) = s /\ Addr(p) \in Address
                                     /\ ContextsFor(c)[s] = Open(Addr(p))
        BY <1>1, <2>2
      <3>2. Open(Addr(p)) \in Context \cup {None}
            /\ (Open(Addr(p)) # None => Open(Addr(p)).addr = Addr(p))
        BY <3>1, OpenFacts
      <3> QED
        BY <3>1, <3>2
    <2> QED
      BY <2>1, <2>2
  <1>3. ContextsFor(c) = [s \in Slave |-> ContextsFor(c)[s]]
    BY DEF ContextsFor
  <1> QED
    BY <1>2, <1>3

-----------------------------------------------------------------------------
(* One lemma per kind of step.                                             *)
LEMMA ContextInit == ModbusInit => ContextInv
  BY DEF ModbusInit, Init, ContextInv, ContextsTyped, ConnectionsArePolled, QueriedIsLoaded,
         Context

Writer == [slave : Slave, addr : Address, freed : BOOLEAN]

LEMMA FreedFacts ==
  ASSUME NEW w \in Writer \cup {None}
  PROVE  /\ Freed(w) \in Writer \cup {None}
         /\ Freed(w) # None => Freed(w).freed
  BY ContextAssumption DEF Freed, Writer

LEMMA LoadStep ==
  ASSUME PolicyInv, ContextInv, Load
  PROVE  ContextInv'
  <1> USE DEF Load
  <1>1. content \in Config /\ loaded' = content /\ content # None /\ pc' = "listen"
    BY PolicyAssumption DEF PolicyInv, WorkerInv, Build
  <1>2. ctx' \in [Slave -> Context \cup {None}]
    BY <1>1, ContextsForFacts
  <1>3. writer' \in Writer \cup {None} /\ (writer' # None => writer'.freed)
    BY FreedFacts DEF ContextInv, ContextsTyped, Writer
  <1>4. ContextsTyped'
    BY <1>2, <1>3 DEF ContextInv, ContextsTyped, Writer
  <1>5. \A s \in Slave : ctx'[s] # None => Polled(s, ctx[s].addr)'
    BY <1>1, ContextsForFacts DEF Polled
  <1>6. ConnectionsArePolled'
    BY <1>3, <1>5 DEF ConnectionsArePolled
  <1>7. QueriedIsLoaded'
    BY <1>1 DEF QueriedIsLoaded
  <1> QED
    BY <1>4, <1>6, <1>7 DEF ContextInv

(* What read_modbus knows when it is called, and the context it uses.      *)
LEMMA UsedFacts ==
  ASSUME PolicyInv, ContextInv, Queried
  PROVE  /\ loaded \in Config /\ last \in Policies(loaded) /\ last \in PolicyId
         /\ SlaveId(last) \in Slave /\ Addr(last) \in Address
         /\ Polled(SlaveId(last), Addr(last))
         /\ Used \in Context \cup {None}
         /\ Used # None => Polled(SlaveId(last), Used.addr)
  <1>1. loaded \in Config /\ loaded # None /\ last \in Policies(loaded)
    BY DEF PolicyInv, TypeOK, ContextInv, QueriedIsLoaded, Queried
  <1>2. last \in PolicyId /\ SlaveId(last) \in Slave /\ Addr(last) \in Address
    BY <1>1, PolicyPlace
  <1>3. Polled(SlaveId(last), Addr(last))
    BY <1>1 DEF Polled
  <1>4. CASE ctx[SlaveId(last)] # None
    BY <1>1, <1>2, <1>3, <1>4 DEF Used, ContextInv, ContextsTyped, ConnectionsArePolled
  <1>5. CASE ctx[SlaveId(last)] = None
    <2>1. Used = Open(Addr(last))
      BY <1>5 DEF Used
    <2> QED
      BY <1>1, <1>2, <1>3, <2>1, OpenFacts
  <1> QED
    BY <1>1, <1>2, <1>3, <1>4, <1>5

LEMMA QueriedKeepsPolicies ==
  ASSUME Queried
  PROVE  loaded' = loaded /\ last' = last /\ pc' = "pass" /\ QueriedIsLoaded'
  BY DEF Queried, config, policies, QueriedIsLoaded

LEMMA NoContextStep ==
  ASSUME PolicyInv, ContextInv, NoContext
  PROVE  ContextInv'
  <1> USE DEF NoContext
  <1>1. loaded' = loaded /\ QueriedIsLoaded'
    BY QueriedKeepsPolicies
  <1>2. ContextsTyped'
    BY DEF ContextInv, ContextsTyped
  <1>3. ConnectionsArePolled'
    BY <1>1 DEF ContextInv, ConnectionsArePolled, Polled
  <1> QED
    BY <1>1, <1>2, <1>3 DEF ContextInv

LEMMA ReadSucceedsStep ==
  ASSUME PolicyInv, ContextInv, ReadSucceeds
  PROVE  ContextInv'
  <1> USE DEF ReadSucceeds
  <1>1. loaded' = loaded /\ QueriedIsLoaded'
    BY QueriedKeepsPolicies
  <1> DEFINE s == SlaveId(last)
  <1>2. s \in Slave /\ Used \in Context /\ Polled(s, Used.addr) /\ last \in PolicyId
    BY UsedFacts
  <1>3. /\ ctx \in [Slave -> Context \cup {None}]
        /\ ctx' = [ctx EXCEPT ![s] = Used]
    BY DEF ContextInv, ContextsTyped
  <1>4. ctx' \in [Slave -> Context \cup {None}]
        /\ ctx'[s] = Used /\ (\A t \in Slave : t # s => ctx'[t] = ctx[t])
    BY <1>2, <1>3
  <1>5. ContextsTyped'
    BY <1>2, <1>4 DEF ContextInv, ContextsTyped, Context
  <1>6. \A t \in Slave, a \in Address : Polled(t, a)' <=> Polled(t, a)
    BY <1>1 DEF Polled
  <1>7. \A t \in Slave : ctx'[t] # None => Polled(t, ctx'[t].addr)
    BY <1>2, <1>4 DEF ContextInv, ConnectionsArePolled
  <1>8. writer # None /\ ~writer.freed =>
          /\ writer.slave \in Slave
          /\ ctx'[writer.slave] # None /\ ctx'[writer.slave].addr = writer.addr
    <2> SUFFICES ASSUME writer # None, ~writer.freed
                 PROVE  /\ writer.slave \in Slave
                        /\ ctx'[writer.slave] # None
                        /\ ctx'[writer.slave].addr = writer.addr
      OBVIOUS
    <2>1. writer.slave \in Slave /\ ctx[writer.slave] # None
          /\ ctx[writer.slave].addr = writer.addr
      BY DEF ContextInv, ContextsTyped, ConnectionsArePolled
    <2>2. writer.slave = s => Used = ctx[s]
      BY <2>1 DEF Used
    <2> QED
      BY <1>4, <2>1, <2>2
  <1>9. ConnectionsArePolled'
    BY <1>1, <1>7, <1>8 DEF ConnectionsArePolled, Polled
  <1> QED
    BY <1>1, <1>5, <1>9 DEF ContextInv

LEMMA ReadFailsStep ==
  ASSUME PolicyInv, ContextInv, ReadFails
  PROVE  ContextInv'
  <1> USE DEF ReadFails
  <1>1. loaded' = loaded /\ QueriedIsLoaded'
    BY QueriedKeepsPolicies
  <1> DEFINE s == SlaveId(last)
             new == Open(Addr(last))
  <1>2. s \in Slave /\ Addr(last) \in Address /\ Polled(s, Addr(last))
    BY UsedFacts
  <1>3. new \in Context \cup {None} /\ (new # None => new.addr = Addr(last))
    BY <1>2, OpenFacts
  <1>4. /\ ctx' \in [Slave -> Context \cup {None}]
        /\ ctx'[s] = new /\ (\A t \in Slave : t # s => ctx'[t] = ctx[t])
    BY <1>2, <1>3 DEF ContextInv, ContextsTyped
  <1>5. /\ writer' \in Writer \cup {None}
        /\ writer' # None /\ ~writer'.freed => writer' = writer /\ writer.slave # s
    BY FreedFacts DEF ContextInv, ContextsTyped, Writer, FreedBy
  <1>6. events' \in Nat
    BY DEF Fails, ContextInv, ContextsTyped
  <1>7. ContextsTyped'
    BY <1>4, <1>5, <1>6 DEF ContextInv, ContextsTyped, Writer
  <1>8. \A t \in Slave : ctx'[t] # None => Polled(t, ctx'[t].addr)
    BY <1>2, <1>3, <1>4 DEF ContextInv, ConnectionsArePolled
  <1>9. writer' # None /\ ~writer'.freed =>
          /\ ctx'[writer'.slave] # None /\ ctx'[writer'.slave].addr = writer'.addr
    BY <1>4, <1>5 DEF ContextInv, ContextsTyped, ConnectionsArePolled
  <1>10. ConnectionsArePolled'
    BY <1>1, <1>8, <1>9 DEF ConnectionsArePolled, Polled
  <1> QED
    BY <1>1, <1>7, <1>10 DEF ContextInv

(* Other steps of the worker change neither contexts nor what is loaded.   *)
LEMMA ElseStep ==
  ASSUME PolicyInv, ContextInv,
         WorkerElse \/ Elsewhere \/ \E c \in Config : Push(c)
  PROVE  ContextInv'
  <1>1. UNCHANGED contexts /\ loaded' = loaded
    BY DEF WorkerElse, Elsewhere, Push, Read, NothingNew, AlreadyConnected, ListenFails,
           ListenConnects, ListenDone, Execute, PassEnds, Wake, PushBegin, PushEnd,
           SessionEnds, ConnectionLost, Tick, config
  <1>2. QueriedIsLoaded'
    <2>1. CASE Execute
      <3>1. last' = Head(list).id /\ list # << >> /\ list \in Seq([id : PolicyId, due : Int])
        BY <2>1 DEF Execute, HeadIsDue, PolicyInv, TypeOK
      <3>2. 1 \in DOMAIN list /\ Head(list) = list[1]
        BY <3>1
      <3>3. loaded # None /\ last' \in Policies(loaded)
        BY <3>1, <3>2 DEF PolicyInv, ListIsLoaded
      <3> QED
        BY <1>1, <3>3 DEF QueriedIsLoaded
    <2>2. CASE ~Execute
      <3>1. pc' = "query" => pc = "query" /\ last' = last
        BY <2>2 DEF WorkerElse, Elsewhere, Push, Read, NothingNew, AlreadyConnected,
                    ListenFails, ListenConnects, ListenDone, PassEnds, Wake, PushBegin,
                    PushEnd, SessionEnds, ConnectionLost, Tick, policies
      <3> QED
        BY <1>1, <3>1 DEF ContextInv, QueriedIsLoaded
    <2> QED
      BY <2>1, <2>2
  <1>3. ContextsTyped' /\ ConnectionsArePolled'
    BY <1>1 DEF contexts, ContextInv, ContextsTyped, ConnectionsArePolled, Polled
  <1> QED
    BY <1>2, <1>3 DEF ContextInv

LEMMA WriteStep ==
  ASSUME PolicyInv, ContextInv, (\E s \in Slave : WriteBegin(s)) \/ WriteEnd
  PROVE  ContextInv'
  <1>1. UNCHANGED <<vars, ctx, up, payload>> /\ events' \in Nat
    BY DEF WriteBegin, WriteEnd, ContextInv, ContextsTyped
  <1>2. UNCHANGED <<loaded, pc, last>>
    BY <1>1 DEF vars, config, policies
  <1>3. writer' # None =>
          /\ writer' \in Writer
          /\ ctx[writer'.slave] # None /\ ctx[writer'.slave].addr = writer'.addr
    <2>1. CASE WriteEnd
      BY <2>1 DEF WriteEnd
    <2>2. ASSUME NEW s \in Slave, WriteBegin(s)
          PROVE  /\ writer' \in Writer /\ writer'.slave = s
                 /\ ctx[s] # None /\ ctx[s].addr = writer'.addr
      BY <2>2 DEF WriteBegin, ContextInv, ContextsTyped, Context, Writer
    <2> QED
      BY <2>1, <2>2
  <1>4. ContextsTyped'
    BY <1>1, <1>3 DEF ContextInv, ContextsTyped, Writer
  <1>5. ConnectionsArePolled'
    BY <1>1, <1>2, <1>3 DEF ContextInv, ConnectionsArePolled, Polled
  <1>6. QueriedIsLoaded'
    BY <1>2 DEF ContextInv, QueriedIsLoaded
  <1> QED
    BY <1>4, <1>5, <1>6 DEF ContextInv

LEMMA SlaveStep ==
  ASSUME PolicyInv, ContextInv, \E a \in Address : SlaveGoes(a) \/ SlaveComes(a)
  PROVE  ContextInv'
  <1>1. UNCHANGED <<vars, payload, writer>> /\ up' \subseteq Address /\ events' \in Nat
    BY DEF SlaveGoes, SlaveComes, ContextInv, ContextsTyped
  <1>2. UNCHANGED <<loaded, pc, last>>
    BY <1>1 DEF vars, config, policies
  <1>3. ASSUME NEW a \in Address, NEW k \in Context \cup {None}
        PROVE  /\ Break(k, a) \in Context \cup {None}
               /\ Break(k, a) # None <=> k # None
               /\ k # None => Break(k, a).addr = k.addr
    <2> DEFINE b == a \in Serial
    <2>1. b \in BOOLEAN
      OBVIOUS
    <2>2. Break(k, a) = IF k # None /\ k.addr = a THEN [k EXCEPT !.open = b] ELSE k
      BY DEF Break
    <2>3. None \notin Context
      BY ContextAssumption DEF Context
    <2> HIDE DEF b
    <2> QED
      BY <2>1, <2>2, <2>3 DEF Context
  <1>4. /\ ctx' \in [Slave -> Context \cup {None}]
        /\ \A s \in Slave : /\ ctx'[s] # None <=> ctx[s] # None
                            /\ ctx[s] # None => ctx'[s].addr = ctx[s].addr
    <2>1. CASE UNCHANGED ctx
      BY <2>1 DEF ContextInv, ContextsTyped
    <2>2. ASSUME NEW a \in Address, SlaveGoes(a)
          PROVE  <1>4!1 /\ <1>4!2
      BY <1>3, <2>2 DEF SlaveGoes, ContextInv, ContextsTyped
    <2> QED
      BY <2>1, <2>2 DEF SlaveComes
  <1>5. ContextsTyped'
    BY <1>1, <1>4 DEF ContextInv, ContextsTyped
  <1>6. ConnectionsArePolled'
    BY <1>1, <1>2, <1>4 DEF ContextInv, ContextsTyped, ConnectionsArePolled, Polled
  <1>7. QueriedIsLoaded'
    BY <1>2 DEF ContextInv, QueriedIsLoaded
  <1> QED
    BY <1>5, <1>6, <1>7 DEF ContextInv

LEMMA GatewayRestartStep ==
  ASSUME PolicyInv, ContextInv, GatewayRestarts
  PROVE  ContextInv'
  <1>1. pc' = "top"
    BY DEF GatewayRestarts, Restart
  <1> QED
    BY <1>1 DEF GatewayRestarts, ContextInv, ContextsTyped, ConnectionsArePolled,
                QueriedIsLoaded

LEMMA ContextNext ==
  PolicyInv /\ ContextInv /\ [ModbusNext]_modbusVars => ContextInv'
  <1> SUFFICES ASSUME PolicyInv, ContextInv, [ModbusNext]_modbusVars PROVE ContextInv'
    OBVIOUS
  <1>1. CASE ModbusWorker
    BY <1>1, LoadStep, NoContextStep, ReadSucceedsStep, ReadFailsStep, ElseStep
       DEF ModbusWorker
  <1>2. CASE (\E c \in Config : Push(c)) \/ Elsewhere
    BY <1>2, ElseStep
  <1>3. CASE (\E s \in Slave : WriteBegin(s)) \/ WriteEnd
    BY <1>3, WriteStep
  <1>4. CASE \E a \in Address : SlaveGoes(a) \/ SlaveComes(a)
    BY <1>4, SlaveStep
  <1>5. CASE GatewayRestarts
    BY <1>5, GatewayRestartStep
  <1>6. CASE UNCHANGED modbusVars
    BY <1>6 DEF modbusVars, vars, contexts, config, policies, ContextInv, ContextsTyped,
                ConnectionsArePolled, Polled, QueriedIsLoaded
  <1> QED
    BY <1>1, <1>2, <1>3, <1>4, <1>5, <1>6 DEF ModbusNext

-----------------------------------------------------------------------------
(* The invariant of the contexts holds of every behaviour.                 *)
THEOREM ContextInvHolds == ModbusSpec => []ContextInv
  <1> QED
    BY ContextInit, ContextNext, WorkerInvariant, PTL DEF ModbusSpec

(* Every variable of the contexts keeps its type.                          *)
THEOREM ContextTypesHold == ModbusSpec => []ContextsTyped
  <1>1. ContextInv => ContextsTyped
    BY DEF ContextInv
  <1> QED
    BY ContextInvHolds, <1>1, PTL

(* Whatever is loaded, lost and opened anew, a context leads to an address *)
(* that the loaded configuration has for its slave, and a write uses such  *)
(* a context or one that was freed under it.                               *)
THEOREM ContextsFollowPolicies == ModbusSpec => []ConnectionsArePolled
  <1>1. ContextInv => ConnectionsArePolled
    BY DEF ContextInv
  <1> QED
    BY ContextInvHolds, <1>1, PTL

(* What is published for a policy is an answer just read over a context of *)
(* its slave, unless there is no connection.                               *)
THEOREM OnlyAnswersArePublished == ModbusSpec => PublishedIsRead
  <1> DEFINE Fresh == Publishes =>
               \/ payload' \in [of : {last}, from : {a \in Address : Polled(SlaveId(last), a)}]
               \/ ctx'[SlaveId(last)] = None /\ Addr(last) \notin up \cup Serial
  <1>1. PolicyInv /\ ContextInv /\ [ModbusNext]_modbusVars => [Fresh]_modbusVars
    <2> SUFFICES ASSUME PolicyInv, ContextInv, ModbusNext, Publishes
                 PROVE  Fresh
      OBVIOUS
    <2> HIDE DEF Fresh
    <2>1. NoContext \/ ReadSucceeds \/ ReadFails
      BY DEF Publishes, ModbusNext, ModbusWorker, Load, Build, WorkerElse, Elsewhere, Push,
             Read, NothingNew, AlreadyConnected, ListenFails, ListenConnects, ListenDone,
             Execute, PassEnds, Wake, PushBegin, PushEnd, SessionEnds, ConnectionLost, Tick,
             WriteBegin, WriteEnd, SlaveGoes, SlaveComes, GatewayRestarts, Restart, vars
    <2>2. CASE NoContext
      <3>1. ctx[SlaveId(last)] = None /\ Open(Addr(last)) = None
        BY <2>2 DEF NoContext, Used
      <3>2. Addr(last) \in Address
        BY <2>2, UsedFacts DEF NoContext
      <3>3. [addr |-> Addr(last), open |-> TRUE] # None
        <4>1. [addr |-> Addr(last), open |-> TRUE] \in [addr : Address, open : BOOLEAN]
          BY <3>2
        <4> QED
          BY <4>1, ContextAssumption, Zenon
      <3> QED
        BY <2>2, <3>1, <3>3 DEF NoContext, Open, Fresh
    <2>3. CASE ReadSucceeds
      <3>1. Used \in Context /\ Polled(SlaveId(last), Used.addr)
        BY <2>3, UsedFacts DEF ReadSucceeds
      <3>2. payload' = [of |-> last, from |-> Used.addr] /\ Used.addr \in Address
        BY <2>3, <3>1 DEF ReadSucceeds, Context
      <3> QED
        BY <3>1, <3>2 DEF Fresh
    <2>4. CASE ReadFails
      BY <2>4 DEF ReadFails, Publishes
    <2> QED
      BY <2>1, <2>2, <2>3, <2>4
  <1> QED
    BY <1>1, ContextInvHolds, WorkerInvariant, PTL DEF ModbusSpec, PublishedIsRead
=============================================================================
