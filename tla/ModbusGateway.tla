---------------------------- MODULE ModbusGateway ----------------------------
(***************************************************************************)
(* The polling worker of PolicyWorker together with the connections it     *)
(* polls over (modbuslib.c).  There is one context per slave id, whatever  *)
(* the number and the addresses of the policies for that slave.  The       *)
(* worker opens, closes and uses contexts; the MQTT thread takes one from  *)
(* the table, without a lock, to write to a slave (write_modbus).          *)
(*                                                                         *)
(* Modelled is the build without _WIN32, where no two slave ids share a    *)
(* context.  Policies have one of the four function codes for reading.     *)
(***************************************************************************)
EXTENDS PolicyWorker, FiniteSetsExt

CONSTANTS
  Slave,        \* slave ids
  Address,      \* where slaves are reached: host and port, or a serial port
  Serial,       \* those that are serial ports: opening one always succeeds
  Slaves,       \* Slaves[c]: the slave id of each policy of c
  Addresses,    \* Addresses[c]: the address of each policy of c
  Garbage,      \* what the buffer on the stack holds before it is written
  MaxEvents     \* bound: slaves going away, failures of their own, and writes

ASSUME ContextAssumption ==
  /\ Serial \subseteq Address
  /\ \A c \in Config :
       /\ Slaves[c] \in [DOMAIN Intervals[c] -> Slave]
       /\ Addresses[c] \in [DOMAIN Intervals[c] -> Address]
  /\ None \notin [addr : Address, open : BOOLEAN]
  /\ None \notin [slave : Slave, addr : Address, freed : BOOLEAN]
  /\ None \notin [of : PolicyId, from : Address] \cup {Garbage}

VARIABLES
  ctx,      \* g_modbus_ctxs: per slave id a connection or None
  up,       \* the addresses at which a slave answers
  payload,  \* execute_policy's buffer: empty (None), an answer, or Garbage
  writer,   \* the MQTT thread in write_modbus: the context it uses
  events    \* events so far

contexts == <<ctx, up, payload, writer, events>>
modbusVars == <<vars, contexts>>

SlaveId(p) == Slaves[p.config][p.index]
Addr(p) == Addresses[p.config][p.index]

Context == [addr : Address, open : BOOLEAN]

(* init_modbus_context, where no context is there yet.                     *)
Open(a) == IF a \in up \cup Serial THEN [addr |-> a, open |-> TRUE] ELSE None

ModbusInit ==
  /\ Init
  /\ ctx = [s \in Slave |-> None]
  /\ up \in SUBSET Address
  /\ payload = Garbage
  /\ writer = None
  /\ events = 0

-----------------------------------------------------------------------------
(***************************************************************************)
(* Loading policies: cleanup_modbus_ctxs, then init_modbus_context for     *)
(* each policy in turn, which does nothing for a slave that has a context. *)
(* A writer that has taken a context keeps its pointer.                    *)
(***************************************************************************)
Reachable(c, s) ==
  {i \in DOMAIN Slaves[c] : Slaves[c][i] = s /\ Addresses[c][i] \in up \cup Serial}

\* Mutant: the table is filled by the number of the policy.
ContextsByPolicy(c) == [i \in DOMAIN Slaves[c] |-> Open(Addresses[c][i])]

ContextsFor(c) ==
  [s \in Slave |-> IF Reachable(c, s) = {} THEN None
                   ELSE Open(Addresses[c][Min(Reachable(c, s))])]

Freed(w) == IF w = None THEN None ELSE [w EXCEPT !.freed = TRUE]

\* Mutant: cleanup_data does not clean up the contexts.
LoadOverOldContexts ==
  /\ Build
  /\ ctx' = [s \in Slave |-> IF ctx[s] # None THEN ctx[s] ELSE ContextsFor(content)[s]]
  /\ UNCHANGED <<up, payload, writer, events>>

Load ==
  /\ Build
  /\ ctx' = ContextsFor(content)
  /\ writer' = Freed(writer)
  /\ UNCHANGED <<up, payload, events>>

-----------------------------------------------------------------------------
(***************************************************************************)
(* read_modbus for the policy that is being executed, and what             *)
(* execute_policy does with the buffer: it is published unless it is       *)
(* empty.  A slave without a context is connected first.                   *)
(***************************************************************************)
Used == IF ctx[SlaveId(last)] # None THEN ctx[SlaveId(last)] ELSE Open(Addr(last))

(* The buffer is not touched: execute_policy finds in it what was there    *)
(* before the call, whatever that is now.                                  *)
NoContext ==
  /\ Queried
  /\ Used = None
  /\ payload' \in {payload, Garbage, None}
  /\ UNCHANGED <<ctx, up, writer, events>>

ReadSucceeds ==
  /\ Queried
  /\ Used # None
  /\ Used.open /\ Used.addr \in up
  /\ payload' = [of |-> last, from |-> Used.addr]
  /\ ctx' = [ctx EXCEPT ![SlaveId(last)] = Used]
  /\ UNCHANGED <<up, writer, events>>

(* The connection is broken, the slave is silent or answers with an        *)
(* exception, or a write on the same connection has confused the answers.  *)
Fails ==
  \/ ~(Used.open /\ Used.addr \in up) /\ UNCHANGED events
  \/ writer # None /\ writer.slave = SlaveId(last) /\ UNCHANGED events
  \/ events < MaxEvents /\ events' = events + 1

FreedBy(s) == IF writer # None /\ writer.slave = s THEN Freed(writer) ELSE writer

\* Mutant: the buffer is not emptied before the read.
ReadFailsKeepsPayload ==
  /\ Queried
  /\ Used # None
  /\ Fails
  /\ ctx' = [ctx EXCEPT ![SlaveId(last)] = Open(Addr(last))]
  /\ writer' = FreedBy(SlaveId(last))
  /\ UNCHANGED <<up, payload>>

\* Mutant: the table keeps the context, so that it counts as initialized.
ReadFailsKeepsContext ==
  /\ Queried
  /\ Used # None
  /\ Fails
  /\ payload' = None
  /\ ctx' = [ctx EXCEPT ![SlaveId(last)] = Used]
  /\ UNCHANGED <<up, writer>>

(* handle_read_modbus_error: close, free, and connect again, to the        *)
(* address of this policy.                                                 *)
ReadFails ==
  /\ Queried
  /\ Used # None
  /\ Fails
  /\ payload' = None
  /\ ctx' = [ctx EXCEPT ![SlaveId(last)] = Open(Addr(last))]
  /\ writer' = FreedBy(SlaveId(last))
  /\ UNCHANGED up

-----------------------------------------------------------------------------
(***************************************************************************)
(* handle_back_control_msg calls write_modbus for each request of a        *)
(* message, on the MQTT thread, which handles one message at a time.  It   *)
(* looks the context up and then uses it; the worker may free it between.  *)
(* Whatever comes of using freed memory, the gateway's death included      *)
(* (Restart), the write does not reach a slave.                            *)
(***************************************************************************)
WriteBegin(s) ==
  /\ session
  /\ pushing = None /\ writer = None
  /\ ctx[s] # None
  /\ events < MaxEvents
  /\ events' = events + 1
  /\ writer' = [slave |-> s, addr |-> ctx[s].addr, freed |-> FALSE]
  /\ UNCHANGED <<vars, ctx, up, payload>>

WriteEnd ==
  /\ writer # None
  /\ writer' = None
  /\ UNCHANGED <<vars, ctx, up, payload, events>>

Push(c) ==
  /\ PushBegin(c)
  /\ writer = None
  /\ UNCHANGED contexts

-----------------------------------------------------------------------------
(* A slave goes away, which breaks its TCP connections, and comes back.    *)
Break(k, a) == IF k # None /\ k.addr = a THEN [k EXCEPT !.open = a \in Serial] ELSE k

SlaveGoes(a) ==
  /\ a \in up
  /\ events < MaxEvents
  /\ events' = events + 1
  /\ up' = up \ {a}
  /\ ctx' = [s \in Slave |-> Break(ctx[s], a)]
  /\ UNCHANGED <<vars, payload, writer>>

SlaveComes(a) ==
  /\ a \notin up
  /\ up' = up \cup {a}
  /\ UNCHANGED <<vars, ctx, payload, writer, events>>

(* init_modbus_ctxs.                                                       *)
GatewayRestarts ==
  /\ Restart
  /\ ctx' = [s \in Slave |-> None]
  /\ payload' = Garbage
  /\ writer' = None
  /\ UNCHANGED <<up, events>>

(* What has nothing to do with contexts.                                   *)
WorkerElse ==
  /\ \/ Read \/ NothingNew
     \/ AlreadyConnected \/ ListenFails \/ ListenConnects \/ ListenDone
     \/ Execute \/ PassEnds \/ Wake
  /\ UNCHANGED contexts

ModbusWorker ==
  Load \/ NoContext \/ ReadSucceeds \/ ReadFails \/ WorkerElse

Elsewhere ==
  /\ PushEnd \/ SessionEnds \/ ConnectionLost \/ Tick
  /\ UNCHANGED contexts

ModbusNext ==
  \/ ModbusWorker
  \/ \E c \in Config : Push(c)
  \/ \E s \in Slave : WriteBegin(s)
  \/ WriteEnd
  \/ \E a \in Address : SlaveGoes(a) \/ SlaveComes(a)
  \/ Elsewhere
  \/ GatewayRestarts

ModbusSpec == ModbusInit /\ [][ModbusNext]_modbusVars

(* As in PolicyWorker; a write returns.  No slave is promised to come back.*)
ModbusFairSpec ==
  /\ ModbusSpec
  /\ WF_modbusVars(ModbusWorker)
  /\ WF_modbusVars(PushEnd /\ UNCHANGED contexts)
  /\ WF_modbusVars(ConnectionLost /\ UNCHANGED contexts)
  /\ WF_modbusVars(Tick /\ UNCHANGED contexts)
  /\ WF_modbusVars(WriteEnd)

-----------------------------------------------------------------------------
(***************************************************************************)
(* Properties.                                                             *)
(***************************************************************************)
ContextsTyped ==
  /\ ctx \in [Slave -> Context \cup {None}]
  /\ up \subseteq Address
  /\ payload \in [of : PolicyId, from : Address] \cup {Garbage, None}
  /\ writer \in [slave : Slave, addr : Address, freed : BOOLEAN] \cup {None}
  /\ events \in Nat

(* The loaded configuration polls slave s at address a.                    *)
Polled(s, a) ==
  /\ loaded # None
  /\ \E p \in Policies(loaded) : SlaveId(p) = s /\ Addr(p) = a

(* A context leads where the loaded configuration says, also when it was   *)
(* opened anew or the configuration has replaced another; and a write goes *)
(* where the slave's readings come from ("the slaveid must within the      *)
(* slaveis that the gateway is pulling data from"), or over a context that *)
(* was freed meanwhile.  When the policies of a slave id disagree on its   *)
(* address, one of them wins.                                              *)
ConnectionsArePolled ==
  /\ \A s \in Slave : ctx[s] # None => Polled(s, ctx[s].addr)
  /\ writer # None /\ ~writer.freed => /\ ctx[writer.slave] # None
                                       /\ ctx[writer.slave].addr = writer.addr

(* What is published for a policy is what its slave has just answered; but *)
(* where there is no connection and none can be made, it may be anything   *)
(* that was in the buffer, the answer of another slave for one.            *)
Publishes == pc = "query" /\ pc' = "pass" /\ payload' # None

PublishedIsRead ==
  [][Publishes =>
       \/ payload' \in [of : {last}, from : {a \in Address : Polled(SlaveId(last), a)}]
       \/ ctx'[SlaveId(last)] = None /\ Addr(last) \notin up \cup Serial]_modbusVars

(* "auto reconnect if necessary" (modbuslib.h): once the faults are over,  *)
(* each policy of a slave that is there is answered again and again, while *)
(* the configuration stays.                                                *)
Answered(p) == pc = "pass" /\ last = p /\ payload \in [of : {p}, from : Address]

SlavesAreRead ==
  \A p \in PolicyId :
    <>[](loaded = p.config /\ pushing = None /\ Addr(p) \in up) => []<>Answered(p)
=============================================================================
