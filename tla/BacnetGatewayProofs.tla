-------------------------- MODULE BacnetGatewayProofs --------------------------
(***************************************************************************)
(* Proofs about the BACnet gateway as a whole: each of its steps is one of *)
(* the devices' side, of the connection's, or of both, so that what holds  *)
(* of each side alone holds of the gateway, for any devices, any size of   *)
(* the tables and of the cache, and any traffic.                           *)
(***************************************************************************)
EXTENDS BacnetGateway, BacnetDeviceProofs, BacnetLinkProofs

(* The inductive invariants of the two sides, together.                    *)
GatewayInv == DeviceInv /\ LinkInv

LEMMA DevicesStep == [Next]_vars => [DeviceNext]_dvars
  <1> SUFFICES ASSUME [Next]_vars PROVE DeviceNext \/ UNCHANGED dvars
    OBVIOUS
  <1>1. CASE Devices
    BY <1>1, Zenon DEF Devices, DeviceNext
  <1>2. CASE Report
    BY <1>2, Zenon DEF Report
  <1>3. CASE Outside
    BY <1>3, Zenon DEF Outside, DeviceNext, OutsideStep
  <1>4. CASE Link
    BY <1>4, Zenon DEF Link
  <1>5. CASE UNCHANGED vars
    BY <1>5 DEF vars
  <1> QED
    BY <1>1, <1>2, <1>3, <1>4, <1>5, Zenon DEF Next

LEMMA LinkStep == [Next]_vars => [LinkNext]_lvars
  <1> SUFFICES ASSUME [Next]_vars PROVE LinkNext \/ UNCHANGED lvars
    OBVIOUS
  <1>1. CASE Devices
    BY <1>1, Zenon DEF Devices, PublishIfAny, LinkNext
  <1>2. CASE Report
    BY <1>2, Zenon DEF Report, LinkNext
  <1>3. CASE Outside
    BY <1>3, Zenon DEF Outside
  <1>4. CASE Link
    BY <1>4, Zenon DEF Link, LinkNext
  <1>5. CASE UNCHANGED vars
    BY <1>5 DEF vars
  <1> QED
    BY <1>1, <1>2, <1>3, <1>4, <1>5, Zenon DEF Next

(* Seen from the devices, the gateway does nothing but what BacnetDevice   *)
(* says: it implements the specification of that side.                     *)
THEOREM GatewayIsDevices == SafetySpec => DeviceSpec
  <1>1. Init => DeviceInit
    BY DEF Init
  <1> QED
    BY <1>1, DevicesStep, PTL DEF SafetySpec, DeviceSpec

(* Seen from the connection and its cache, the gateway implements          *)
(* BacnetLink.                                                             *)
THEOREM GatewayIsLink == SafetySpec => LinkSpec
  <1>1. Init => LinkInit
    BY DEF Init
  <1> QED
    BY <1>1, LinkStep, PTL DEF SafetySpec, LinkSpec

(* The invariants of both sides hold of the gateway.                       *)
THEOREM GatewayInvariant == SafetySpec => []GatewayInv
  BY GatewayIsDevices, GatewayIsLink, DeviceInvariant, LinkInvariant, PTL
  DEF GatewayInv

(* The variables keep their types: places, heads and sizes stay within     *)
(* their tables.                                                           *)
THEOREM GatewayTypeOK == SafetySpec => []TypeOK
  <1>1. GatewayInv => TypeOK
    BY DEF GatewayInv, DeviceInv, LinkInv, TypeOK
  <1> QED
    BY <1>1, GatewayInvariant, PTL

(* No device of the gateway is stuck disabled or without the object its    *)
(* last request was about.                                                 *)
THEOREM GatewayNeverStuck == SafetySpec => []NeverStuck
  BY GatewayIsDevices, DevicesNeverStuck, PTL

(* Without a disturbance an answer is the answer to what was asked last.   *)
THEOREM GatewayAnswersMatch == SafetySpec => []AnswersMatch
  BY GatewayIsDevices, DeviceAnswersMatch, PTL

(* ... and the list of objects is complete.                                *)
THEOREM GatewayListComplete == SafetySpec => []ListComplete
  BY GatewayIsDevices, DeviceListComplete, PTL

(* A null or freed device is only used after such a disturbance.           *)
THEOREM GatewayUndefinedOnlyIfMixed == SafetySpec => []UndefinedOnlyIfMixed
  BY GatewayIsDevices, DeviceUndefinedOnlyIfMixed, PTL

(* The requests for a device, the commands of the cloud among them, leave  *)
(* its queue one at a time and in order, whatever the connection does.     *)
THEOREM GatewayCommandsKept == SafetySpec => CommandsKept
  BY GatewayIsDevices, DeviceCommandsKept, PTL

(* No message is lost unaccounted for, over any loss of the session.       *)
THEOREM GatewayNothingLost == SafetySpec => []NothingLost
  BY GatewayIsLink, LinkNothingLost, PTL

(* The cache is in order until a cached message is put back.               *)
THEOREM GatewayCachedInOrder == SafetySpec => []CachedInOrder
  BY GatewayIsLink, LinkCachedInOrder, PTL

(* The cache is a queue that forgets its oldest message.                   *)
THEOREM GatewayCacheIsFifo == SafetySpec => CacheIsFifo
  BY GatewayIsLink, LinkCacheIsFifo, PTL
=============================================================================
