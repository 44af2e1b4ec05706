--------------------------- MODULE MCModbusGateway ---------------------------
(* An instance of ModbusGateway for TLC: a configuration of two policies   *)
(* for one slave, at an address each, and one with a policy for another    *)
(* slave.  One address is reached by TCP, the other is a serial port.      *)
EXTENDS ModbusGateway

CONSTANTS twice, other, s1, s2, tcp, serial

Configs == {twice, other}
SlaveIds == {s1, s2}
AddressSet == {tcp, serial}
SerialPorts == {serial}

PollingIntervals == [c \in Configs |-> IF c = twice THEN <<1, 1>> ELSE <<1>>]
SlavesOf == [c \in Configs |-> IF c = twice THEN <<s1, s1>> ELSE <<s2>>]
AddressesOf == [c \in Configs |-> IF c = twice THEN <<serial, tcp>> ELSE <<tcp>>]
=============================================================================
