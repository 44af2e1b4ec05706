---------------------------- MODULE MCMqttSender ----------------------------
(* Instances of MqttSender for TLC: two brokers; the password of the first *)
(* is changed now and then.                                                *)
EXTENDS MqttSender

CONSTANTS b1, b2, p1, p2

Brokers == {b1, b2}

PolicyPasswords == [b \in Brokers |-> IF b = b1 THEN {p1, p2} ELSE {p1}]
=============================================================================
