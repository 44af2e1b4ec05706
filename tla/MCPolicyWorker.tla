--------------------------- MODULE MCPolicyWorker ---------------------------
(* Instances of PolicyWorker for TLC: a configuration of three policies    *)
(* that is loaded out of order, and one of a single policy.                *)
EXTENDS PolicyWorker

CONSTANTS three, one

Configs == {three, one}

PollingIntervals == [c \in Configs |-> IF c = three THEN <<1, 3, 2>> ELSE <<1>>]
=============================================================================
