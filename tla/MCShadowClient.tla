--------------------------- MODULE MCShadowClient ---------------------------
(* Instances of ShadowClient for TLC.                                      *)
EXTENDS ShadowClient

CONSTANTS c1, c2, r1, r2

TwoClients == {c1, c2}
TwoRequests == {r1, r2}
ShortTimeouts == {0, 1}
=============================================================================
