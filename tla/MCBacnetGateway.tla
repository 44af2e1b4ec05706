--------------------------- MODULE MCBacnetGateway ---------------------------
(***************************************************************************)
(* Three devices for a table of two places, the second of which is the one *)
(* that can never send.  The bounds are the sum of small scenarios, so     *)
(* that each combination of events that meet is explored to its end.       *)
(***************************************************************************)
EXTENDS BacnetGateway

CONSTANTS d1, d2, d3

MCDevice == {d1, d2, d3}

MCObjectList ==
  [d \in MCDevice |-> CASE d = d1 -> <<"analog", "binary">>
                        [] d = d2 -> <<"other", "analog">>
                        [] OTHER -> <<"other">>]

With(events) == [e \in Events |-> IF e \in DOMAIN events THEN events[e] ELSE 0]

Quiet == [messages |-> 0, drops |-> 0]

MCScenarios == {
  \* a device gives way to another one, subscriptions or none
  <<With([found |-> 3, type |-> 1]), Quiet>>,
  \* the gateway is reset and finds its devices again
  <<With([found |-> 2, type |-> 1, reset |-> 1]), Quiet>>,
  <<With([found |-> 2, command |-> 1, reset |-> 1]), Quiet>>,
  \* answers are late, lost or refused; the list is read anew
  <<With([found |-> 1, type |-> 1, hasty |-> 1, loss |-> 1]), Quiet>>,
  <<With([found |-> 1, type |-> 1, discover |-> 1, loss |-> 2]), Quiet>>,
  <<With([found |-> 1, type |-> 1, refusal |-> 2, loss |-> 1]), Quiet>>,
  \* configurations follow each other
  <<With([found |-> 1, type |-> 2, loss |-> 1]), Quiet>>,
  <<With([found |-> 1, type |-> 1, increment |-> 1, refusal |-> 1]), Quiet>>,
  \* polls, renewed subscriptions and commands share the queue
  <<With([found |-> 1, type |-> 1, expiry |-> 1, poll |-> 1, loss |-> 1]),
    Quiet>>,
  <<With([found |-> 1, poll |-> 1, command |-> 1, discover |-> 1]), Quiet>>,
  <<With([found |-> 1, poll |-> 1, command |-> 1, hasty |-> 1, loss |-> 1]),
    Quiet>>,
  \* the connection to the cloud is lost
  <<With([found |-> 1, type |-> 1, command |-> 1]),
    [messages |-> 1, drops |-> 1]>>,
  <<With([found |-> 1, command |-> 1]), [messages |-> 3, drops |-> 1]>>,
  <<With([e \in {} |-> 0]), [messages |-> 4, drops |-> 2]>>}

MCBudgets == {s[1] : s \in MCScenarios}
MCTraffic == {s[2] : s \in MCScenarios}
=============================================================================
