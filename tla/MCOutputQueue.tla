---------------------------- MODULE MCOutputQueue ----------------------------
(* Two pipelined requests on one connection and one on another, with responses *)
(* larger than the socket takes, and budgets that the three exceed together.   *)
EXTENDS OutputQueue

MCConnOf == [r \in Requests |-> IF r = "r3" THEN "c2" ELSE "c1"]
MCSize == [r \in Requests |-> IF r = "r2" THEN 3 ELSE 2]
MCConfigs == {[leases |-> TRUE, timeouts |-> TRUE], [leases |-> FALSE, timeouts |-> FALSE]}
MCNoTimeouts == {[leases |-> TRUE, timeouts |-> FALSE]}
=============================================================================
