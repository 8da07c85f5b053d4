------------------------- MODULE MCSerializedExecutor -------------------------
(* Jobs for TLC: a maintenance task in the default domain; in a second domain  *)
(* two latest_wins commands of one route and a reject_if_busy command, which   *)
(* queue behind each other.  A cfg picks the jobs it needs.                    *)
EXTENDS SerializedExecutor

MCDomainOf == [j \in Jobs |-> IF j = "task" THEN "default" ELSE "drive"]
MCPolicyOf == [j \in Jobs |-> CASE j \in {"vel1", "vel2"} -> "latest_wins"
                                [] j = "home" -> "reject_if_busy"
                                [] OTHER -> "fifo"]
MCRouteOf == [j \in Requests |-> IF j \in {"vel1", "vel2"} THEN "/velocity" ELSE "/home"]
MCConnOf == [j \in Requests |-> IF j \in {"vel1", "home"} THEN "c1" ELSE "c2"]

\* Bound: of the four jobs at most three are submitted in one behaviour.  Nothing
\* obliges a caller to submit, so fairness is not affected.
ThreeSubmitted == Cardinality({j \in Jobs : stage[j] # "new"}) <= 3
=============================================================================
