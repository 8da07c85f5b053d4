----------------------------- MODULE DomainQueues -----------------------------
(***************************************************************************)
(* What the serialized executor promises to the author of a handler: every *)
(* domain is a queue of its own, served first in first out by one virtual  *)
(* thread.  Threads, locks, notifications, counters and shutdown are not   *)
(* visible here.  SerializedExecutor implements this specification.        *)
(***************************************************************************)

CONSTANTS Jobs, Maintenance, DomainOf, PolicyOf, RouteOf

VARIABLES submitted,   \* the jobs somebody has tried to enqueue
          waiting,     \* the jobs in the queues
          ahead,       \* <<j, k>> when j was admitted before k to the same queue
          executing    \* the jobs the domains execute

vars == <<submitted, waiting, ahead, executing>>

Init == submitted = {} /\ waiting = {} /\ ahead = {} /\ executing = {}

Idle(d) == \A j \in waiting \cup executing : DomainOf[j] # d

\* latest_wins drops the waiting requests of its own concrete route, and nothing
\* else; in particular it never drops the job that executes.
Dropped(j) ==
    {k \in waiting \ Maintenance :
        PolicyOf[j] = "latest_wins" /\ DomainOf[k] = DomainOf[j] /\ RouteOf[k] = RouteOf[j]}

Admit(j) ==
    /\ j \notin submitted
    /\ PolicyOf[j] = "reject_if_busy" => Idle(DomainOf[j])
    /\ submitted' = submitted \cup {j}
    /\ waiting' = (waiting \ Dropped(j)) \cup {j}
    /\ ahead' = {p \in ahead : p[1] \in waiting' /\ p[2] \in waiting'}
                    \cup {<<k, j>> : k \in {i \in waiting \ Dropped(j) : DomainOf[i] = DomainOf[j]}}
    /\ UNCHANGED executing

\* Busy, stopping, or out of threads: the job leaves no trace.
Decline(j) ==
    /\ j \notin submitted
    /\ submitted' = submitted \cup {j}
    /\ UNCHANGED <<waiting, ahead, executing>>

\* The first job of its queue starts when its domain executes nothing.
Start(j) ==
    /\ j \in waiting
    /\ \A k \in executing : DomainOf[k] # DomainOf[j]
    /\ \A k \in waiting : <<k, j>> \notin ahead
    /\ waiting' = waiting \ {j}
    /\ ahead' = {p \in ahead : p[1] # j /\ p[2] # j}
    /\ executing' = executing \cup {j}
    /\ UNCHANGED submitted

Finish(j) ==
    /\ j \in executing
    /\ executing' = executing \ {j}
    /\ UNCHANGED <<submitted, waiting, ahead>>

Next == \E j \in Jobs : Admit(j) \/ Decline(j) \/ Start(j) \/ Finish(j)

Spec == Init /\ [][Next]_vars
=============================================================================
