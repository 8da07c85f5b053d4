--------------------------- MODULE MCClientSession ---------------------------
(***************************************************************************)
(* For TLC: the two transports that carry many frames over one connection, *)
(* a session and the shared-memory rings.  They have no step in common: a  *)
(* behaviour is of one, and the variables of the other keep one value.     *)
(*                                                                         *)
(* Sessions have a deadline and ids that never wrap, or neither.           *)
(***************************************************************************)
EXTENDS ClientSession, ShmTransport

VARIABLE transport

mcVars == <<transport, vars, shmVars>>

MCConfigs == {[deadline |-> TRUE, ids |-> 8], [deadline |-> FALSE, ids |-> 3]}

MCInit ==
    /\ transport \in {"session", "rings"}
    /\ Init /\ ShmInit
    /\ transport # "session" => config.deadline
    /\ transport # "rings" => mode = "stream"

MCNext ==
    /\ UNCHANGED transport
    /\ \/ transport = "session" /\ Next /\ UNCHANGED shmVars
       \/ transport = "rings" /\ ShmNext /\ UNCHANGED vars

\* Fairness and ShmFairness, in the behaviours that are theirs.
MCFairness ==
    /\ WF_vars(transport = "session" /\ Reader) /\ WF_vars(transport = "session" /\ JoinReader)
    /\ \A k \in Callers : WF_vars(transport = "session" /\ Caller(k))
    /\ WF_shmVars(transport = "rings" /\ Client) /\ WF_shmVars(transport = "rings" /\ Server)
    /\ \A t \in Threads : WF_shmVars(transport = "rings" /\ Flush(t))

MCSpec == MCInit /\ [][MCNext]_mcVars /\ MCFairness
=============================================================================
