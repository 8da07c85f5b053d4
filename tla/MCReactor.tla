------------------------------ MODULE MCReactor ------------------------------
(***************************************************************************)
(* What the reactor thread and its peers rely on: the wakeups of the       *)
(* reactor, waits with a deadline, the table of handlers, the bytes of a   *)
(* connection, its lease and its input accounts.  These parts share no     *)
(* state: a behaviour is of one of them.                                   *)
(***************************************************************************)
EXTENDS ReactorWakeup, Deadlines, RouteRegistry, ConnectionLease, FlowControl

VARIABLES part, plan, writes, socket, hungUp, demands, need, direct, buffer, got, failed

byteVars == <<plan, writes, socket, hungUp, demands, need, direct, buffer, got, failed>>

Registration(api, route, serialized, context, domain, policy) ==
    [api |-> api, route |-> route, serialized |-> serialized, context |-> context,
     domain |-> domain, policy |-> policy]

\* Prefixes of one, two and three characters in both orders, an exact route below
\* them and the same one twice, every form of options, and refused arguments.
MCRegistrations == {
    Registration("on_prefix", <<1>>, FALSE, FALSE, "", "fifo"),
    Registration("on_prefix_options", <<1, 2>>, TRUE, TRUE, "d", "latest"),
    Registration("on_prefix", <<1, 3>>, FALSE, FALSE, "", "fifo"),
    Registration("on_options", <<1, 2, 3>>, TRUE, FALSE, "d", "fifo"),
    Registration("on_serialized", <<1, 2, 3>>, FALSE, FALSE, "", "fifo"),
    Registration("on_serialized_options", <<1>>, FALSE, TRUE, "", "fifo"),
    Registration("on_serialized_options", <<2>>, TRUE, FALSE, "d", "fifo"),
    Registration("on_stream", <<1, 2>>, FALSE, FALSE, "", "fifo"),
    Registration("on_stream_prefix", <<1>>, FALSE, FALSE, "", "fifo"),
    Registration("on", <<>>, FALSE, FALSE, "", "fifo") }

MCRoutes == {<<1>>, <<2>>, <<1, 2>>, <<1, 2, 3>>, <<1, 3>>}

\* Writes of a header alone, with an empty part between others, and of more than the
\* socket holds; reads below, at and above the capacity; a lease with bytes at hand
\* and bytes behind its last read.
MCPlans == {
    [lease |-> FALSE, lead |-> 0, writes |-> <<<<1>>, <<1, 0, 2>>, <<0, 3>>>>, reads |-> <<1, 2, 4>>],
    [lease |-> FALSE, lead |-> 0, writes |-> <<<<2, 4>>, <<1, 0>>>>, reads |-> <<1, 3, 3>>],
    [lease |-> TRUE, lead |-> 2, writes |-> <<<<1, 2>>, <<1, 1>>>>, reads |-> <<1, 2, 3>>],
    [lease |-> TRUE, lead |-> 0, writes |-> <<<<1, 0, 3>>>>, reads |-> <<2, 1>>] }

B == INSTANCE ByteStream WITH Capacity <- 3, Room <- 3, Plans <- MCPlans

\* Without a budget one connection pipelines four requests, enough for a
\* continuation lease to read past the limits; with one, two connections compete.
MCSizes == [c \in Conns |-> IF c = "a" THEN <<2, 1, 1, 2>> ELSE <<2>>]

FlowBound == IF Strict THEN arrived["a"] <= 4 ELSE arrived["b"] = 0

MCInit ==
    /\ part \in {"wakeup", "routes", "bytes", "wait", "lease", "flow"}
    /\ WakeupInit /\ RegistryInit /\ B!Init /\ WaitInit /\ LeaseInit /\ FlowInit
    /\ part # "bytes" => plan = CHOOSE p \in MCPlans : TRUE
    /\ part # "wait" => now = 0 /\ timeout = 0 /\ absolute = 0
    /\ part # "lease" => ~hasTimeout
    /\ part # "flow" => cur = "a" /\ ~Strict

MCNext ==
    /\ UNCHANGED part
    /\ part # "wakeup" => UNCHANGED wakeupVars
    /\ part # "routes" => UNCHANGED registryVars
    /\ part # "bytes" => UNCHANGED byteVars
    /\ part # "wait" => UNCHANGED waitVars
    /\ part # "lease" => UNCHANGED leaseVars
    /\ part # "flow" => UNCHANGED flowVars
    /\ \/ part = "wakeup" /\ WakeupNext
       \/ part = "routes" /\ RegistryNext
       \/ part = "bytes" /\ B!Next
       \/ part = "wait" /\ WaitNext
       \/ part = "lease" /\ LeaseNext
       \/ part = "flow" /\ FlowNext /\ FlowBound'
       \/ part \in {"lease", "flow"} /\ UNCHANGED <<leaseVars, flowVars>>  \* clients go quiet

mcVars == <<part, wakeupVars, registryVars, byteVars, waitVars, leaseVars, flowVars>>

\* WakeupFairness and LeaseFairness, in the behaviours that are theirs.
MCFairness ==
    /\ WF_wakeupVars(part = "wakeup" /\ ReactorThread) /\ WF_wakeupVars(part = "wakeup" /\ StopSignal)
    /\ \A p \in Producers : WF_wakeupVars(part = "wakeup" /\ Producer(p))
    /\ WF_leaseVars(part = "lease" /\ Reactor) /\ WF_leaseVars(part = "lease" /\ Serial)
    /\ \A w \in Workers : WF_leaseVars(part = "lease" /\ Worker(w))

MCSpec == MCInit /\ [][MCNext]_mcVars /\ MCFairness

\* No byte is lost, repeated or overtaken between the parts of a write and the reads
\* of the other end (write_iovecs_exact, BufferedReader, StreamByteSource).
BytesInOrder == B!BytesInOrder
=============================================================================
