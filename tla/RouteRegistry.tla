---------------------------- MODULE RouteRegistry ----------------------------
(***************************************************************************)
(* The table of handlers: threads register routes and prefixes while the   *)
(* reactor and the workers look routes up without a lock, in the table     *)
(* that was published last.                                                *)
(*                                                                         *)
(* A route is a sequence of characters.  A registration is a record of the *)
(* member function of Server (api) and its arguments; it stands for its    *)
(* handler too.                                                            *)
(***************************************************************************)
EXTENDS Integers, SequencesExt

CONSTANTS
    Threads,        \* threads that register
    Registrations,  \* what they may register
    Routes,         \* routes that are looked up
    MaxRoute        \* max_message_size

ASSUME RegistrationAssumption ==
    /\ "free" \notin Threads
    /\ \A r \in Registrations : r.route \in Seq(Nat)
    /\ \A route \in Routes : route \in Seq(Nat)

VARIABLES
    registry,       \* the published table: never changed, only replaced
    mutex,          \* holder of handler_registration_mutex, or "free"
    tpc, item,      \* where a thread is, and what it registers
    copy,           \* the table it prepares
    made            \* the registrations that returned

registryVars == <<registry, mutex, tpc, item, copy, made>>

ForStreams(r) == r.api \in {"on_stream", "on_stream_prefix"}
ForPrefix(r) == r.api \in {"on_prefix", "on_prefix_options", "on_stream_prefix"}
WithOptions(r) == r.api \in {"on_options", "on_prefix_options", "on_serialized_options"}

Fifo == "fifo"
Default == [domain |-> "", policy |-> Fifo]

\* The entry of a handler: its flags, the wrapper it is stored in, and the
\* scheduling the wrapper carries.
MakeEntry(r) ==
    LET serialized == \/ r.api \in {"on_serialized", "on_serialized_options"}
                      \/ (WithOptions(r) /\ r.serialized)
        advanced == r.api \in {"on_options", "on_prefix_options"} /\ r.serialized
        scheduling == IF advanced THEN [domain |-> r.domain, policy |-> r.policy] ELSE Default
        context == WithOptions(r) /\ r.context
    IN  [handler |-> r, serialized |-> serialized, contextual |-> context, advanced |-> advanced,
         adapter |-> IF context THEN "context" ELSE IF advanced THEN "simple" ELSE "plain",
         scheduling |-> scheduling]

\* route_scheduling: what the serialized executor reads from an entry.
RouteScheduling(e) ==
    IF ~e.advanced THEN Default
    ELSE IF e.adapter = (IF e.contextual THEN "context" ELSE "simple") THEN e.scheduling
    ELSE [domain |-> "logic error", policy |-> Fifo]

\* The arguments a registration is refused for before it touches the table.
ValidRegistration(r) ==
    /\ r.route # <<>> /\ Len(r.route) <= MaxRoute
    /\ r.api = "on_serialized_options" /\ r.serialized => r.domain = "" /\ r.policy = Fifo

\* The two halves of the table, each of a map and a list of prefixes.
Halves == {"fixed", "streams"}
Half(r) == IF ForStreams(r) THEN "streams" ELSE "fixed"
Empty == [exact |-> {}, prefixes |-> <<>>]

Taken(table, r) ==
    IF ForPrefix(r)
    THEN \E i \in DOMAIN table[Half(r)].prefixes : table[Half(r)].prefixes[i].handler.route = r.route
    ELSE \E e \in table[Half(r)].exact : e.handler.route = r.route

\* The new prefix at the end, and the list sorted by length, the longest first; the
\* order of prefixes of one length is left to the sort.
AddPrefix(prefixes, e) ==
    {q \in SetToSeqs(ToSet(prefixes) \cup {e}) :
        \A i, j \in DOMAIN q : i < j => Len(q[i].handler.route) >= Len(q[j].handler.route)}

\* The tables a registration may leave.
Add(table, r) ==
    IF ForPrefix(r)
    THEN {[table EXCEPT ![Half(r)].prefixes = q] :
             q \in AddPrefix(table[Half(r)].prefixes, MakeEntry(r))}
    ELSE {[table EXCEPT ![Half(r)].exact = @ \cup {MakeEntry(r)}]}

\* find_request_handler and find_stream_handler: the exact route, or the first
\* prefix of the list that matches.
Find(table, half, route) ==
    LET exact == {e \in table[half].exact : e.handler.route = route}
        list == table[half].prefixes
        matching == {i \in DOMAIN list : IsPrefix(list[i].handler.route, route)}
    IN  IF exact # {} THEN exact
        ELSE {list[i] : i \in {j \in matching : \A k \in matching : j <= k}}

RegistryInit ==
    /\ registry = [half \in Halves |-> Empty]
    /\ mutex = "free"
    /\ tpc = [t \in Threads |-> "idle"]
    /\ item = [t \in Threads |-> <<>>]
    /\ copy = [t \in Threads |-> <<>>]
    /\ made = {}

\* A call that is refused throws at once and leaves no trace.
Call(t, r) ==
    /\ tpc[t] = "idle"
    /\ ValidRegistration(r)
    /\ tpc' = [tpc EXCEPT ![t] = "lock"]
    /\ item' = [item EXCEPT ![t] = r]
    /\ UNCHANGED <<registry, mutex, copy, made>>

\* Faulty: the table is copied before the mutex is taken.
LockNothing(t) ==
    /\ tpc[t] = "lock"
    /\ tpc' = [tpc EXCEPT ![t] = "copy"]
    /\ UNCHANGED <<registry, mutex, item, copy, made>>

Lock(t) ==
    /\ tpc[t] = "lock" /\ mutex = "free"
    /\ mutex' = t
    /\ tpc' = [tpc EXCEPT ![t] = "copy"]
    /\ UNCHANGED <<registry, item, copy, made>>

Copy(t) ==
    /\ tpc[t] = "copy"
    /\ copy' = [copy EXCEPT ![t] = registry]
    /\ tpc' = [tpc EXCEPT ![t] = "publish"]
    /\ UNCHANGED <<registry, mutex, item, made>>

\* The mutation of the copy: a route that is taken throws and publishes nothing.
Publish(t) ==
    /\ tpc[t] = "publish"
    /\ IF Taken(copy[t], item[t])
       THEN UNCHANGED <<registry, made>>
       ELSE /\ registry' \in Add(copy[t], item[t])
            /\ made' = made \cup {item[t]}
    /\ mutex' = "free"
    /\ tpc' = [tpc EXCEPT ![t] = "idle"]
    /\ item' = [item EXCEPT ![t] = <<>>]
    /\ copy' = [copy EXCEPT ![t] = <<>>]

RegistryNext == \E t \in Threads : \/ \E r \in Registrations : Call(t, r)
                                   \/ Lock(t) \/ Copy(t) \/ Publish(t)

RegistrySpec == RegistryInit /\ [][RegistryNext]_registryVars

-----------------------------------------------------------------------------

\* What the caller of a registration asked of the serialized executor.
Asked(r) == IF r.api \in {"on_options", "on_prefix_options"} /\ r.serialized
            THEN [domain |-> r.domain, policy |-> r.policy] ELSE Default

\* A route is served by its own handler, or else by the longest prefix of it that is
\* registered, in either half of the table, and in the domain and under the policy
\* that the registration asked for: stated on the registrations that returned,
\* without the order of the list or the wrappers of the handlers.
LongestPrefixWins ==
    \A half \in Halves : \A route \in Routes :
        LET own == {r \in made : Half(r) = half /\ ~ForPrefix(r) /\ r.route = route}
            prefixes == {r \in made : Half(r) = half /\ ForPrefix(r) /\ IsPrefix(r.route, route)}
            longest == {r \in prefixes : \A s \in prefixes : Len(s.route) <= Len(r.route)}
        IN  {<<e.handler, RouteScheduling(e)>> : e \in Find(registry, half, route)} =
                {<<r, Asked(r)>> : r \in IF own # {} THEN own ELSE longest}

=============================================================================
