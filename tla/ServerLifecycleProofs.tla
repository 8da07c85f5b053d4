------------------------ MODULE ServerLifecycleProofs ------------------------
(***************************************************************************)
(* The descriptors and the instance lock of a server stay open while run() *)
(* and the reactor use them, a stale socket is recovered and only a stale  *)
(* one is removed, for any number of servers of one path.                  *)
(***************************************************************************)
EXTENDS ServerLifecycle, TLAPS

\* Every step is tried with SMT and Zenon and, where a loaded machine needs it, with
\* SMT for longer.
USE SMT, Zenon, SMTT(30)

Fields == {"before", "valid", "open", "listening", "stopped", "runActive", "running",
           "event", "stopping", "closers", "why"}

Types ==
    /\ DOMAIN pc = Servers /\ \A s \in Servers : DOMAIN pc[s] = Threads
    /\ DOMAIN srv = Servers /\ \A s \in Servers : DOMAIN srv[s] = Fields

\* Where the constructor holds the instance lock, and where run() is active.
Holding == {"look", "probe", "recheck", "final", "remove", "bind", "identify", "chmod",
            "listen", "undo", "undoUnlink", "abandon"}
Active == {"setup", "arm", "spawn", "joining", "flag", "mark", "inspect", "unlink",
           "pools", "join", "guard", "guardUnlink", "close"}

\* A server's lock is held from its acquisition to the closing of the descriptors;
\* run_active is set while run() is under way, and run() waits for the reactor, so
\* it never counts itself among the callers that close the descriptors.
Held(s) ==
    /\ pc[s].ctor \in Holding => lock = s
    /\ pc[s].ctor \in Holding \cup {"start"} => pc[s].stop = "idle" /\ pc[s].dtor = "idle"
    /\ srv[s].open => pc[s].ctor = "made" /\ lock = s
    /\ srv[s].runActive => srv[s].open
    /\ pc[s].reactor \in {"top", "poll"} => pc[s].run = "joining"
    /\ pc[s].run \in Active => srv[s].runActive
    /\ pc[s].ctor \in Holding \cup {"start", "made", "failed", "gone"}
    /\ pc[s].run \in Active \cup {"idle", "threw", "returned", "gone"}
    /\ "run" \notin srv[s].closers

IInv == Types /\ \A s \in Servers : Held(s)

\* The initial state satisfies the invariant.
LEMMA InitHeld == Init => IInv
<1> SUFFICES ASSUME Init PROVE IInv
  BY Zenon
<1>1. Types
  BY Zenon DEF Init, Types, Fresh, Threads, Fields
<1>2. ASSUME NEW s \in Servers PROVE Held(s)
  BY Zenon DEF Init, Held, Fresh, Holding, Active
<1> QED
  BY <1>1, <1>2, Zenon DEF IInv

\* A step of server s leaves the others as they were, and the lock of another server
\* in its hands.
LockMoves(s) == lock' = lock \/ (lock = s /\ lock' = None) \/ (lock = None /\ lock' = s)
Only(s) ==
    /\ DOMAIN pc' = Servers /\ \A u \in Servers : DOMAIN pc'[u] = Threads
    /\ DOMAIN srv' = Servers /\ \A u \in Servers : DOMAIN srv'[u] = Fields
    /\ \A u \in Servers : u # s => pc'[u] = pc[u] /\ srv'[u] = srv[u]

\* A step of one server leaves what the others hold alone.
LEMMA OthersHeld ==
    ASSUME IInv, NEW s \in Servers, Only(s), LockMoves(s), Held(s)' PROVE IInv'
<1>1. ASSUME NEW u \in Servers, u # s PROVE Held(u)'
  <2>1. pc'[u] = pc[u] /\ srv'[u] = srv[u] /\ Held(u)
    BY <1>1, Zenon DEF Only, IInv
  <2>2. lock = u => lock' = u
    BY <1>1, NoneAssumption, Zenon DEF LockMoves
  <2> QED
    BY <2>1, <2>2, Zenon DEF Held
<1>2. Types'
  BY Zenon DEF Only, Types
<1> QED
  BY <1>1, <1>2, Zenon DEF IInv

\* What a jump of one thread changes.
LEMMA GotoMoves ==
    ASSUME Types, NEW s \in Servers, NEW t \in Threads, NEW l, Goto(s, t, l)
    PROVE  /\ DOMAIN pc' = Servers /\ \A u \in Servers : DOMAIN pc'[u] = Threads
           /\ \A u \in Servers : u # s => pc'[u] = pc[u]
           /\ pc'[s][t] = l /\ \A v \in Threads : v # t => pc'[s][v] = pc[s][v]
  BY Zenon DEF Types, Goto

\* The constructor fails, with nothing open.
LEMMA FailedHeld ==
    ASSUME IInv, NEW s \in Servers, NEW why, Failed(s, why), ~srv[s].open
    PROVE  IInv'
<1>1. Types /\ Held(s)
  BY Zenon DEF IInv
<1>2. Goto(s, "ctor", "failed") /\ LockMoves(s)
  BY Zenon DEF Failed, LockMoves
<1>3. srv' = [srv EXCEPT ![s].why = why, ![s].listening = FALSE]
  BY Zenon DEF Failed
<1>4. /\ DOMAIN srv' = Servers /\ \A u \in Servers : DOMAIN srv'[u] = Fields
      /\ \A u \in Servers : u # s => srv'[u] = srv[u]
      /\ srv'[s].open = srv[s].open /\ srv'[s].runActive = srv[s].runActive
      /\ srv'[s].closers = srv[s].closers
  BY <1>1, <1>3, Zenon DEF Types, Fields
<1>5. pc'[s].ctor = "failed" /\ pc'[s].run = pc[s].run /\ pc'[s].reactor = pc[s].reactor
      /\ pc'[s].stop = pc[s].stop /\ pc'[s].dtor = pc[s].dtor
  BY <1>1, <1>2, GotoMoves, Zenon DEF Threads
<1>6. Only(s)
  BY <1>1, <1>2, <1>4, GotoMoves, Zenon DEF Only, Threads
<1>7. Held(s)'
  BY <1>1, <1>4, <1>5, Zenon DEF Held, Holding
<1> QED
  BY <1>2, <1>6, <1>7, OthersHeld, Zenon

\* ServerState changes in s alone, and neither opens nor closes anything.
Keeps(s) ==
    /\ DOMAIN srv' = Servers /\ \A u \in Servers : DOMAIN srv'[u] = Fields
    /\ \A u \in Servers : u # s => srv'[u] = srv[u]
    /\ srv'[s].open = srv[s].open /\ srv'[s].runActive = srv[s].runActive
    /\ "run" \in srv'[s].closers => "run" \in srv[s].closers

\* A thread moves on and the descriptors, run_active and the lock stay.
LEMMA MovedHeld ==
    ASSUME IInv, NEW s \in Servers, NEW t \in Threads, NEW l, Goto(s, t, l),
           UNCHANGED lock, Keeps(s),
           t = "ctor" => l \in Holding /\ pc[s].ctor \in Holding,
           t = "run" => /\ l \in Active \cup {"threw"} /\ (l \in Active => srv[s].runActive)
                        /\ pc[s].reactor \notin {"top", "poll"},
           t = "reactor" /\ l \in {"top", "poll"} => pc[s].run = "joining",
           t \in {"stop", "dtor"} => pc[s].ctor \notin Holding \cup {"start"}
    PROVE  IInv'
<1>1. Types /\ Held(s)
  BY Zenon DEF IInv
<1>2. Only(s)
  BY <1>1, GotoMoves DEF Only, Keeps
<1>3. pc'[s][t] = l /\ \A v \in Threads : v # t => pc'[s][v] = pc[s][v]
  BY <1>1, GotoMoves
<1>4. Held(s)'
  <2>1. CASE t = "ctor"
    <3>1. pc'[s].ctor = l /\ pc'[s].run = pc[s].run /\ pc'[s].reactor = pc[s].reactor
          /\ pc'[s].stop = pc[s].stop /\ pc'[s].dtor = pc[s].dtor
      BY <1>3, <2>1, Zenon DEF Threads
    <3> QED
      BY <1>1, <2>1, <3>1, Zenon DEF Held, Keeps, Holding
  <2>2. CASE t = "run"
    <3>1. pc'[s].ctor = pc[s].ctor /\ pc'[s].run = l /\ pc'[s].reactor = pc[s].reactor
          /\ pc'[s].stop = pc[s].stop /\ pc'[s].dtor = pc[s].dtor
      BY <1>3, <2>2, Zenon DEF Threads
    <3> QED
      BY <1>1, <2>2, <3>1, Zenon DEF Held, Keeps
  <2>3. CASE t = "reactor"
    <3>1. pc'[s].ctor = pc[s].ctor /\ pc'[s].run = pc[s].run /\ pc'[s].reactor = l
          /\ pc'[s].stop = pc[s].stop /\ pc'[s].dtor = pc[s].dtor
      BY <1>3, <2>3, Zenon DEF Threads
    <3> QED
      BY <1>1, <2>3, <3>1, Zenon DEF Held, Keeps
  <2>4. CASE t \in {"stop", "dtor"}
    <3>1. pc'[s].ctor = pc[s].ctor /\ pc'[s].run = pc[s].run /\ pc'[s].reactor = pc[s].reactor
      BY <1>3, <2>4, Zenon DEF Threads
    <3> QED
      BY <1>1, <2>4, <3>1, Zenon DEF Held, Keeps
  <2> QED
    BY <2>1, <2>2, <2>3, <2>4, Zenon DEF Threads
<1>5. LockMoves(s)
  BY Zenon DEF LockMoves
<1> QED
  BY <1>2, <1>4, <1>5, OthersHeld, Zenon

\* An unchanged ServerState is kept.
LEMMA SameKeeps == ASSUME IInv, NEW s \in Servers, UNCHANGED srv PROVE Keeps(s)
  BY Zenon DEF IInv, Types, Keeps

\* unlink_owned_socket moves its caller within the labels of that caller.
LEMMA UnlinkHeld ==
    ASSUME IInv, NEW s \in Servers, NEW t \in {"ctor", "run", "stop", "dtor"},
           CompareIdentity(s, t) \/ UnlinkOwned(s, t)
    PROVE  IInv'
<1>1. Types /\ Held(s) /\ t \in Threads
  BY Zenon DEF IInv, Threads
<1>2. PICK call \in {"inspect", "guard", "undo"} :
         /\ \E l \in {Unlinking[call].match, Unlinking[call].done} : Goto(s, t, l)
         /\ At(s, t, call) \/ At(s, t, Unlinking[call].match)
  BY Zenon DEF CompareIdentity, UnlinkOwned, Unlinking
<1>3. PICK l \in {Unlinking[call].match, Unlinking[call].done} : Goto(s, t, l) /\ UNCHANGED lock
  BY <1>2, Zenon DEF CompareIdentity, UnlinkOwned
<1>4. Keeps(s)
  <2>1. CASE CompareIdentity(s, t)
    <3>1. PICK other \in DOMAIN Unlinking :
             srv' = [srv EXCEPT ![s].running = @ /\ other # "guard"]
      BY <2>1, Zenon DEF CompareIdentity
    <3> QED
      BY <1>1, <3>1, Zenon DEF Keeps, Types, Fields
  <2>2. CASE UnlinkOwned(s, t)
    BY <2>2, SameKeeps, Zenon DEF UnlinkOwned
  <2> QED
    BY <2>1, <2>2, Zenon
<1>5. pc[s][t] \in {"inspect", "unlink", "guard", "guardUnlink", "undo", "undoUnlink"}
  BY <1>2 DEF At, Unlinking
<1>6. CASE t = "ctor"
  <2>1. pc[s].ctor \in {"undo", "undoUnlink"}
    BY <1>1, <1>5, <1>6, Zenon DEF Held, Holding
  <2>2. l \in {"undoUnlink", "abandon"}
    BY <1>2, <1>3, <1>6, <2>1 DEF At, Unlinking
  <2> QED
    BY <1>1, <1>2, <1>3, <1>4, <1>6, <2>1, <2>2, MovedHeld, Zenon DEF Holding
<1>7. CASE t = "run"
  <2>1. pc[s].run \in {"inspect", "unlink", "guard", "guardUnlink"}
    BY <1>1, <1>5, <1>7, Zenon DEF Held, Active
  <2>2. l \in {"unlink", "pools", "guardUnlink", "close"}
    BY <1>2, <1>3, <1>7, <2>1 DEF At, Unlinking
  <2>3. srv[s].runActive /\ pc[s].reactor \notin {"top", "poll"}
    BY <1>1, <2>1, Zenon DEF Held, Active
  <2> QED
    BY <1>1, <1>2, <1>3, <1>4, <1>7, <2>2, <2>3, MovedHeld, Zenon DEF Active
<1>8. CASE t \in {"stop", "dtor"}
  <2>1. pc[s].ctor \notin Holding \cup {"start"}
    BY <1>1, <1>5, <1>8, Zenon DEF Held
  <2> QED
    BY <1>1, <1>3, <1>4, <1>8, <2>1, MovedHeld, Zenon
<1> QED
  BY <1>6, <1>7, <1>8, Zenon

\* Steps of the constructor.
LEMMA ConstructHeld == ASSUME IInv, NEW s \in Servers, Construct(s) PROVE IInv'
<1>1. Types /\ Held(s) /\ "ctor" \in Threads
  BY Zenon DEF IInv, Threads
<1>2. pc[s].ctor # "made" => ~srv[s].open
  BY <1>1, Zenon DEF Held
<1>3. CASE AcquireInstanceLock(s)
  <2>1. CASE lock # None
    BY <1>2, <1>3, <2>1, FailedHeld, Zenon DEF AcquireInstanceLock, At
  <2>2. CASE lock = None /\ lock' = s /\ Goto(s, "ctor", "look") /\ UNCHANGED srv
    <3>1. Only(s) /\ LockMoves(s)
      BY <1>1, <2>2, GotoMoves DEF Only, LockMoves, Types
    <3>2. pc'[s].ctor = "look" /\ pc'[s].run = pc[s].run /\ pc'[s].reactor = pc[s].reactor
          /\ pc'[s].stop = pc[s].stop /\ pc'[s].dtor = pc[s].dtor
      BY <1>1, <2>2, GotoMoves, Zenon DEF Threads
    <3>3. pc[s].ctor = "start"
      BY <1>3, Zenon DEF AcquireInstanceLock, At
    <3>4. Held(s)'
      BY <1>1, <2>2, <3>2, <3>3, Zenon DEF Held, Holding
    <3> QED
      BY <3>1, <3>4, OthersHeld, Zenon
  <2> QED
    BY <1>3, <2>1, <2>2, Zenon DEF AcquireInstanceLock
<1>4. ASSUME NEW l \in Holding, Goto(s, "ctor", l), UNCHANGED <<lock, srv>>, pc[s].ctor \in Holding
      PROVE  IInv'
  BY <1>1, <1>4, SameKeeps, MovedHeld, Zenon
<1>5. CASE InspectPath(s)
  <2>1. srv' = [srv EXCEPT ![s].before = entry] /\ UNCHANGED lock /\ pc[s].ctor = "look"
    BY <1>5, Zenon DEF InspectPath, At
  <2>2. Keeps(s)
    BY <1>1, <2>1, Zenon DEF Keeps, Types, Fields
  <2>3. PICK l \in {"bind", "probe"} : Goto(s, "ctor", l)
    BY <1>5, Zenon DEF InspectPath
  <2> QED
    BY <1>1, <2>1, <2>2, <2>3, MovedHeld, Zenon DEF Holding
<1>6. CASE Probe(s)
  BY <1>2, <1>4, <1>6, FailedHeld, Zenon DEF Probe, At, Holding
<1>7. ASSUME NEW l \in {"probe", "final", "remove"}, Unchanged(s, l), pc[s].ctor \in Holding
      PROVE  IInv'
  BY <1>2, <1>4, <1>7, FailedHeld, Zenon DEF Unchanged, Holding
<1>8. CASE Recheck(s) \/ FinalCheck(s)
  BY <1>7, <1>8, Zenon DEF Recheck, FinalCheck, At, Holding
<1>9. CASE RemoveStale(s) \/ ApplyPermissions(s)
  BY <1>4, <1>9, Zenon DEF RemoveStale, ApplyPermissions, At, Holding
<1>10. CASE Bind(s)
  BY <1>2, <1>4, <1>10, FailedHeld, Zenon DEF Bind, At, Holding
<1>11. CASE Identify(s)
  <2>1. CASE srv' = [srv EXCEPT ![s].valid = TRUE] /\ Goto(s, "ctor", "chmod") /\ UNCHANGED lock
    <3>1. Keeps(s)
      BY <1>1, <2>1, Zenon DEF Keeps, Types, Fields
    <3> QED
      BY <1>1, <1>11, <2>1, <3>1, MovedHeld, Zenon DEF Identify, At, Holding
  <2>2. CASE Failed(s, "setup")
    BY <1>2, <1>11, <2>2, FailedHeld, Zenon DEF Identify, At
  <2> QED
    BY <1>11, <2>1, <2>2, Zenon DEF Identify
<1>12. CASE Listen(s)
  <2>1. pc[s].ctor = "listen" /\ UNCHANGED lock
    BY <1>12, Zenon DEF Listen, At
  <2>2. CASE /\ srv' = [srv EXCEPT ![s].listening = TRUE, ![s].open = TRUE]
             /\ Goto(s, "ctor", "made")
    <3>1. /\ DOMAIN srv' = Servers /\ \A u \in Servers : DOMAIN srv'[u] = Fields
          /\ \A u \in Servers : u # s => srv'[u] = srv[u]
          /\ srv'[s].open /\ srv'[s].runActive = srv[s].runActive
          /\ srv'[s].closers = srv[s].closers
      BY <1>1, <2>2, Zenon DEF Types, Fields
    <3>2. pc'[s].ctor = "made" /\ pc'[s].run = pc[s].run /\ pc'[s].reactor = pc[s].reactor
          /\ pc'[s].stop = pc[s].stop /\ pc'[s].dtor = pc[s].dtor
      BY <1>1, <2>2, GotoMoves, Zenon DEF Threads
    <3>3. Only(s) /\ LockMoves(s)
      BY <1>1, <2>1, <2>2, <3>1, GotoMoves DEF Only, LockMoves
    <3>4. Held(s)'
      BY <1>1, <2>1, <3>1, <3>2, Zenon DEF Held, Holding
    <3> QED
      BY <3>3, <3>4, OthersHeld, Zenon
  <2> QED
    BY <1>4, <1>12, <2>1, <2>2, Zenon DEF Listen, Holding
<1>13. CASE Abandon(s)
  BY <1>2, <1>13, FailedHeld, Zenon DEF Abandon, At
<1>14. CASE CompareIdentity(s, "ctor") \/ UnlinkOwned(s, "ctor")
  BY <1>14, UnlinkHeld, Zenon
<1> QED
  BY <1>3, <1>5, <1>6, <1>8, <1>9, <1>10, <1>11, <1>12, <1>13, <1>14, Zenon DEF Construct

\* The descriptors and the lock are closed once nothing uses them.
LEMMA ClosedHeld ==
    ASSUME IInv, NEW s \in Servers, Closed(s),
           pc[s].reactor \notin {"top", "poll"}, pc[s].ctor \notin Holding \cup {"start"},
           pc'[s].run \notin Active, pc'[s].run \in {pc[s].run, "returned"},
           DOMAIN pc' = Servers, \A u \in Servers : DOMAIN pc'[u] = Threads,
           \A u \in Servers : u # s => pc'[u] = pc[u],
           pc'[s].reactor = pc[s].reactor, pc'[s].ctor = pc[s].ctor
    PROVE  IInv'
<1>1. Types /\ Held(s)
  BY Zenon DEF IInv
<1>2. /\ DOMAIN srv' = Servers /\ \A u \in Servers : DOMAIN srv'[u] = Fields
      /\ \A u \in Servers : u # s => srv'[u] = srv[u]
      /\ ~srv'[s].open /\ ~srv'[s].runActive /\ srv'[s].closers = srv[s].closers
  BY <1>1, Zenon DEF Closed, Types, Fields
<1>3. Only(s) /\ LockMoves(s)
  BY <1>2, Zenon DEF Only, LockMoves, Closed
<1>4. Held(s)'
  BY <1>1, <1>2, Zenon DEF Held
<1> QED
  BY <1>3, <1>4, OthersHeld, Zenon

\* Steps of stop_state, whoever calls it.
LEMMA StopHeld ==
    ASSUME IInv, NEW s \in Servers, NEW t \in {"run", "stop", "dtor"}, StopState(s, t)
    PROVE  IInv'
<1>1. Types /\ Held(s) /\ t \in Threads
  BY Zenon DEF IInv, Threads
<1>2. t \in {"stop", "dtor"} => pc[s].ctor \notin Holding \cup {"start"}
  <2>1. CASE CompareIdentity(s, t)
    BY <1>1, <2>1, Zenon DEF CompareIdentity, Unlinking, At, Held
  <2>2. CASE UnlinkOwned(s, t)
    BY <1>1, <2>2 DEF UnlinkOwned, Unlinking, At, Held
  <2>3. CASE pc[s][t] \in {"flag", "mark", "pools", "closeIdle"}
    BY <1>1, <2>3, Zenon DEF Held
  <2> QED
    BY <2>1, <2>2, <2>3, Zenon DEF StopState, ClearRunning, MarkStopped, Marked, StopPools,
                            CloseWithoutRun, At
<1>3. ASSUME NEW l, Goto(s, t, l), UNCHANGED lock, Keeps(s),
             t = "run" => l \in Active /\ pc[s].run \in Active \ {"joining"}
      PROVE  IInv'
  <2>1. t = "run" => srv[s].runActive /\ pc[s].reactor \notin {"top", "poll"}
    BY <1>1, <1>3, Zenon DEF Held
  <2> QED
    BY <1>1, <1>3, <1>2, <2>1, MovedHeld, Zenon
<1>4. CASE ClearRunning(s, t)
  <2>1. Keeps(s)
    BY <1>1, <1>4, Zenon DEF ClearRunning, Keeps, Types, Fields
  <2> QED
    BY <1>3, <1>4, <2>1, Zenon DEF ClearRunning, At, Active
<1>5. CASE MarkStopped(s, t)
  <2>1. t = "run" => srv[s].runActive
    BY <1>1, <1>5, Zenon DEF MarkStopped, Marked, At, Held, Active
  <2>2. PICK closers, event :
           /\ srv' = [srv EXCEPT ![s].stopped = TRUE, ![s].closers = closers, ![s].event = event]
           /\ "run" \in closers => "run" \in srv[s].closers
    <3>1. "run" \in (IF ~srv[s].runActive THEN srv[s].closers \cup {t} ELSE srv[s].closers)
             => "run" \in srv[s].closers
      BY <2>1, Zenon
    <3> QED
      BY <1>5, <3>1, Zenon DEF MarkStopped, Marked
  <2>3. Keeps(s)
    BY <1>1, <2>2, Zenon DEF Keeps, Types, Fields
  <2> QED
    BY <1>3, <1>5, <2>3, Zenon DEF MarkStopped, Marked, At, Active
<1>6. CASE StopPools(s, t)
  <2>1. Keeps(s)
    BY <1>1, <1>6, Zenon DEF StopPools, Keeps, Types, Fields
  <2>2. t = "run" => Goto(s, t, "join") /\ pc[s].run = "pools"
    BY <1>1, <1>6 DEF StopPools, Held, At, AfterStop
  <2> QED
    BY <1>3, <1>6, <2>1, <2>2, Zenon DEF StopPools, Active
<1>7. CASE CloseWithoutRun(s, t)
  <2>1. t # "run" /\ Goto(s, t, AfterStop[t])
    BY <1>1, <1>7, Zenon DEF CloseWithoutRun, At, Held, Active
  <2>2. CASE srv[s].runActive
    <3>1. Keeps(s) /\ UNCHANGED lock
      BY <1>7, <2>2, SameKeeps, Zenon DEF CloseWithoutRun
    <3> QED
      BY <1>3, <2>1, <3>1, Zenon
  <2>3. CASE ~srv[s].runActive
    <3>1. Closed(s)
      BY <1>7, <2>3, Zenon DEF CloseWithoutRun
    <3> QED
      BY <1>1, <1>2, <2>1, <2>3, <3>1, ClosedHeld, GotoMoves DEF Threads, Held, Active
  <2> QED
    BY <2>2, <2>3, Zenon
<1>8. CASE CompareIdentity(s, t) \/ UnlinkOwned(s, t)
  BY <1>8, UnlinkHeld, Zenon
<1> QED
  BY <1>4, <1>5, <1>6, <1>7, <1>8, Zenon DEF StopState

\* Steps of run() of its own, and of the reactor.
LEMMA RunHeld ==
    ASSUME IInv, NEW s \in Servers,
           \/ RunBegin(s) \/ Run(s) \/ ReactorTop(s) \/ ReactorWoken(s) \/ ReactorEvent(s)
    PROVE  IInv'
<1>1. Types /\ Held(s) /\ {"run", "reactor"} \subseteq Threads
  BY Zenon DEF IInv, Threads
<1>2. pc[s].run \in Active \ {"joining"} => srv[s].runActive /\ pc[s].reactor \notin {"top", "poll"}
  BY <1>1, Zenon DEF Held
<1>3. CASE RunBegin(s)
  <2>1. pc[s].run = "idle" /\ pc[s].ctor = "made" /\ UNCHANGED lock
        /\ pc[s].reactor \notin {"top", "poll"}
    BY <1>1, <1>3, Zenon DEF RunBegin, At, Held
  <2>2. CASE Goto(s, "run", "threw") /\ UNCHANGED srv
    BY <1>1, <2>1, <2>2, SameKeeps, MovedHeld, Zenon DEF Active
  <2>3. CASE /\ Goto(s, "run", "setup") /\ srv[s].open
             /\ srv' = [srv EXCEPT ![s].runActive = TRUE]
    <3>1. /\ DOMAIN srv' = Servers /\ \A u \in Servers : DOMAIN srv'[u] = Fields
          /\ \A u \in Servers : u # s => srv'[u] = srv[u]
          /\ srv'[s].open = srv[s].open /\ srv'[s].runActive
          /\ srv'[s].closers = srv[s].closers
      BY <1>1, <2>3, Zenon DEF Types, Fields
    <3>2. pc'[s].run = "setup" /\ pc'[s].ctor = pc[s].ctor /\ pc'[s].reactor = pc[s].reactor
          /\ pc'[s].stop = pc[s].stop /\ pc'[s].dtor = pc[s].dtor
      BY <1>1, <2>3, GotoMoves, Zenon DEF Threads
    <3>3. Only(s) /\ LockMoves(s)
      BY <1>1, <2>1, <2>3, <3>1, GotoMoves DEF Only, LockMoves
    <3>4. Held(s)'
      BY <1>1, <2>1, <2>3, <3>1, <3>2, Zenon DEF Held, Active
    <3> QED
      BY <3>3, <3>4, OthersHeld, Zenon
  <2> QED
    BY <1>3, <2>2, <2>3, Zenon DEF RunBegin
<1>4. CASE RegisterSources(s)
  BY <1>1, <1>2, <1>4, SameKeeps, MovedHeld, Zenon DEF RegisterSources, At, Active
<1>5. CASE Arm(s)
  <2>1. Keeps(s)
    BY <1>1, <1>5, Zenon DEF Arm, Keeps, Types, Fields
  <2> QED
    BY <1>1, <1>2, <1>5, <2>1, MovedHeld, Zenon DEF Arm, At, Active
<1>6. CASE Spawn(s)
  <2>1. pc[s].run = "spawn" /\ UNCHANGED <<lock, srv>>
    BY <1>6, Zenon DEF Spawn, At
  <2>2. CASE pc' = [pc EXCEPT ![s].run = "joining", ![s].reactor = "top"]
    <3>1. /\ DOMAIN pc' = Servers /\ \A u \in Servers : DOMAIN pc'[u] = Threads
          /\ \A u \in Servers : u # s => pc'[u] = pc[u]
          /\ pc'[s].run = "joining" /\ pc'[s].ctor = pc[s].ctor
          /\ pc'[s].stop = pc[s].stop /\ pc'[s].dtor = pc[s].dtor
      BY <1>1, <2>2, Zenon DEF Types, Threads
    <3>2. Only(s) /\ LockMoves(s)
      BY <1>1, <2>1, <3>1, Zenon DEF Only, LockMoves, Types
    <3>3. Held(s)'
      BY <1>1, <2>1, <3>1, Zenon DEF Held, Active
    <3> QED
      BY <3>2, <3>3, OthersHeld, Zenon
  <2>3. CASE Goto(s, "run", "flag")
    BY <1>1, <1>2, <2>1, <2>3, SameKeeps, MovedHeld, Zenon DEF Active
  <2> QED
    BY <1>6, <2>2, <2>3, Zenon DEF Spawn
<1>7. CASE JoinReactor(s)
  <2>1. srv[s].runActive
    BY <1>1, <1>7, Zenon DEF JoinReactor, At, Held, Active
  <2> QED
    BY <1>1, <1>7, <2>1, SameKeeps, MovedHeld, Zenon DEF JoinReactor, At, Active
<1>8. CASE JoinWorkers(s)
  BY <1>1, <1>2, <1>8, SameKeeps, MovedHeld, Zenon DEF JoinWorkers, At, Active
<1>9. CASE GuardClose(s)
  <2>1. pc[s].run = "close" /\ Closed(s)
    BY <1>9, Zenon DEF GuardClose, At
  <2>2. pc[s].ctor = "made" /\ pc[s].reactor \notin {"top", "poll"}
    BY <1>1, <1>2, <2>1, Zenon DEF Held, Active
  <2>3. /\ DOMAIN pc' = Servers /\ \A u \in Servers : DOMAIN pc'[u] = Threads
        /\ \A u \in Servers : u # s => pc'[u] = pc[u]
        /\ pc'[s].run = "returned" /\ pc'[s].ctor = pc[s].ctor
        /\ pc'[s].reactor = pc[s].reactor
    BY <1>1, <1>9, Zenon DEF GuardClose, Types, Threads
  <2> QED
    BY <2>1, <2>2, <2>3, ClosedHeld, Zenon DEF Active, Holding
<1>10. CASE StopState(s, "run")
  BY <1>10, StopHeld, Zenon
<1>11. CASE ReactorTop(s)
  <2>1. pc[s].run = "joining"
    BY <1>1, <1>11, Zenon DEF ReactorTop, At, Held
  <2> QED
    BY <1>1, <1>11, <2>1, SameKeeps, MovedHeld, Zenon DEF ReactorTop
<1>12. CASE ReactorWoken(s)
  <2>1. pc[s].run = "joining"
    BY <1>1, <1>12, Zenon DEF ReactorWoken, At, Held
  <2>2. Keeps(s)
    BY <1>1, <1>12, Zenon DEF ReactorWoken, Keeps, Types, Fields
  <2> QED
    BY <1>1, <1>12, <2>1, <2>2, MovedHeld, Zenon DEF ReactorWoken
<1>13. CASE ReactorEvent(s)
  <2>1. pc[s].run = "joining"
    BY <1>1, <1>13, Zenon DEF ReactorEvent, At, Held
  <2> QED
    BY <1>1, <1>13, <2>1, SameKeeps, MovedHeld, Zenon DEF ReactorEvent
<1> QED
  BY <1>3, <1>4, <1>5, <1>6, <1>7, <1>8, <1>9, <1>10, <1>11, <1>12, <1>13, Zenon DEF Run

\* The process of a server dies.
LEMMA CrashHeld == ASSUME IInv, NEW s \in Servers, Crash(s) PROVE IInv'
<1>1. Types
  BY Zenon DEF IInv
<1>2. /\ pc' = [pc EXCEPT ![s] = [t \in Threads |-> "gone"]]
      /\ srv' = [srv EXCEPT ![s] = Fresh] /\ LockMoves(s)
  BY Zenon DEF Crash, LockMoves
<1>3. Only(s)
  BY <1>1, <1>2, Zenon DEF Only, Types, Fresh, Fields
<1>4. Held(s)'
  BY <1>1, <1>2, Zenon DEF Held, Types, Threads, Fresh, Holding, Active
<1> QED
  BY <1>2, <1>3, <1>4, OthersHeld, Zenon

\* Every step preserves the invariant.
LEMMA HeldStep == IInv /\ [Next]_vars => IInv'
<1> SUFFICES ASSUME IInv, [Next]_vars PROVE IInv'
  BY Zenon
<1>1. CASE UNCHANGED vars
  BY <1>1, Zenon DEF vars, IInv, Types, Held
<1>2. ASSUME NEW s \in Servers, CallStop(s) \/ Destroy(s) \/ AwaitRun(s) PROVE IInv'
  <2>1. Held(s) /\ UNCHANGED <<lock, srv>> /\ {"stop", "dtor"} \subseteq Threads
    BY <1>2, Zenon DEF IInv, CallStop, Destroy, AwaitRun, Threads
  <2>2. pc[s].ctor \notin Holding \cup {"start"}
    BY <1>2, <2>1, Zenon DEF CallStop, Destroy, AwaitRun, At, Held, Holding
  <2>3. PICK t \in {"stop", "dtor"} : \E l \in {"flag", "asleep", "done"} : Goto(s, t, l)
    BY <1>2, Zenon DEF CallStop, Destroy, AwaitRun
  <2> QED
    BY <2>1, <2>2, <2>3, SameKeeps, MovedHeld, Zenon
<1> QED
  BY <1>1, <1>2, ConstructHeld, RunHeld, StopHeld, CrashHeld, Zenon DEF Next

\* The listener, the wakeup and the instance lock stay open while run() or the reactor
\* uses them: however stop(), the destructor, failing constructors and dying processes
\* of any number of servers of one path interleave, none closes them under the other.
THEOREM OpenWhileUsed == Spec => []OpenWhileRunning
<1>1. IInv => OpenWhileRunning
  BY Zenon DEF IInv, Held, OpenWhileRunning, Active
<1> QED
  BY InitHeld, HeldStep, <1>1, PTL DEF Spec

-----------------------------------------------------------------------------
\* The path.  While a constructor holds the lock nobody else binds the path, so it
\* holds what the constructor saw there, or nothing; and it never holds the socket of
\* a server that has yet to bind one.
Unbound == {"start", "look", "probe", "recheck", "final", "remove", "bind"}
PathOf(s) ==
    /\ pc[s].ctor \in {"probe", "recheck", "final", "remove"} => entry \in {None, srv[s].before}
    /\ pc[s].ctor = "bind" => entry = None
    /\ pc[s].ctor \in Unbound => entry # s
    /\ srv[s].listening => srv[s].open
    /\ srv[s].why \notin {"inUse", "changed", "bind"}

PathInv == entry \in Servers \cup {None} /\ \A s \in Servers : PathOf(s)

\* What a step of server s does to the path: nothing, an unlink of whatever is there,
\* or the bind of a constructor that holds the lock.
EntryMoves(s) == entry' \in {entry, None} \/ (lock = s /\ entry' = s)

\* The initial state satisfies the invariant of the path.
LEMMA InitPath == Init => PathInv
<1> SUFFICES ASSUME Init, NEW s \in Servers PROVE PathOf(s)
  BY Zenon DEF PathInv, Init
<1>1. /\ pc[s].ctor = "start" /\ entry = None
      /\ ~srv[s].open /\ ~srv[s].listening /\ srv[s].why = ""
  BY Zenon DEF Init, Fresh
<1> QED
  BY <1>1, NoneAssumption, Zenon DEF PathOf

\* A step of one server keeps what the others know of the path: only the holder of the
\* lock binds.
LEMMA OthersPath ==
    ASSUME IInv, PathInv, NEW s \in Servers, Only(s), EntryMoves(s), PathOf(s)'
    PROVE  PathInv'
<1>1. ASSUME NEW u \in Servers, u # s PROVE PathOf(u)'
  <2>1. pc'[u] = pc[u] /\ srv'[u] = srv[u] /\ Held(u) /\ PathOf(u)
    BY <1>1, Zenon DEF Only, IInv, PathInv
  <2>2. pc[u].ctor \in Holding => entry' \in {entry, None}
    BY <1>1, <2>1, Zenon DEF Held, EntryMoves
  <2>3. entry # u => entry' # u
    BY <1>1, NoneAssumption, Zenon DEF EntryMoves
  <2> QED
    BY <2>1, <2>2, <2>3, Zenon DEF PathOf, Holding
<1>2. entry' \in Servers \cup {None}
  BY Zenon DEF PathInv, EntryMoves
<1> QED
  BY <1>1, <1>2, Zenon DEF PathInv

\* ServerState changes in s alone, and not in what the path depends on.
SamePath(s) ==
    /\ DOMAIN srv' = Servers /\ \A u \in Servers : DOMAIN srv'[u] = Fields
    /\ \A u \in Servers : u # s => srv'[u] = srv[u]
    /\ srv'[s].open = srv[s].open /\ srv'[s].listening = srv[s].listening
    /\ srv'[s].why = srv[s].why

\* The constructor stands where it stood while another thread of s takes its step.
Aside(s) ==
    /\ DOMAIN pc' = Servers /\ \A u \in Servers : DOMAIN pc'[u] = Threads
    /\ \A u \in Servers : u # s => pc'[u] = pc[u]
    /\ pc'[s].ctor = pc[s].ctor

\* A thread other than the constructor moves on.
LEMMA AsideMoves ==
    ASSUME Types, NEW s \in Servers, NEW t \in Threads \ {"ctor"}, NEW l, Goto(s, t, l)
    PROVE  Aside(s)
<1>1. t \in Threads /\ t # "ctor" /\ "ctor" \in Threads
  BY Zenon DEF Threads
<1> QED
  BY <1>1, GotoMoves, Zenon DEF Aside

\* A thread other than the constructor leaves the path alone, or unlinks what is there.
LEMMA MovedPath ==
    ASSUME IInv, PathInv, NEW s \in Servers, Aside(s), entry' \in {entry, None},
           SamePath(s), srv'[s].before = srv[s].before
    PROVE  PathInv'
<1>1. Only(s) /\ EntryMoves(s) /\ PathOf(s)
  BY Zenon DEF Only, Aside, SamePath, EntryMoves, PathInv
<1>2. PathOf(s)'
  BY <1>1, NoneAssumption, Zenon DEF PathOf, SamePath, Aside
<1> QED
  BY <1>1, <1>2, OthersPath, Zenon

\* The constructor moves on with the lock in hand.
LEMMA BuiltPath ==
    ASSUME IInv, PathInv, NEW s \in Servers, NEW l \in Holding,
           Goto(s, "ctor", l), SamePath(s), EntryMoves(s),
           l \in {"probe", "recheck", "final", "remove"} => entry' \in {None, srv'[s].before},
           l = "bind" => entry' = None,
           l \in Unbound => pc[s].ctor \in Unbound /\ entry' \in {entry, None}
    PROVE  PathInv'
<1>1. Types /\ PathOf(s) /\ "ctor" \in Threads
  BY Zenon DEF IInv, PathInv, Threads
<1>2. pc'[s].ctor = l
  BY <1>1, GotoMoves
<1>3. Only(s)
  BY <1>1, GotoMoves, Zenon DEF Only, SamePath
<1>4. PathOf(s)'
  BY <1>1, <1>2, NoneAssumption, Zenon DEF PathOf, SamePath
<1> QED
  BY <1>3, <1>4, OthersPath, Zenon

\* The constructor fails, for a reason other than what the path holds.
LEMMA FailedPath ==
    ASSUME IInv, PathInv, NEW s \in Servers, NEW why \in {"locked", "setup"}, Failed(s, why),
           UNCHANGED entry
    PROVE  PathInv'
<1>1. Types /\ PathOf(s) /\ "ctor" \in Threads
  BY Zenon DEF IInv, PathInv, Threads
<1>2. pc'[s].ctor = "failed"
  BY <1>1, GotoMoves, Zenon DEF Failed
<1>3. /\ DOMAIN srv' = Servers /\ \A u \in Servers : DOMAIN srv'[u] = Fields
      /\ \A u \in Servers : u # s => srv'[u] = srv[u]
      /\ ~srv'[s].listening /\ srv'[s].why = why
  BY <1>1, Zenon DEF Failed, Types, Fields
<1>4. Only(s) /\ EntryMoves(s)
  BY <1>1, <1>3, GotoMoves DEF Only, EntryMoves, Failed
<1>5. PathOf(s)'
  BY <1>2, <1>3, Zenon DEF PathOf, Unbound
<1> QED
  BY <1>4, <1>5, OthersPath, Zenon

\* unlink_owned_socket takes what the path names, whoever has bound it since.
LEMMA UnlinkPath ==
    ASSUME IInv, PathInv, NEW s \in Servers, NEW t \in {"ctor", "run", "stop", "dtor"},
           CompareIdentity(s, t) \/ UnlinkOwned(s, t)
    PROVE  PathInv'
<1>1. Types /\ Held(s) /\ PathOf(s) /\ t \in Threads
  BY Zenon DEF IInv, PathInv, Threads
<1>2. PICK call \in {"inspect", "guard", "undo"} :
         /\ \E l \in {Unlinking[call].match, Unlinking[call].done} : Goto(s, t, l)
         /\ At(s, t, call) \/ At(s, t, Unlinking[call].match)
         /\ srv' = [srv EXCEPT ![s].running = @ /\ call # "guard"] \/ UNCHANGED srv
         /\ entry' \in {entry, None}
  BY Zenon DEF CompareIdentity, UnlinkOwned, Unlinking
<1>3. SamePath(s) /\ srv'[s].before = srv[s].before
  BY <1>1, <1>2, Zenon DEF SamePath, Types, Fields
<1>4. PICK l \in {Unlinking[call].match, Unlinking[call].done} : Goto(s, t, l)
  BY <1>2, Zenon
<1>5. CASE t = "ctor"
  <2>1. pc[s].ctor \in {"inspect", "unlink", "guard", "guardUnlink", "undo", "undoUnlink"}
    BY <1>2, <1>5 DEF At, Unlinking
  <2>2. pc[s].ctor \in {"undo", "undoUnlink"}
    BY <1>1, <2>1, Zenon DEF Held, Holding
  <2>3. l \in {"undoUnlink", "abandon"}
    BY <1>2, <1>4, <1>5, <2>2 DEF At, Unlinking
  <2> QED
    BY <1>2, <1>3, <1>4, <1>5, <2>3, BuiltPath, Zenon DEF EntryMoves, Holding, Unbound
<1>6. CASE t # "ctor"
  BY <1>1, <1>2, <1>3, <1>4, <1>6, AsideMoves, MovedPath, Zenon
<1> QED
  BY <1>5, <1>6, Zenon

\* Steps of the constructor.  With the lock in hand it finds nobody listening and nobody
\* replacing the entry, so it fails for what the path holds in no case.
LEMMA ConstructPath == ASSUME IInv, PathInv, NEW s \in Servers, Construct(s) PROVE PathInv'
<1>1. Types /\ Held(s) /\ PathOf(s)
  BY Zenon DEF IInv, PathInv
<1>2. ASSUME NEW u \in Servers, pc[s].ctor \in Holding PROVE ~srv[u].listening
  BY <1>2, <1>1, Zenon DEF IInv, PathInv, Held, PathOf, Holding
<1>3. ASSUME UNCHANGED srv PROVE SamePath(s) /\ srv'[s].before = srv[s].before
  BY <1>1, <1>3, Zenon DEF SamePath, Types
<1>4. ASSUME UNCHANGED entry PROVE EntryMoves(s)
  BY <1>4, Zenon DEF EntryMoves
<1>5. CASE AcquireInstanceLock(s)
  <2>1. CASE Failed(s, "locked")
    BY <1>5, <2>1, FailedPath, Zenon DEF AcquireInstanceLock
  <2>2. CASE Goto(s, "ctor", "look") /\ UNCHANGED srv
    BY <1>3, <1>4, <1>5, <2>2, BuiltPath, Zenon DEF AcquireInstanceLock, At, Holding, Unbound
  <2> QED
    BY <1>5, <2>1, <2>2, Zenon DEF AcquireInstanceLock
<1>6. CASE InspectPath(s)
  <2>1. SamePath(s) /\ srv'[s].before = entry
    BY <1>1, <1>6, Zenon DEF InspectPath, SamePath, Types, Fields
  <2>2. PICK l \in {"bind", "probe"} : Goto(s, "ctor", l) /\ (l = "bind" => entry = None)
    BY <1>6, Zenon DEF InspectPath
  <2> QED
    BY <1>4, <1>6, <2>1, <2>2, BuiltPath, Zenon DEF InspectPath, At, Holding, Unbound
<1>7. ASSUME NEW l \in {"probe", "recheck", "final", "remove", "bind"}, Goto(s, "ctor", l),
             UNCHANGED <<entry, srv>>, pc[s].ctor \in {"probe", "recheck", "final"},
             l = "bind" => entry = None
      PROVE  PathInv'
  BY <1>1, <1>3, <1>4, <1>7, BuiltPath, Zenon DEF Holding, PathOf, Unbound
<1>8. CASE Probe(s)
  <2>1. pc[s].ctor = "probe" /\ UNCHANGED entry /\ (entry # None => entry \in Servers)
    BY <1>8, Zenon DEF Probe, At, PathInv
  <2> QED
    BY <1>2, <1>7, <1>8, <2>1, Zenon DEF Probe, Holding
<1>9. CASE Recheck(s) \/ FinalCheck(s)
  <2>1. pc[s].ctor \in {"recheck", "final"} /\ UNCHANGED entry
    BY <1>9, Zenon DEF Recheck, FinalCheck, At
  <2>2. PICK l \in {"probe", "final", "remove"} : Unchanged(s, l)
    BY <1>9, Zenon DEF Recheck, FinalCheck
  <2>3. entry \in {None, srv[s].before}
    BY <1>1, <2>1, Zenon DEF PathOf
  <2> QED
    BY <1>7, <2>1, <2>2, <2>3, Zenon DEF Unchanged
<1>10. CASE RemoveStale(s)
  <2>1. EntryMoves(s)
    BY <1>10, Zenon DEF RemoveStale, EntryMoves
  <2> QED
    BY <1>3, <1>10, <2>1, BuiltPath, Zenon DEF RemoveStale, At, Holding, Unbound
<1>11. CASE Bind(s)
  <2>1. pc[s].ctor = "bind" /\ entry = None /\ lock = s
    BY <1>1, <1>11, Zenon DEF Bind, At, PathOf, Held, Holding
  <2>2. EntryMoves(s)
    BY <1>11, <2>1, Zenon DEF Bind, EntryMoves
  <2> QED
    BY <1>3, <1>11, <2>1, <2>2, BuiltPath, Zenon DEF Bind, Holding, Unbound
<1>12. CASE Identify(s)
  <2>1. CASE srv' = [srv EXCEPT ![s].valid = TRUE] /\ Goto(s, "ctor", "chmod")
    <3>1. SamePath(s)
      BY <1>1, <2>1, Zenon DEF SamePath, Types, Fields
    <3> QED
      BY <1>4, <1>12, <2>1, <3>1, BuiltPath, Zenon DEF Identify, Holding, Unbound
  <2>2. CASE Failed(s, "setup")
    BY <1>12, <2>2, FailedPath, Zenon DEF Identify
  <2> QED
    BY <1>12, <2>1, <2>2, Zenon DEF Identify
<1>13. CASE ApplyPermissions(s)
  BY <1>3, <1>4, <1>13, BuiltPath, Zenon DEF ApplyPermissions, Holding, Unbound
<1>14. CASE Listen(s)
  <2>1. UNCHANGED entry
    BY <1>14, Zenon DEF Listen
  <2>2. CASE /\ srv' = [srv EXCEPT ![s].listening = TRUE, ![s].open = TRUE]
             /\ Goto(s, "ctor", "made")
    <3>1. /\ DOMAIN srv' = Servers /\ \A u \in Servers : DOMAIN srv'[u] = Fields
          /\ \A u \in Servers : u # s => srv'[u] = srv[u]
          /\ srv'[s].open /\ srv'[s].why = srv[s].why
      BY <1>1, <2>2, Zenon DEF Types, Fields
    <3>2. pc'[s].ctor = "made"
      BY <1>1, <2>2, GotoMoves, Zenon DEF Threads
    <3>3. Only(s)
      BY <1>1, <2>2, <3>1, GotoMoves DEF Only, Threads
    <3>4. PathOf(s)'
      BY <1>1, <3>1, <3>2, Zenon DEF PathOf, Unbound
    <3> QED
      BY <1>4, <2>1, <3>3, <3>4, OthersPath, Zenon
  <2>3. CASE Goto(s, "ctor", "undo") /\ UNCHANGED srv
    BY <1>3, <1>4, <2>1, <2>3, BuiltPath, Zenon DEF Holding, Unbound
  <2> QED
    BY <1>14, <2>2, <2>3, Zenon DEF Listen
<1>15. CASE Abandon(s)
  BY <1>15, FailedPath, Zenon DEF Abandon
<1>16. CASE CompareIdentity(s, "ctor") \/ UnlinkOwned(s, "ctor")
  BY <1>16, UnlinkPath, Zenon
<1> QED
  BY <1>5, <1>6, <1>8, <1>9, <1>10, <1>11, <1>12, <1>13, <1>14, <1>15, <1>16, Zenon DEF Construct

\* close_lifecycle_fds_locked: what is closed does not listen.
LEMMA ClosedPath ==
    ASSUME IInv, PathInv, NEW s \in Servers, Closed(s), UNCHANGED entry, Aside(s),
           pc[s].ctor \notin Holding
    PROVE  PathInv'
<1>1. Types /\ PathOf(s)
  BY Zenon DEF IInv, PathInv
<1>2. /\ DOMAIN srv' = Servers /\ \A u \in Servers : DOMAIN srv'[u] = Fields
      /\ \A u \in Servers : u # s => srv'[u] = srv[u]
      /\ ~srv'[s].listening /\ srv'[s].why = srv[s].why
  BY <1>1, Zenon DEF Closed, Types, Fields
<1>3. Only(s) /\ EntryMoves(s)
  BY <1>2, Zenon DEF Only, Aside, EntryMoves
<1>4. PathOf(s)'
  BY <1>1, <1>2, Zenon DEF PathOf, Aside, Holding
<1> QED
  BY <1>3, <1>4, OthersPath, Zenon

\* Steps of stop_state, whoever calls it.
LEMMA StopPath ==
    ASSUME IInv, PathInv, NEW s \in Servers, NEW t \in {"run", "stop", "dtor"}, StopState(s, t)
    PROVE  PathInv'
<1>1. Types /\ Held(s) /\ t \in Threads \ {"ctor"}
  BY Zenon DEF IInv, Threads
<1>2. CASE ClearRunning(s, t)
  <2>1. SamePath(s) /\ srv'[s].before = srv[s].before
    BY <1>1, <1>2, Zenon DEF ClearRunning, SamePath, Types, Fields
  <2> QED
    BY <1>1, <1>2, <2>1, AsideMoves, MovedPath, Zenon DEF ClearRunning
<1>3. CASE MarkStopped(s, t)
  <2>1. PICK closers, event :
           srv' = [srv EXCEPT ![s].stopped = TRUE, ![s].closers = closers, ![s].event = event]
    BY <1>3, Zenon DEF MarkStopped, Marked
  <2>2. SamePath(s) /\ srv'[s].before = srv[s].before
    BY <1>1, <2>1, Zenon DEF SamePath, Types, Fields
  <2> QED
    BY <1>1, <1>3, <2>2, AsideMoves, MovedPath, Zenon DEF MarkStopped, Marked
<1>4. CASE StopPools(s, t)
  <2>1. SamePath(s) /\ srv'[s].before = srv[s].before
    BY <1>1, <1>4, Zenon DEF StopPools, SamePath, Types, Fields
  <2> QED
    BY <1>1, <1>4, <2>1, AsideMoves, MovedPath, Zenon DEF StopPools
<1>5. CASE CloseWithoutRun(s, t)
  <2>1. Aside(s) /\ UNCHANGED entry
    BY <1>1, <1>5, AsideMoves, Zenon DEF CloseWithoutRun
  <2>2. CASE UNCHANGED srv
    <3>1. SamePath(s) /\ srv'[s].before = srv[s].before
      BY <1>1, <2>2, Zenon DEF SamePath, Types
    <3> QED
      BY <2>1, <3>1, MovedPath, Zenon
  <2>3. CASE Closed(s)
    <3>1. pc[s].ctor \notin Holding
      BY <1>1, <1>5, Zenon DEF CloseWithoutRun, At, Held, Active
    <3> QED
      BY <2>1, <2>3, <3>1, ClosedPath, Zenon
  <2> QED
    BY <1>5, <2>2, <2>3, Zenon DEF CloseWithoutRun
<1>6. CASE CompareIdentity(s, t) \/ UnlinkOwned(s, t)
  BY <1>6, UnlinkPath, Zenon
<1> QED
  BY <1>2, <1>3, <1>4, <1>5, <1>6, Zenon DEF StopState

\* Steps of run() of its own, of the reactor, and the calls of stop() and the destructor.
LEMMA RunPath ==
    ASSUME IInv, PathInv, NEW s \in Servers,
           \/ RunBegin(s) \/ Run(s) \/ ReactorTop(s) \/ ReactorWoken(s) \/ ReactorEvent(s)
           \/ CallStop(s) \/ Destroy(s) \/ AwaitRun(s)
    PROVE  PathInv'
<1>1. Types /\ Held(s) /\ {"run", "reactor", "stop", "dtor"} \subseteq Threads \ {"ctor"}
  BY Zenon DEF IInv, Threads
<1>2. ASSUME NEW t \in {"run", "reactor", "stop", "dtor"}, NEW l, Goto(s, t, l),
             UNCHANGED entry, SamePath(s), srv'[s].before = srv[s].before
      PROVE  PathInv'
  BY <1>1, <1>2, AsideMoves, MovedPath, Zenon
<1>3. UNCHANGED srv => SamePath(s) /\ srv'[s].before = srv[s].before
  BY <1>1, Zenon DEF SamePath, Types
<1>4. CASE RunBegin(s)
  <2>1. SamePath(s) /\ srv'[s].before = srv[s].before
    BY <1>1, <1>4 DEF RunBegin, SamePath, Types, Fields
  <2> QED
    BY <1>2, <1>4, <2>1, Zenon DEF RunBegin
<1>5. CASE RegisterSources(s) \/ JoinReactor(s) \/ JoinWorkers(s)
  BY <1>2, <1>3, <1>5, Zenon DEF RegisterSources, JoinReactor, JoinWorkers
<1>6. CASE Arm(s)
  <2>1. SamePath(s) /\ srv'[s].before = srv[s].before
    BY <1>1, <1>6 DEF Arm, SamePath, Types, Fields
  <2> QED
    BY <1>2, <1>6, <2>1, Zenon DEF Arm
<1>7. CASE Spawn(s)
  <2>1. UNCHANGED <<entry, srv>>
    BY <1>7, Zenon DEF Spawn
  <2>2. CASE pc' = [pc EXCEPT ![s].run = "joining", ![s].reactor = "top"]
    <3>1. Aside(s)
      BY <1>1, <2>2, Zenon DEF Types, Threads, Aside
    <3> QED
      BY <1>3, <2>1, <3>1, MovedPath, Zenon
  <2>3. CASE Goto(s, "run", "flag")
    BY <1>2, <1>3, <2>1, <2>3, Zenon
  <2> QED
    BY <1>7, <2>2, <2>3, Zenon DEF Spawn
<1>8. CASE GuardClose(s)
  <2>1. pc[s].run = "close" /\ Closed(s) /\ UNCHANGED entry
    BY <1>8, Zenon DEF GuardClose, At
  <2>2. pc[s].ctor \notin Holding
    BY <1>1, <2>1, Zenon DEF Held, Active, Holding
  <2>3. Aside(s)
    BY <1>1, <1>8, Zenon DEF GuardClose, Types, Threads, Aside
  <2> QED
    BY <2>1, <2>2, <2>3, ClosedPath, Zenon
<1>9. CASE StopState(s, "run")
  BY <1>9, StopPath, Zenon
<1>10. CASE ReactorWoken(s)
  <2>1. SamePath(s) /\ srv'[s].before = srv[s].before
    BY <1>1, <1>10, Zenon DEF ReactorWoken, SamePath, Types, Fields
  <2> QED
    BY <1>2, <1>10, <2>1, Zenon DEF ReactorWoken
<1>11. CASE ReactorTop(s) \/ ReactorEvent(s)
  BY <1>2, <1>3, <1>11, Zenon DEF ReactorTop, ReactorEvent
<1>12. CASE CallStop(s) \/ Destroy(s) \/ AwaitRun(s)
  BY <1>2, <1>3, <1>12, Zenon DEF CallStop, Destroy, AwaitRun
<1> QED
  BY <1>4, <1>5, <1>6, <1>7, <1>8, <1>9, <1>10, <1>11, <1>12, Zenon DEF Run

\* The process of a server dies, and leaves the path as it is.
LEMMA CrashPath == ASSUME IInv, PathInv, NEW s \in Servers, Crash(s) PROVE PathInv'
<1>1. Types
  BY Zenon DEF IInv
<1>2. /\ pc' = [pc EXCEPT ![s] = [t \in Threads |-> "gone"]]
      /\ srv' = [srv EXCEPT ![s] = Fresh] /\ EntryMoves(s)
  BY Zenon DEF Crash, EntryMoves
<1>3. Only(s)
  BY <1>1, <1>2, Zenon DEF Only, Types, Fresh, Fields
<1>4. pc'[s].ctor = "gone" /\ ~srv'[s].listening /\ srv'[s].why = ""
  BY <1>1, <1>2, Zenon DEF Types, Fresh, Threads
<1>5. PathOf(s)'
  BY <1>4, Zenon DEF PathOf, Unbound
<1> QED
  BY <1>2, <1>3, <1>5, OthersPath, Zenon

\* Every step preserves the invariant of the path.
LEMMA PathStep == IInv /\ PathInv /\ [Next]_vars => PathInv'
<1> SUFFICES ASSUME IInv, PathInv, [Next]_vars PROVE PathInv'
  BY Zenon
<1>1. CASE UNCHANGED vars
  BY <1>1, Zenon DEF vars, PathInv, PathOf
<1> QED
  BY <1>1, ConstructPath, RunPath, StopPath, CrashPath, Zenon DEF Next

\* The instance lock makes the removal of a stale socket safe: however the constructors,
\* stops, destructors and crashes of any number of servers interleave, what
\* remove_stale_socket unlinks belongs to no server that is being made or is open.
THEOREM StaleRemovalIsSafe == Spec => []OnlyStaleRemoved
<1>1. ASSUME IInv, PathInv, NEW s \in Servers, NEW owner \in Servers,
             At(s, "ctor", "remove"), entry = owner
      PROVE  ~srv[owner].open /\ pc[owner].ctor \in {"made", "failed", "gone"}
  <2>1. Held(s) /\ PathOf(s) /\ Held(owner) /\ PathOf(owner) /\ pc[s].ctor = "remove"
    BY <1>1, Zenon DEF IInv, PathInv, At
  <2>2. lock = s /\ owner # s
    BY <1>1, <2>1, Zenon DEF Held, Holding, PathOf, Unbound
  <2>3. ~srv[owner].open /\ pc[owner].ctor \notin Holding
    BY <2>1, <2>2, Zenon DEF Held
  <2>4. pc[owner].ctor # "start"
    BY <1>1, <2>1, Zenon DEF PathOf, Unbound
  <2> QED
    BY <2>1, <2>3, <2>4, Zenon DEF Held
<1>2. IInv /\ PathInv => OnlyStaleRemoved
  BY <1>1, Zenon DEF OnlyStaleRemoved
<1> QED
  BY InitHeld, HeldStep, InitPath, PathStep, <1>2, PTL DEF Spec

\* The instance lock makes remove_stale_socket exact: a constructor never takes the
\* socket of a dead server for one in use, never sees it replaced under its checks, and
\* never finds the path taken when it binds.
THEOREM StaleSocketsAreRecovered == Spec => []StaleIsRecovered
<1>1. PathInv => StaleIsRecovered
  BY Zenon DEF PathInv, PathOf, StaleIsRecovered
<1> QED
  BY InitHeld, HeldStep, InitPath, PathStep, <1>1, PTL DEF Spec
=============================================================================
