--------------------------- MODULE ServerLifecycle ---------------------------
(***************************************************************************)
(* The life of Server objects that share one socket path: the constructor  *)
(* with its instance lock and its removal of a stale socket, run(), stop() *)
(* from another thread, the destructor, and the death of a process.        *)
(*                                                                         *)
(* The path holds the socket of the server that bound it, which stands for *)
(* its device and inode.  The threads of a server are its constructor, the *)
(* caller of run(), the reactor, a caller of stop() and the destructor.    *)
(***************************************************************************)
EXTENDS Integers, FiniteSets

CONSTANTS Servers,     \* Server objects of one socket path
          None,        \* no entry, no holder
          MaxCrashes   \* bound: processes that die

ASSUME CrashAssumption == MaxCrashes \in Nat
ASSUME NoneAssumption == None \notin Servers

Threads == {"ctor", "run", "reactor", "stop", "dtor"}

VARIABLES entry,     \* whose socket the path names
          lock,      \* who holds the lock on <socket_path>.lock
          srv,       \* ServerState of each server
          pc,        \* where each thread of each server is
          crashes    \* processes that have died

vars == <<entry, lock, srv, pc, crashes>>

Calls == {"flag", "mark", "inspect", "unlink", "pools", "closeIdle"}
Labels == [ctor |-> {"start", "look", "probe", "recheck", "final", "remove", "bind",
                     "identify", "chmod", "listen", "undo", "undoUnlink",
                     "abandon", "made", "failed", "gone"},
           run |-> Calls \cup {"idle", "setup", "arm", "spawn", "joining", "join",
                     "guard", "guardUnlink", "close", "threw",
                     "returned", "gone"},
           reactor |-> {"off", "top", "poll", "exited", "gone"},
           stop |-> Calls \cup {"idle", "done", "gone"},
           dtor |-> Calls \cup {"idle", "wait", "asleep", "done", "gone"}]

\* One type invariant: every thread is at a label of its own, the wakeup counter
\* is bounded by the calls of stop_state, and only a call that found no active
\* run() may close the descriptors.
TypeOK ==
    /\ entry \in Servers \cup {None} /\ lock \in Servers \cup {None}
    /\ crashes \in 0..MaxCrashes
    /\ \A s \in Servers :
          /\ \A t \in Threads : pc[s][t] \in Labels[t]
          /\ srv[s].before \in Servers \cup {None}
          /\ srv[s].closers \subseteq {"stop", "dtor"} /\ srv[s].event \in 0..3
          /\ srv[s].why \in {"", "locked", "inUse", "changed", "bind", "setup"}

Fresh == [before |-> None, valid |-> FALSE, open |-> FALSE, listening |-> FALSE,
          stopped |-> FALSE, runActive |-> FALSE, running |-> FALSE, event |-> 0,
          stopping |-> FALSE, closers |-> {}, why |-> ""]

Init ==
    /\ entry = None /\ lock = None
    /\ srv = [s \in Servers |-> Fresh]
    /\ pc = [s \in Servers |-> [ctor |-> "start", run |-> "idle", reactor |-> "off",
                                stop |-> "idle", dtor |-> "idle"]]
    /\ crashes = 0

At(s, t, label) == pc[s][t] = label
Goto(s, t, label) == pc' = [pc EXCEPT ![s][t] = label]

-----------------------------------------------------------------------------
\* The constructor.  A failure releases what it holds while unwinding.

Failed(s, why) ==
    /\ srv' = [srv EXCEPT ![s].why = why, ![s].listening = FALSE]
    /\ lock' = IF lock = s THEN None ELSE lock
    /\ Goto(s, "ctor", "failed")

\* Faulty: goes on without the lock, which it takes when it is free.
AcquireNoLock(s) ==
    /\ At(s, "ctor", "start")
    /\ lock' = IF lock = None THEN s ELSE lock
    /\ Goto(s, "ctor", "look")
    /\ UNCHANGED <<entry, srv, crashes>>

AcquireInstanceLock(s) ==
    /\ At(s, "ctor", "start")
    /\ \/ lock = None /\ lock' = s /\ Goto(s, "ctor", "look") /\ UNCHANGED srv
       \/ lock # None /\ Failed(s, "locked")
    /\ UNCHANGED <<entry, crashes>>

\* remove_stale_socket: the entry found first, ...
InspectPath(s) ==
    /\ At(s, "ctor", "look")
    /\ srv' = [srv EXCEPT ![s].before = entry]
    /\ Goto(s, "ctor", IF entry = None THEN "bind" ELSE "probe")
    /\ UNCHANGED <<entry, lock, crashes>>

\* Faulty: takes a refused connection for a server in use.
ProbeRefused(s) ==
    /\ At(s, "ctor", "probe")
    /\ \/ entry = None /\ Goto(s, "ctor", "bind") /\ UNCHANGED <<lock, srv>>
       \/ entry # None /\ Failed(s, "inUse")
    /\ UNCHANGED <<entry, crashes>>

\* ... a connection to it, which a listening socket accepts, ...
Probe(s) ==
    /\ At(s, "ctor", "probe")
    /\ \/ entry = None /\ Goto(s, "ctor", "bind") /\ UNCHANGED <<lock, srv>>
       \/ entry # None /\ srv[entry].listening /\ Failed(s, "inUse")
       \/ entry # None /\ ~srv[entry].listening
          /\ Goto(s, "ctor", "recheck") /\ UNCHANGED <<lock, srv>>
    /\ UNCHANGED <<entry, crashes>>

\* ... the same entry again, before the next probe or after the grace period, ...
Unchanged(s, next) ==
    \/ entry = None /\ Goto(s, "ctor", "bind") /\ UNCHANGED <<lock, srv>>
    \/ entry \notin {None, srv[s].before} /\ Failed(s, "changed")
    \/ entry # None /\ entry = srv[s].before
       /\ Goto(s, "ctor", next) /\ UNCHANGED <<lock, srv>>

Recheck(s) ==
    /\ At(s, "ctor", "recheck")
    /\ \E next \in {"probe", "final"} : Unchanged(s, next)
    /\ UNCHANGED <<entry, crashes>>

FinalCheck(s) ==
    /\ At(s, "ctor", "final")
    /\ Unchanged(s, "remove")
    /\ UNCHANGED <<entry, crashes>>

\* ... and its removal.
RemoveStale(s) ==
    /\ At(s, "ctor", "remove")
    /\ entry' = None /\ Goto(s, "ctor", "bind")
    /\ UNCHANGED <<lock, srv, crashes>>

Bind(s) ==
    /\ At(s, "ctor", "bind")
    /\ \/ entry = None /\ entry' = s /\ Goto(s, "ctor", "identify")
          /\ UNCHANGED <<lock, srv>>
       \/ entry # None /\ Failed(s, "bind") /\ UNCHANGED entry
    /\ UNCHANGED crashes

Identify(s) ==
    /\ At(s, "ctor", "identify")
    /\ \/ entry = s /\ srv' = [srv EXCEPT ![s].valid = TRUE]
          /\ Goto(s, "ctor", "chmod") /\ UNCHANGED lock
       \/ entry # s /\ Failed(s, "setup")
    /\ UNCHANGED <<entry, crashes>>

\* chmod and the comparison of the path with the bound identity.
ApplyPermissions(s) ==
    /\ At(s, "ctor", "chmod")
    /\ \/ entry = s /\ Goto(s, "ctor", "listen")
       \/ Goto(s, "ctor", "undo")
    /\ UNCHANGED <<entry, lock, srv, crashes>>

\* listen, the wakeup source, and the hand-over to ServerState.
Listen(s) ==
    /\ At(s, "ctor", "listen")
    /\ \/ /\ srv' = [srv EXCEPT ![s].listening = TRUE, ![s].open = TRUE]
          /\ Goto(s, "ctor", "made")
       \/ Goto(s, "ctor", "undo") /\ UNCHANGED srv
    /\ UNCHANGED <<entry, lock, crashes>>

Abandon(s) == At(s, "ctor", "abandon") /\ Failed(s, "setup") /\ UNCHANGED <<entry, crashes>>

-----------------------------------------------------------------------------
\* unlink_owned_socket, called by stop_state, by RunActiveGuard and by a failing
\* constructor: it compares the path with the bound identity, then unlinks.

Unlinking == [inspect |-> [match |-> "unlink", done |-> "pools"],
              guard |-> [match |-> "guardUnlink", done |-> "close"],
              undo |-> [match |-> "undoUnlink", done |-> "abandon"]]

CompareIdentity(s, t) ==
    \E call \in DOMAIN Unlinking :
        LET match == srv[s].valid /\ entry = s IN
        /\ At(s, t, call)
        /\ Goto(s, t, IF match THEN Unlinking[call].match ELSE Unlinking[call].done)
        /\ srv' = [srv EXCEPT ![s].running = @ /\ call # "guard"]
        /\ UNCHANGED <<entry, lock, crashes>>

UnlinkOwned(s, t) ==
    \E call \in DOMAIN Unlinking :
        /\ At(s, t, Unlinking[call].match)
        /\ Goto(s, t, Unlinking[call].done)
        /\ entry' = None
        /\ UNCHANGED <<lock, srv, crashes>>

-----------------------------------------------------------------------------
\* stop_state, by the caller of stop(), the destructor or run() itself.

AfterStop == [run |-> "join", stop |-> "done", dtor |-> "wait"]

ClearRunning(s, t) ==
    /\ At(s, t, "flag")
    /\ srv' = [srv EXCEPT ![s].running = FALSE]
    /\ Goto(s, t, "mark")
    /\ UNCHANGED <<entry, lock, crashes>>

Marked(s, t, closes, signals) ==
    /\ At(s, t, "mark")
    /\ srv' = [srv EXCEPT ![s].stopped = TRUE,
                          ![s].closers = IF closes THEN @ \cup {t} ELSE @,
                          ![s].event = IF signals THEN @ + 1 ELSE @]
    /\ Goto(s, t, "inspect")
    /\ UNCHANGED <<entry, lock, crashes>>

\* Faulty: does not signal the reactor.
MarkSilently(s, t) == Marked(s, t, ~srv[s].runActive, FALSE)

MarkStopped(s, t) == Marked(s, t, ~srv[s].runActive, srv[s].open)

\* Connections are shut down and both pools told to stop.
StopPools(s, t) ==
    /\ At(s, t, "pools")
    /\ srv' = [srv EXCEPT ![s].stopping = TRUE]
    /\ Goto(s, t, IF t \in srv[s].closers THEN "closeIdle" ELSE AfterStop[t])
    /\ UNCHANGED <<entry, lock, crashes>>

\* close_lifecycle_fds_locked: listener, wakeup and the instance lock.
Closed(s) ==
    /\ srv' = [srv EXCEPT ![s].open = FALSE, ![s].listening = FALSE,
                          ![s].runActive = FALSE, ![s].event = 0]
    /\ lock' = IF lock = s THEN None ELSE lock

CloseWithoutRun(s, t) ==
    /\ At(s, t, "closeIdle")
    /\ IF srv[s].runActive THEN UNCHANGED <<srv, lock>> ELSE Closed(s)
    /\ Goto(s, t, AfterStop[t])
    /\ UNCHANGED <<entry, crashes>>

StopState(s, t) ==
    \/ ClearRunning(s, t) \/ MarkStopped(s, t) \/ CompareIdentity(s, t)
    \/ UnlinkOwned(s, t) \/ StopPools(s, t) \/ CloseWithoutRun(s, t)

-----------------------------------------------------------------------------
\* run().

RunBegin(s) ==
    /\ At(s, "run", "idle") /\ At(s, "ctor", "made") /\ At(s, "dtor", "idle")
    /\ IF srv[s].stopped \/ ~srv[s].open
       THEN Goto(s, "run", "threw") /\ UNCHANGED srv
       ELSE Goto(s, "run", "setup") /\ srv' = [srv EXCEPT ![s].runActive = TRUE]
    /\ UNCHANGED <<entry, lock, crashes>>

\* The poller and its two registrations, which may fail.
RegisterSources(s) ==
    /\ At(s, "run", "setup")
    /\ \E next \in {"arm", "guard"} : Goto(s, "run", next)
    /\ UNCHANGED <<entry, lock, srv, crashes>>

Arm(s) ==
    /\ At(s, "run", "arm")
    /\ IF srv[s].stopped
       THEN Goto(s, "run", "guard") /\ UNCHANGED srv
       ELSE Goto(s, "run", "spawn") /\ srv' = [srv EXCEPT ![s].running = TRUE]
    /\ UNCHANGED <<entry, lock, crashes>>

\* Worker threads and the reactor thread, or a thread that cannot be started.
Spawn(s) ==
    /\ At(s, "run", "spawn")
    /\ \/ pc' = [pc EXCEPT ![s].run = "joining", ![s].reactor = "top"]
       \/ Goto(s, "run", "flag")
    /\ UNCHANGED <<entry, lock, srv, crashes>>

\* Faulty: does not wait for the reactor.
JoinNothing(s) ==
    /\ At(s, "run", "joining")
    /\ Goto(s, "run", "flag")
    /\ UNCHANGED <<entry, lock, srv, crashes>>

JoinReactor(s) ==
    /\ At(s, "run", "joining") /\ At(s, "reactor", "exited")
    /\ Goto(s, "run", "flag")
    /\ UNCHANGED <<entry, lock, srv, crashes>>

\* Workers leave once their pool is stopping; then the connections are closed.
JoinWorkers(s) ==
    /\ At(s, "run", "join") /\ srv[s].stopping
    /\ Goto(s, "run", "guard")
    /\ UNCHANGED <<entry, lock, srv, crashes>>

\* Faulty: does not notify the destructor.
GuardSilently(s) ==
    /\ At(s, "run", "close")
    /\ Closed(s)
    /\ Goto(s, "run", "returned")
    /\ UNCHANGED <<entry, crashes>>

\* RunActiveGuard: the descriptors are closed and the destructor is notified.
GuardClose(s) ==
    /\ At(s, "run", "close")
    /\ Closed(s)
    /\ pc' = [pc EXCEPT ![s].run = "returned",
                        ![s].dtor = IF @ = "asleep" THEN "wait" ELSE @]
    /\ UNCHANGED <<entry, crashes>>

Run(s) ==
    \/ RegisterSources(s) \/ Arm(s) \/ Spawn(s) \/ JoinReactor(s)
    \/ JoinWorkers(s) \/ GuardClose(s) \/ StopState(s, "run")

\* The reactor, as far as a stop concerns it.
ReactorTop(s) ==
    /\ At(s, "reactor", "top")
    /\ Goto(s, "reactor", IF srv[s].running THEN "poll" ELSE "exited")
    /\ UNCHANGED <<entry, lock, srv, crashes>>

ReactorWoken(s) ==
    /\ At(s, "reactor", "poll") /\ srv[s].event > 0
    /\ srv' = [srv EXCEPT ![s].event = 0]
    /\ Goto(s, "reactor", "top")
    /\ UNCHANGED <<entry, lock, crashes>>

\* A client's event or deadline, or an error that ends the loop.
ReactorEvent(s) ==
    /\ At(s, "reactor", "poll")
    /\ \E next \in {"top", "exited"} : Goto(s, "reactor", next)
    /\ UNCHANGED <<entry, lock, srv, crashes>>

-----------------------------------------------------------------------------
\* stop() and the destructor.  A Server is not destroyed during another call of
\* stop(); it may be destroyed while run() has not returned.

CallStop(s) ==
    /\ At(s, "stop", "idle") /\ At(s, "ctor", "made") /\ At(s, "dtor", "idle")
    /\ Goto(s, "stop", "flag")
    /\ UNCHANGED <<entry, lock, srv, crashes>>

Destroy(s) ==
    /\ At(s, "dtor", "idle") /\ At(s, "ctor", "made") /\ pc[s].stop \in {"idle", "done"}
    /\ Goto(s, "dtor", "flag")
    /\ UNCHANGED <<entry, lock, srv, crashes>>

AwaitRun(s) ==
    /\ At(s, "dtor", "wait")
    /\ Goto(s, "dtor", IF srv[s].runActive THEN "asleep" ELSE "done")
    /\ UNCHANGED <<entry, lock, srv, crashes>>

\* The process dies: the kernel closes its descriptors and releases its lock, and
\* the path stays.
Crash(s) ==
    /\ crashes < MaxCrashes /\ crashes' = crashes + 1
    /\ pc[s].ctor \notin {"start", "failed", "gone"}
    /\ pc' = [pc EXCEPT ![s] = [t \in Threads |-> "gone"]]
    /\ srv' = [srv EXCEPT ![s] = Fresh]
    /\ lock' = IF lock = s THEN None ELSE lock
    /\ UNCHANGED entry

Construct(s) ==
    \/ AcquireInstanceLock(s) \/ InspectPath(s) \/ Probe(s) \/ Recheck(s)
    \/ FinalCheck(s) \/ RemoveStale(s) \/ Bind(s) \/ Identify(s)
    \/ ApplyPermissions(s) \/ Listen(s) \/ Abandon(s)
    \/ CompareIdentity(s, "ctor") \/ UnlinkOwned(s, "ctor")

Next ==
    \E s \in Servers :
        \/ Construct(s) \/ RunBegin(s) \/ Run(s)
        \/ ReactorTop(s) \/ ReactorWoken(s) \/ ReactorEvent(s)
        \/ CallStop(s) \/ StopState(s, "stop")
        \/ Destroy(s) \/ StopState(s, "dtor") \/ AwaitRun(s)
        \/ Crash(s)

Spec == Init /\ [][Next]_vars

\* Threads run; nobody has to call anything, and no client has to send.
Fairness ==
    \A s \in Servers :
        /\ WF_vars(Run(s)) /\ WF_vars(ReactorTop(s) \/ ReactorWoken(s))
        /\ WF_vars(StopState(s, "stop"))
        /\ WF_vars(StopState(s, "dtor") \/ AwaitRun(s))

FairSpec == Spec /\ Fairness

-----------------------------------------------------------------------------
\* Properties.

\* remove_stale_socket unlinks the socket of a server that is over.  A live one looks
\* the same to the probe between its bind() and its listen(), and a probe is out of date
\* when its server has listened since: the instance lock has to keep every server that
\* is being made, or has its descriptors open, away from the constructor that removes.
OnlyStaleRemoved ==
    \A s, owner \in Servers :
        At(s, "ctor", "remove") /\ entry = owner
            => ~srv[owner].open /\ pc[owner].ctor \in {"made", "failed", "gone"}

\* A server whose constructor has returned and that nobody has stopped.
Serving(s) == At(s, "ctor", "made") /\ srv[s].open /\ ~srv[s].stopped /\ pc[s].run \notin
                  {"guardUnlink", "close"}

\* What the change log says of unlink_owned_socket: it only unlinks the exact socket
\* that this server created.  The path of a serving server then names its socket.
PathIntact == \A s \in Servers : Serving(s) => entry = s

\* Restart after a crash: the socket a dead server left is removed, never mistaken
\* for one in use or replaced; with the lock in hand nothing but a failing system
\* call fails the constructor.
StaleIsRecovered == \A s \in Servers : srv[s].why \notin {"inUse", "changed", "bind"}

\* The listener, wakeup and lock stay open while run() and the reactor use them:
\* no caller of stop() closes them under the polling reactor.
OpenWhileRunning ==
    \A s \in Servers : srv[s].runActive \/ pc[s].reactor \in {"top", "poll"}
        => srv[s].open /\ lock = s

\* Once run() has set running, clearing it ends run(): the reactor is woken, the
\* threads are joined and the descriptors closed.
ClearedEndsRun ==
    \A s \in Servers :
        pc[s].run \in {"spawn", "joining"} /\ ~srv[s].running
            ~> pc[s].run \in {"returned", "gone"}

\* The destructor returns once run() is not active or on its way out: the
\* notification of RunActiveGuard is not lost.
DestructorReturns ==
    \A s \in Servers :
        pc[s].dtor \in {"wait", "asleep"}
            /\ (~srv[s].runActive \/ pc[s].run \in {"guard", "guardUnlink", "close"})
            ~> pc[s].dtor \in {"done", "gone"}

\* What the documentation says of stop(): thread-safe, and run() blocks until
\* shutdown.  A stop() that has been called ends run().
StopEndsRun ==
    \A s \in Servers : At(s, "stop", "mark") ~> ~srv[s].runActive
=============================================================================
