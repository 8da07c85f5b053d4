-------------------------- MODULE SerializedExecutor --------------------------
(***************************************************************************)
(* The serialized executor: enqueue_serialized_job, the lazily grown pool  *)
(* of serialized workers, and its part of stop_state and run().            *)
(*                                                                         *)
(* A step is what one thread does while it holds serialized_mutex, or one  *)
(* effect it has outside of it.  The queue (a deque) is the set of jobs    *)
(* whose stage is "queued", ordered by the stamp that push_back gave them; *)
(* the stamps start again at 1 when a worker empties the queue.            *)
(***************************************************************************)
EXTENDS Integers, FiniteSets

CONSTANTS Jobs,            \* every request or maintenance task of a behaviour
          Maintenance,     \* the jobs without a connection
          Domains,         \* serialization domains
          Routes,          \* concrete request routes
          Conns,           \* client connections
          NoJob,           \* not a job
          DomainOf,        \* the domain of a job's handler
          PolicyOf,        \* the queue policy of a job's handler
          RouteOf,         \* the concrete route of a request
          ConnOf,          \* the connection a request came from
          MaxSerializedConcurrency

Requests == Jobs \ Maintenance
Policies == {"fifo", "latest_wins", "reject_if_busy"}
Workers == 1..MaxSerializedConcurrency

\* One handler serves a concrete route, so its jobs agree on domain and policy;
\* a maintenance task has no handler and takes the default scheduling.
ASSUME JobsAssumption ==
    /\ IsFiniteSet(Jobs) /\ Maintenance \subseteq Jobs /\ NoJob \notin Jobs
    /\ IsFiniteSet(Domains)
    /\ DomainOf \in [Jobs -> Domains]
    /\ PolicyOf \in [Jobs -> Policies]
    /\ RouteOf \in [Requests -> Routes]
    /\ ConnOf \in [Requests -> Conns]
    /\ \A m \in Maintenance : PolicyOf[m] = "fifo"
    /\ \A j, k \in Requests : RouteOf[j] = RouteOf[k] =>
          DomainOf[j] = DomainOf[k] /\ PolicyOf[j] = PolicyOf[k]

ASSUME ConcurrencyAssumption == MaxSerializedConcurrency \in Nat \ {0}

VARIABLES
    running,            \* ServerState::running
    stopping,           \* ServerState::serialized_stopping
    stopPc,             \* how far stop_state and the join in run() have come
    mutex,              \* the job whose enqueuer holds serialized_mutex across steps
    stage,              \* what has become of each job
    stamp, nextStamp,   \* the order of pending_serialized
    active, queued,     \* SerializedDomainActivity of each domain
    activeCount,        \* active_serialized_domain_count
    busyCount,          \* busy_serialized_domain_count
    workerCount,        \* serialized_worker_count
    wpc, wjob,          \* where each serialized worker is, and its job
    epc,                \* where the enqueuer of each job is after it was accepted
    superseded,         \* the enqueuer's local vector of replaced jobs
    connPending         \* Connection::pending_serialized

orderVars == <<stamp, nextStamp>>
domainVars == <<active, queued, activeCount, busyCount>>
queueVars == <<stage, orderVars, domainVars>>
stopVars == <<running, stopping, stopPc>>
workerVars == <<workerCount, wpc, wjob>>
enqueuerVars == <<mutex, epc, superseded>>
vars == <<queueVars, stopVars, workerVars, enqueuerVars, connPending>>

\* A declined job was never queued (busy, stopping or a failed thread start); a
\* done one was replaced, expired, discarded by a stop, or has run.
Stages == {"new", "declined", "queued", "replaced", "taken", "done"}
WorkerPcs == {"none", "ready", "waiting", "picked", "handler", "completion",
              "deactivate", "notify", "exited"}
HasJob == {"picked", "handler", "completion", "deactivate"}

TypeOK ==
    /\ running \in BOOLEAN /\ stopping \in BOOLEAN
    /\ stopPc \in {"up", "stopping", "signalled", "notified", "joining"}
    /\ mutex \in Jobs \cup {NoJob}
    /\ stage \in [Jobs -> Stages]
    /\ stamp \in [Jobs -> Nat] /\ nextStamp \in Nat
    /\ active \in [Domains -> BOOLEAN] /\ queued \in [Domains -> Int]
    /\ activeCount \in Int /\ busyCount \in Int
    /\ workerCount \in 0..MaxSerializedConcurrency
    /\ wpc \in [Workers -> WorkerPcs] /\ wjob \in [Workers -> Jobs \cup {NoJob}]
    /\ epc \in [Jobs -> {"idle", "finish"}]
    /\ superseded \in [Jobs -> SUBSET Requests]
    /\ connPending \in [Conns -> Int]

\* The executor starts empty; run() has stored running before any job arrives.
Init ==
    /\ running = TRUE /\ stopping = FALSE /\ stopPc = "up"
    /\ mutex = NoJob
    /\ stage = [j \in Jobs |-> "new"]
    /\ stamp = [j \in Jobs |-> 0] /\ nextStamp = 1
    /\ active = [d \in Domains |-> FALSE] /\ queued = [d \in Domains |-> 0]
    /\ activeCount = 0 /\ busyCount = 0
    /\ workerCount = 0
    /\ wpc = [w \in Workers |-> "none"] /\ wjob = [w \in Workers |-> NoJob]
    /\ epc = [j \in Jobs |-> "idle"] /\ superseded = [j \in Jobs |-> {}]
    /\ connPending = [c \in Conns |-> 0]

-----------------------------------------------------------------------------
\* pending_serialized, and the domain predicates of workers.cpp.

Pending == {j \in Jobs : stage[j] = "queued"}

SerializedDomainBusy(d) == active[d] \/ queued[d] # 0

\* Faulty: does not skip the jobs of active domains.
RunnableAnyDomain == Pending

Runnable == {j \in Pending : ~active[DomainOf[j]]}

HasRunnableSerializedJob == Runnable # {}

\* Faulty: any runnable job, not the first.
IsNextAny(j) == j \in Runnable

\* The first runnable job of the deque.
IsNext(j) == j \in Runnable /\ \A k \in Runnable : stamp[j] <= stamp[k]

\* Faulty: does not count the domain that is about to become busy.
DesiredWithoutNew(d) == IF workerCount >= busyCount THEN workerCount ELSE busyCount

DesiredSerializedWorkerCount(d) ==
    LET demand == busyCount + (IF SerializedDomainBusy(d) THEN 0 ELSE 1)
        capped == IF demand <= MaxSerializedConcurrency
                  THEN demand ELSE MaxSerializedConcurrency
    IN  IF workerCount >= capped THEN workerCount ELSE capped

\* New threads start in the loop and compete for serialized_mutex.
EnsureSerializedWorkerCount(n) ==
    /\ workerCount' = n
    /\ wpc' = [w \in Workers |-> IF w > workerCount /\ w <= n THEN "ready" ELSE wpc[w]]

NotifyAll(pc) == [w \in Workers |-> IF pc[w] = "waiting" THEN "ready" ELSE pc[w]]

-----------------------------------------------------------------------------
\* enqueue_serialized_job.  running can be cleared while the mutex is held, so
\* the check before the threads are started and the one after it are two steps.

\* Refused before the job was queued: stopping, or std::thread's constructor threw.
EnqueueRefused(j) ==
    /\ mutex = NoJob /\ stage[j] = "new"
    /\ \/ stopping \/ ~running
       \/ workerCount < DesiredSerializedWorkerCount(DomainOf[j])
    /\ stage' = [stage EXCEPT ![j] = "declined"]
    /\ UNCHANGED <<orderVars, domainVars, stopVars, workerVars, enqueuerVars, connPending>>

EnqueueBegin(j) ==
    /\ mutex = NoJob /\ stage[j] = "new"
    /\ running /\ ~stopping
    /\ EnsureSerializedWorkerCount(DesiredSerializedWorkerCount(DomainOf[j]))
    /\ mutex' = j
    /\ UNCHANGED <<queueVars, stopVars, wjob, epc, superseded, connPending>>

\* reject_if_busy is decided under the mutex, on the counts of the same step.
RejectedBusy(j) == PolicyOf[j] = "reject_if_busy" /\ SerializedDomainBusy(DomainOf[j])

EnqueueDeclined(j) ==
    /\ mutex = j
    /\ ~running \/ RejectedBusy(j)
    /\ mutex' = NoJob
    /\ stage' = [stage EXCEPT ![j] = "declined"]
    /\ UNCHANGED <<orderVars, domainVars, stopVars, workerVars, epc, superseded, connPending>>

\* The queued requests that a latest_wins request replaces.
Replaced(j) ==
    IF PolicyOf[j] = "latest_wins"
    THEN {k \in Pending \ Maintenance : DomainOf[k] = DomainOf[j] /\ RouteOf[k] = RouteOf[j]}
    ELSE {}

EnqueueAdmit(j) ==
    LET d == DomainOf[j] IN
    /\ mutex = j /\ running /\ ~RejectedBusy(j)
    /\ mutex' = NoJob
    /\ stage' = [k \in Jobs |-> IF k = j THEN "queued"
                                ELSE IF k \in Replaced(j) THEN "replaced" ELSE stage[k]]
    /\ stamp' = [k \in Jobs |-> IF k = j THEN nextStamp
                                ELSE IF k \in Replaced(j) THEN 0 ELSE stamp[k]]
    /\ nextStamp' = nextStamp + 1
    /\ busyCount' = IF ~active[d] /\ queued[d] = 0 THEN busyCount + 1 ELSE busyCount
    /\ queued' = [queued EXCEPT ![d] = @ + 1 - Cardinality(Replaced(j))]
    /\ superseded' = [superseded EXCEPT ![j] = Replaced(j)]
    /\ epc' = [epc EXCEPT ![j] = "finish"]
    /\ connPending' = IF j \in Maintenance THEN connPending
                      ELSE [connPending EXCEPT ![ConnOf[j]] = @ + 1]
    /\ UNCHANGED <<active, activeCount, stopVars, workerVars>>

\* Faulty: the replaced request stays counted.
FinishUncounted(j) == \E k \in superseded[j] :
    /\ epc[j] = "finish"
    /\ superseded' = [superseded EXCEPT ![j] = @ \ {k}]
    /\ stage' = [stage EXCEPT ![k] = "done"]
    /\ UNCHANGED <<orderVars, domainVars, stopVars, workerVars, mutex, epc, connPending>>

\* finish_superseded_job, for one job of the local vector, outside the mutex.
FinishSuperseded(j) == \E k \in superseded[j] :
    /\ epc[j] = "finish"
    /\ superseded' = [superseded EXCEPT ![j] = @ \ {k}]
    /\ stage' = [stage EXCEPT ![k] = "done"]
    /\ connPending' = [connPending EXCEPT ![ConnOf[k]] = @ - 1]
    /\ UNCHANGED <<orderVars, domainVars, stopVars, workerVars, mutex, epc>>

\* Faulty: nobody is notified of the new job.
EnqueueSilently(j) ==
    /\ epc[j] = "finish" /\ superseded[j] = {}
    /\ epc' = [epc EXCEPT ![j] = "idle"]
    /\ UNCHANGED <<queueVars, stopVars, workerVars, mutex, superseded, connPending>>

EnqueueNotify(j) ==
    /\ epc[j] = "finish" /\ superseded[j] = {}
    /\ epc' = [epc EXCEPT ![j] = "idle"]
    /\ wpc' = NotifyAll(wpc)
    /\ UNCHANGED <<queueVars, stopVars, workerCount, wjob, mutex, superseded, connPending>>

-----------------------------------------------------------------------------
\* serialized_worker_loop.

WorkerWait(w) ==
    /\ mutex = NoJob /\ wpc[w] = "ready"
    /\ ~stopping /\ ~HasRunnableSerializedJob
    /\ wpc' = [wpc EXCEPT ![w] = "waiting"]
    /\ UNCHANGED <<queueVars, stopVars, workerCount, wjob, enqueuerVars, connPending>>

\* Faulty: continues the loop instead of returning from it.
WorkerExitNever(w) ==
    /\ mutex = NoJob /\ wpc[w] = "ready"
    /\ stopping /\ ~HasRunnableSerializedJob
    /\ UNCHANGED vars

WorkerExit(w) ==
    /\ mutex = NoJob /\ wpc[w] = "ready"
    /\ stopping /\ ~HasRunnableSerializedJob
    /\ wpc' = [wpc EXCEPT ![w] = "exited"]
    /\ UNCHANGED <<queueVars, stopVars, workerCount, wjob, enqueuerVars, connPending>>

WorkerPick(w) == \E j \in Jobs :
    /\ mutex = NoJob /\ wpc[w] = "ready"
    /\ IsNext(j)
    /\ queued' = [queued EXCEPT ![DomainOf[j]] = @ - 1]
    /\ active' = [active EXCEPT ![DomainOf[j]] = TRUE]
    /\ activeCount' = activeCount + 1
    /\ stage' = [stage EXCEPT ![j] = "taken"]
    /\ stamp' = [stamp EXCEPT ![j] = 0]
    /\ nextStamp' = IF Pending = {j} THEN 1 ELSE nextStamp
    /\ wpc' = [wpc EXCEPT ![w] = "picked"]
    /\ wjob' = [wjob EXCEPT ![w] = j]
    /\ UNCHANGED <<busyCount, stopVars, workerCount, enqueuerVars, connPending>>

\* A request runs while the server runs; a maintenance task always does.
WorkerInvoke(w) ==
    /\ wpc[w] = "picked"
    /\ running \/ wjob[w] \in Maintenance
    /\ wpc' = [wpc EXCEPT ![w] = "handler"]
    /\ UNCHANGED <<queueVars, stopVars, workerCount, wjob, enqueuerVars, connPending>>

\* A request whose deadline passed in the queue is answered 408, one that finds
\* the server stopped is dropped; neither runs its handler.
WorkerDiscard(w) ==
    /\ wpc[w] = "picked" /\ wjob[w] \notin Maintenance
    /\ stage' = [stage EXCEPT ![wjob[w]] = "done"]
    /\ wpc' = [wpc EXCEPT ![w] = "completion"]
    /\ UNCHANGED <<orderVars, domainVars, stopVars, workerCount, wjob, enqueuerVars, connPending>>

\* The handler returns and its response is written, or an exception is swallowed.
WorkerReturn(w) ==
    /\ wpc[w] = "handler"
    /\ stage' = [stage EXCEPT ![wjob[w]] = "done"]
    /\ wpc' = [wpc EXCEPT ![w] = IF wjob[w] \in Maintenance THEN "deactivate"
                                 ELSE "completion"]
    /\ UNCHANGED <<orderVars, domainVars, stopVars, workerCount, wjob, enqueuerVars, connPending>>

\* CompletionGuard.
WorkerComplete(w) ==
    /\ wpc[w] = "completion"
    /\ connPending' = [connPending EXCEPT ![ConnOf[wjob[w]]] = @ - 1]
    /\ wpc' = [wpc EXCEPT ![w] = "deactivate"]
    /\ UNCHANGED <<queueVars, stopVars, workerCount, wjob, enqueuerVars>>

\* Faulty: the domain stops being busy although jobs are queued.
DeactivateUntested(w) ==
    LET d == DomainOf[wjob[w]] IN
    /\ mutex = NoJob /\ wpc[w] = "deactivate"
    /\ active' = [active EXCEPT ![d] = FALSE]
    /\ activeCount' = activeCount - 1 /\ busyCount' = busyCount - 1
    /\ wjob' = [wjob EXCEPT ![w] = NoJob]
    /\ wpc' = [wpc EXCEPT ![w] = "notify"]
    /\ UNCHANGED <<stage, orderVars, queued, stopVars, workerCount, enqueuerVars, connPending>>

\* SerializedDomainGuard, under the mutex; its notify_all comes after the unlock.
WorkerDeactivate(w) ==
    LET d == DomainOf[wjob[w]] IN
    /\ mutex = NoJob /\ wpc[w] = "deactivate"
    /\ active' = [active EXCEPT ![d] = FALSE]
    /\ activeCount' = IF active[d] THEN activeCount - 1 ELSE activeCount
    /\ busyCount' = IF active[d] /\ queued[d] = 0 THEN busyCount - 1 ELSE busyCount
    /\ wjob' = [wjob EXCEPT ![w] = NoJob]
    /\ wpc' = [wpc EXCEPT ![w] = "notify"]
    /\ UNCHANGED <<stage, orderVars, queued, stopVars, workerCount, enqueuerVars, connPending>>

WorkerNotify(w) ==
    /\ wpc[w] = "notify"
    /\ wpc' = NotifyAll([wpc EXCEPT ![w] = "ready"])
    /\ UNCHANGED <<queueVars, stopVars, workerCount, wjob, enqueuerVars, connPending>>

-----------------------------------------------------------------------------
\* stop_state, as far as this executor sees it, and join_serialized_workers.

StopRunning ==
    /\ stopPc = "up"
    /\ running' = FALSE /\ stopPc' = "stopping"
    /\ UNCHANGED <<queueVars, stopping, workerVars, enqueuerVars, connPending>>

StopSerialized ==
    /\ stopPc = "stopping" /\ mutex = NoJob
    /\ stopping' = TRUE /\ stopPc' = "signalled"
    /\ UNCHANGED <<queueVars, running, workerVars, enqueuerVars, connPending>>

StopNotify ==
    /\ stopPc = "signalled"
    /\ stopPc' = "notified"
    /\ wpc' = NotifyAll(wpc)
    /\ UNCHANGED <<queueVars, running, stopping, workerCount, wjob, enqueuerVars, connPending>>

JoinSerializedWorkers ==
    /\ stopPc = "notified"
    /\ stopPc' = "joining"
    /\ workerCount' = 0
    /\ UNCHANGED <<queueVars, running, stopping, wpc, wjob, enqueuerVars, connPending>>

Stop == StopRunning \/ StopSerialized \/ StopNotify \/ JoinSerializedWorkers

\* run() has joined every worker and no enqueuer is inside the executor.
Joined ==
    /\ stopPc = "joining"
    /\ \A w \in Workers : wpc[w] \in {"none", "exited"}
    /\ mutex = NoJob /\ \A j \in Jobs : epc[j] = "idle"

Terminated == Joined /\ UNCHANGED vars

Enqueue(j) ==
    \/ EnqueueRefused(j) \/ EnqueueBegin(j) \/ EnqueueDeclined(j) \/ EnqueueAdmit(j)
    \/ FinishSuperseded(j) \/ EnqueueNotify(j)

Worker(w) ==
    \/ WorkerWait(w) \/ WorkerExit(w) \/ WorkerPick(w)
    \/ WorkerInvoke(w) \/ WorkerDiscard(w) \/ WorkerReturn(w)
    \/ WorkerComplete(w) \/ WorkerDeactivate(w) \/ WorkerNotify(w)

Next ==
    \/ \E j \in Jobs : Enqueue(j)
    \/ \E w \in Workers : Worker(w)
    \/ Stop
    \/ Terminated

Spec == Init /\ [][Next]_vars

\* A thread inside the executor keeps running and handlers return.  Nothing says
\* that a job is ever submitted or that stop() is called, but a stop that has
\* begun runs to its end.
Fairness ==
    /\ \A w \in Workers : WF_vars(Worker(w))
    /\ \A j \in Jobs : WF_vars(EnqueueDeclined(j) \/ EnqueueAdmit(j)
                                 \/ FinishSuperseded(j) \/ EnqueueNotify(j))
    /\ WF_vars(StopSerialized \/ StopNotify \/ JoinSerializedWorkers)

FairSpec == Spec /\ Fairness

-----------------------------------------------------------------------------
\* Properties.

\* One domain executes at most one job: two workers that hold a job, from the
\* pick under serialized_mutex until SerializedDomainGuard ran, hold jobs of
\* different domains.
OneAtATime ==
    \A v, w \in Workers : v # w /\ wpc[v] \in HasJob /\ wpc[w] \in HasJob =>
        DomainOf[wjob[v]] # DomainOf[wjob[w]]

\* The bookkeeping that admission decides on is exact whenever the mutex is free:
\* each domain's active flag and queue length, and the two server-wide counts,
\* agree with the queue and with the jobs the workers hold.
CountersAgree ==
    /\ \A d \in Domains :
          /\ active[d] <=> \E w \in Workers : wpc[w] \in HasJob /\ DomainOf[wjob[w]] = d
          /\ queued[d] = Cardinality({j \in Pending : DomainOf[j] = d})
    /\ activeCount = Cardinality({d \in Domains : active[d]})
    /\ busyCount = Cardinality({d \in Domains : SerializedDomainBusy(d)})

\* The lazily grown pool is large enough: until the pool is taken down there are
\* as many workers as busy domains, up to the configured limit, also when a
\* thread could not be started or running was cleared during an admission.
EnoughWorkers ==
    stopPc # "joining" => \/ workerCount >= busyCount
                          \/ workerCount = MaxSerializedConcurrency

\* Connection::pending_serialized counts exactly the requests of the connection
\* that are queued, replaced but not yet answered, or in a worker before its
\* CompletionGuard, so that no path leaks a count or takes one twice.
ConnPendingAgrees ==
    \A c \in Conns : connPending[c] = Cardinality(
        {j \in Requests : /\ ConnOf[j] = c
                          /\ \/ stage[j] \in {"queued", "replaced"}
                             \/ \E w \in Workers : /\ wjob[w] = j
                                                    /\ wpc[w] \in HasJob \ {"deactivate"}})

\* No wakeup is lost: every admitted job is eventually answered, run, replaced
\* or, after a stop, discarded.
AdmittedIsResolved ==
    \A j \in Jobs : stage[j] = "queued" ~> stage[j] = "done"

\* A stop terminates: every serialized worker exits, so that the join in run()
\* returns.
StopTerminates == stopPc = "stopping" ~> Joined

-----------------------------------------------------------------------------
\* The refinement mapping: the shared deque seen domain by domain, and the jobs
\* that keep their domains active.
Abstract == INSTANCE DomainQueues WITH
    submitted <- {j \in Jobs : stage[j] # "new"},
    waiting <- Pending,
    ahead <- {p \in Pending \X Pending :
                 DomainOf[p[1]] = DomainOf[p[2]] /\ stamp[p[1]] < stamp[p[2]]},
    executing <- {wjob[w] : w \in {v \in Workers : wpc[v] \in HasJob}}

\* The executor implements one first-in-first-out queue per domain: admission in
\* enqueue_serialized_job, the search in serialized_worker_loop and the domain
\* guard together start every domain's jobs in admission order, one at a time,
\* with latest_wins and reject_if_busy acting on that domain alone.
ImplementsDomainQueues == Abstract!Spec
=============================================================================
