---------------------------- MODULE ReactorWakeup ----------------------------
(***************************************************************************)
(* How worker threads wake the reactor: wake_reactor, the eventfd behind   *)
(* readiness::signal and readiness::consume, and the loop of run_reactor.  *)
(*                                                                         *)
(* A producer appends to resumed_connections and then calls wake_reactor.  *)
(* Its compare-and-swap on wake_pending and its write to the eventfd are   *)
(* two steps, and so are the reactor's store and its drain.                *)
(***************************************************************************)
EXTENDS Integers, Sequences, FiniteSets

CONSTANTS Producers,   \* threads that hand work to the reactor
          MaxBatch,    \* max_batch of process_resumed_connections
          MaxResumed   \* bound: entries of resumed_connections

ASSUME BatchAssumption == MaxBatch \in Nat \ {0} /\ MaxResumed \in Nat \ {0}

VARIABLES running,       \* ServerState::running
          wakePending,   \* ServerState::wake_pending
          eventCount,    \* the eventfd's counter
          resumedQueue,  \* resumed_connections, by the producer that queued each
          reactorPc,     \* where the reactor thread is
          ppc,           \* where each producer is
          stopPc         \* where the thread in stop_state is

wakeupVars == <<running, wakePending, eventCount, resumedQueue, reactorPc, ppc, stopPc>>

WakeupTypeOK ==
    /\ running \in BOOLEAN /\ wakePending \in BOOLEAN
    /\ eventCount \in 0..3
    /\ resumedQueue \in Seq(Producers) /\ Len(resumedQueue) <= MaxResumed
    /\ reactorPc \in {"top", "wait", "woken", "drain", "exited"}
    /\ ppc \in [Producers -> {"idle", "wake", "signal"}]
    /\ stopPc \in {"up", "signal", "done"}

WakeupInit ==
    /\ running = TRUE /\ wakePending = FALSE /\ eventCount = 0
    /\ resumedQueue = <<>>
    /\ reactorPc = "top"
    /\ ppc = [p \in Producers |-> "idle"]
    /\ stopPc = "up"

-----------------------------------------------------------------------------
\* A worker: queue the work under connections_mutex, then wake_reactor.

Post(p) ==
    /\ ppc[p] = "idle" /\ Len(resumedQueue) < MaxResumed
    /\ resumedQueue' = Append(resumedQueue, p)
    /\ ppc' = [ppc EXCEPT ![p] = "wake"]
    /\ UNCHANGED <<running, wakePending, eventCount, reactorPc, stopPc>>

WakeReactor(p) ==
    /\ ppc[p] = "wake"
    /\ ppc' = [ppc EXCEPT ![p] = IF wakePending THEN "idle" ELSE "signal"]
    /\ wakePending' = TRUE
    /\ UNCHANGED <<running, eventCount, resumedQueue, reactorPc, stopPc>>

Signal(p) ==
    /\ ppc[p] = "signal"
    /\ eventCount' = eventCount + 1
    /\ ppc' = [ppc EXCEPT ![p] = "idle"]
    /\ UNCHANGED <<running, wakePending, resumedQueue, reactorPc, stopPc>>

-----------------------------------------------------------------------------
\* run_reactor.

\* The loop condition, then process_resumed_connections for at most one batch.
\* Expiring connections, between the two, takes nothing from resumed_connections.
ReactorPass ==
    /\ reactorPc = "top" /\ running
    /\ resumedQueue' = SubSeq(resumedQueue, MaxBatch + 1, Len(resumedQueue))
    /\ reactorPc' = "wait"
    /\ UNCHANGED <<running, wakePending, eventCount, ppc, stopPc>>

ReactorExit ==
    /\ reactorPc = "top" /\ ~running
    /\ reactorPc' = "exited"
    /\ UNCHANGED <<running, wakePending, eventCount, resumedQueue, ppc, stopPc>>

\* readiness::wait reports the wakeup source, which is level-triggered.
ReactorWoken ==
    /\ reactorPc = "wait" /\ eventCount > 0
    /\ reactorPc' = "woken"
    /\ UNCHANGED <<running, wakePending, eventCount, resumedQueue, ppc, stopPc>>

\* The wait ends for another reason: a client's event or an expired deadline.
ReactorOtherEvent ==
    /\ reactorPc = "wait"
    /\ reactorPc' = "top"
    /\ UNCHANGED <<running, wakePending, eventCount, resumedQueue, ppc, stopPc>>

ClearWakePending ==
    /\ reactorPc = "woken"
    /\ wakePending' = FALSE
    /\ reactorPc' = "drain"
    /\ UNCHANGED <<running, eventCount, resumedQueue, ppc, stopPc>>

\* readiness::consume reads until the counter is zero; the batch ends here.
Consume ==
    /\ reactorPc = "drain"
    /\ eventCount' = 0
    /\ reactorPc' = "top"
    /\ UNCHANGED <<running, wakePending, resumedQueue, ppc, stopPc>>

-----------------------------------------------------------------------------
\* stop_state signals the eventfd itself, past wake_pending.

StopRunning ==
    /\ stopPc = "up"
    /\ running' = FALSE /\ stopPc' = "signal"
    /\ UNCHANGED <<wakePending, eventCount, resumedQueue, reactorPc, ppc>>

\* Faulty: goes through wake_pending as the producers do.
StopThroughPending ==
    /\ stopPc = "signal" /\ stopPc' = "done"
    /\ eventCount' = IF wakePending THEN eventCount ELSE eventCount + 1
    /\ wakePending' = TRUE
    /\ UNCHANGED <<running, resumedQueue, reactorPc, ppc>>

StopSignal ==
    /\ stopPc = "signal"
    /\ eventCount' = eventCount + 1 /\ stopPc' = "done"
    /\ UNCHANGED <<running, wakePending, resumedQueue, reactorPc, ppc>>

ReactorThread == ReactorPass \/ ReactorExit \/ ReactorWoken \/ ClearWakePending \/ Consume

Producer(p) == WakeReactor(p) \/ Signal(p)

Terminated == reactorPc = "exited" /\ stopPc = "done" /\ UNCHANGED wakeupVars

WakeupNext ==
    \/ \E p \in Producers : Post(p) \/ Producer(p)
    \/ ReactorThread \/ ReactorOtherEvent
    \/ StopRunning \/ StopSignal
    \/ Terminated

WakeupSpec == WakeupInit /\ [][WakeupNext]_wakeupVars

\* Threads that are not blocked run; no client has to send anything.
WakeupFairness ==
    /\ WF_wakeupVars(ReactorThread) /\ WF_wakeupVars(StopSignal)
    /\ \A p \in Producers : WF_wakeupVars(Producer(p))

WakeupFairSpec == WakeupSpec /\ WakeupFairness

-----------------------------------------------------------------------------
\* Properties.

\* stop() always gets through: the reactor leaves its loop once running is
\* cleared, whatever state wake_pending is in, because stop_state signals the
\* eventfd directly after the store.
StopIsSeen == stopPc = "signal" ~> reactorPc = "exited"

\* event_loop.cpp: a producer "that observes false will enqueue another wakeup
\* count, while producers that observed true are covered by the count being
\* drained".  So the reactor does not wait on entries of resumed_connections with
\* no count to end the wait and no producer on its way to write one.
NoSleepOnResumed ==
    reactorPc = "wait" /\ resumedQueue # <<>> =>
        eventCount > 0 \/ \E p \in Producers : ppc[p] \in {"wake", "signal"}
=============================================================================
