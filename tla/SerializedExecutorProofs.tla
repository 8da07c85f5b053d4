----------------------- MODULE SerializedExecutorProofs -----------------------
(***************************************************************************)
(* Proofs about SerializedExecutor for every set of jobs and domains, every *)
(* assignment of routes and policies and every concurrency limit: one job   *)
(* of a domain at a time, a worker for every busy domain, exact counts, and *)
(* that the executor implements DomainQueues.                               *)
(***************************************************************************)
EXTENDS SerializedExecutor, FiniteSetTheorems, TLAPS

\* Every step is tried with SMT and Zenon and, where a loaded machine needs it, with
\* SMT for longer.
USE SMT, Zenon, SMTT(30)

\* A worker that holds a job keeps the job's domain active, and only requests
\* reach CompletionGuard.
HoldersActive ==
    \A w \in Workers :
        /\ wpc[w] \in HasJob => wjob[w] \in Jobs /\ active[DomainOf[wjob[w]]]
        /\ wpc[w] = "completion" => wjob[w] \in Requests

\* serialized_mutex is held across steps only while stop_state has not yet set
\* serialized_stopping, which it does under that mutex.
MutexBeforeStop ==
    /\ mutex # NoJob => ~stopping
    /\ ~stopping <=> stopPc \in {"up", "stopping"}

\* While the mutex is held, the pool is already large enough for the admission.
RoomForAdmission ==
    mutex # NoJob =>
        \/ workerCount = MaxSerializedConcurrency
        \/ workerCount >= busyCount + (IF SerializedDomainBusy(DomainOf[mutex]) THEN 0 ELSE 1)

IInv == /\ TypeOK /\ HoldersActive /\ OneAtATime
        /\ MutexBeforeStop /\ RoomForAdmission /\ EnoughWorkers

-----------------------------------------------------------------------------
\* The jobs a latest_wins request replaces are finitely many queued requests.
LEMMA ReplacedFinite ==
    ASSUME NEW j \in Jobs
    PROVE  Replaced(j) \subseteq Requests /\ Cardinality(Replaced(j)) \in Nat
<1>1. Replaced(j) \subseteq Requests
  BY Zenon DEF Replaced, Pending, Requests
<1>2. IsFiniteSet(Replaced(j))
  BY <1>1, JobsAssumption, FS_Subset, Zenon DEF Requests
<1> QED
  BY <1>1, <1>2, FS_CardinalityType, Zenon

\* ensure_serialized_worker_count never shrinks the pool or exceeds the limit, and
\* leaves room for the job that is being admitted.
LEMMA DesiredBounds ==
    ASSUME TypeOK, NEW d \in Domains
    PROVE  LET n == DesiredSerializedWorkerCount(d) IN
           /\ n \in 0..MaxSerializedConcurrency
           /\ n >= workerCount
           /\ \/ n = MaxSerializedConcurrency
              \/ n >= busyCount + (IF SerializedDomainBusy(d) THEN 0 ELSE 1)
<1>1. busyCount \in Int /\ workerCount \in 0..MaxSerializedConcurrency
  BY Zenon DEF TypeOK
<1>2. MaxSerializedConcurrency \in Nat
  BY ConcurrencyAssumption, Zenon
<1> QED
  BY <1>1, <1>2 DEF DesiredSerializedWorkerCount

\* The initial state satisfies the inductive invariant.
LEMMA InitInvariant == Init => IInv
<1> SUFFICES ASSUME Init PROVE IInv
  BY Zenon
<1>1. MaxSerializedConcurrency \in Nat
  BY ConcurrencyAssumption, Zenon
<1>2. TypeOK
  <2>1. stage \in [Jobs -> Stages] /\ wpc \in [Workers -> WorkerPcs]
    BY Zenon DEF Init, Stages, WorkerPcs
  <2>2. wjob \in [Workers -> Jobs \cup {NoJob}] /\ superseded \in [Jobs -> SUBSET Requests]
    BY Zenon DEF Init
  <2>3. epc \in [Jobs -> {"idle", "finish"}] /\ stamp \in [Jobs -> Nat]
    BY Zenon DEF Init
  <2>4. /\ active \in [Domains -> BOOLEAN] /\ queued \in [Domains -> Int]
        /\ connPending \in [Conns -> Int]
    BY DEF Init
  <2>5. running \in BOOLEAN /\ stopping \in BOOLEAN /\ mutex \in Jobs \cup {NoJob}
    BY Zenon DEF Init
  <2>6. stopPc \in {"up", "stopping", "signalled", "notified", "joining"}
    BY Zenon DEF Init
  <2>7. /\ nextStamp \in Nat /\ activeCount \in Int /\ busyCount \in Int
        /\ workerCount \in 0..MaxSerializedConcurrency
    BY <1>1 DEF Init
  <2> QED
    BY <2>1, <2>2, <2>3, <2>4, <2>5, <2>6, <2>7, Zenon DEF TypeOK
<1>3. HoldersActive /\ OneAtATime
  BY Zenon DEF Init, HoldersActive, OneAtATime, HasJob
<1>4. MutexBeforeStop /\ RoomForAdmission /\ EnoughWorkers
  BY DEF Init, MutexBeforeStop, RoomForAdmission, EnoughWorkers
<1> QED
  BY <1>2, <1>3, <1>4, Zenon DEF IInv

\* Every step keeps the types.
LEMMA TypeStep == TypeOK /\ HoldersActive /\ [Next]_vars => TypeOK'
<1> SUFFICES ASSUME TypeOK, HoldersActive, [Next]_vars PROVE TypeOK'
  BY Zenon
<1> USE JobsAssumption, ConcurrencyAssumption DEF queueVars, orderVars, domainVars, stopVars, workerVars, enqueuerVars
<1>1. ASSUME NEW j \in Jobs, EnqueueRefused(j) PROVE TypeOK'
  BY <1>1, Zenon DEF TypeOK, EnqueueRefused, Stages
<1>2. ASSUME NEW j \in Jobs, EnqueueBegin(j) PROVE TypeOK'
  <2>1. DomainOf[j] \in Domains
    BY Zenon
  <2>2. DesiredSerializedWorkerCount(DomainOf[j]) \in 0..MaxSerializedConcurrency
    BY <2>1, DesiredBounds, Zenon
  <2>3. wpc' \in [Workers -> WorkerPcs]
    BY <1>2, Zenon DEF TypeOK, EnqueueBegin, EnsureSerializedWorkerCount, WorkerPcs
  <2> QED
    BY <1>2, <2>2, <2>3, Zenon DEF TypeOK, EnqueueBegin, EnsureSerializedWorkerCount
<1>3. ASSUME NEW j \in Jobs, EnqueueDeclined(j) PROVE TypeOK'
  BY <1>3, Zenon DEF TypeOK, EnqueueDeclined, Stages
<1>4. ASSUME NEW j \in Jobs, EnqueueAdmit(j) PROVE TypeOK'
  <2>1. Replaced(j) \subseteq Requests /\ Cardinality(Replaced(j)) \in Nat
    BY ReplacedFinite, Zenon
  <2>2. stage' \in [Jobs -> Stages] /\ stamp' \in [Jobs -> Nat]
    BY <1>4, Zenon DEF TypeOK, EnqueueAdmit, Stages
  <2>3. queued' \in [Domains -> Int]
    BY <1>4, <2>1 DEF TypeOK, EnqueueAdmit
  <2>4. superseded' \in [Jobs -> SUBSET Requests] /\ epc' \in [Jobs -> {"idle", "finish"}]
    BY <1>4, <2>1, Zenon DEF TypeOK, EnqueueAdmit
  <2>5. connPending' \in [Conns -> Int]
    BY <1>4 DEF TypeOK, EnqueueAdmit, Requests
  <2>6. nextStamp' \in Nat /\ busyCount' \in Int /\ mutex' \in Jobs \cup {NoJob}
    BY <1>4 DEF TypeOK, EnqueueAdmit
  <2> QED
    BY <1>4, <2>2, <2>3, <2>4, <2>5, <2>6, Zenon DEF TypeOK, EnqueueAdmit
<1>5. ASSUME NEW j \in Jobs, FinishSuperseded(j) PROVE TypeOK'
  <2>1. PICK k \in superseded[j] :
          /\ superseded' = [superseded EXCEPT ![j] = @ \ {k}]
          /\ stage' = [stage EXCEPT ![k] = "done"]
          /\ connPending' = [connPending EXCEPT ![ConnOf[k]] = @ - 1]
          /\ UNCHANGED <<stamp, nextStamp, active, queued, activeCount, busyCount,
                         stopVars, workerVars, mutex, epc>>
    BY <1>5, Zenon DEF FinishSuperseded
  <2>2. k \in Requests /\ k \in Jobs
    BY Zenon DEF TypeOK, Requests
  <2>3. superseded' \in [Jobs -> SUBSET Requests] /\ stage' \in [Jobs -> Stages]
    BY <2>1, <2>2, Zenon DEF TypeOK, Stages
  <2>4. connPending' \in [Conns -> Int]
    BY <2>1, <2>2 DEF TypeOK
  <2> QED
    BY <2>1, <2>3, <2>4, Zenon DEF TypeOK
<1>6. ASSUME NEW j \in Jobs, EnqueueNotify(j) PROVE TypeOK'
  BY <1>6, Zenon DEF TypeOK, EnqueueNotify, WorkerPcs, NotifyAll
<1>7. ASSUME NEW w \in Workers, WorkerWait(w) PROVE TypeOK'
  BY <1>7, Zenon DEF TypeOK, WorkerWait, WorkerPcs
<1>8. ASSUME NEW w \in Workers, WorkerExit(w) PROVE TypeOK'
  BY <1>8, Zenon DEF TypeOK, WorkerExit, WorkerPcs
<1>9. ASSUME NEW w \in Workers, WorkerPick(w) PROVE TypeOK'
  BY <1>9 DEF TypeOK, WorkerPick, Stages, WorkerPcs, IsNext, Runnable, Pending
<1>10. ASSUME NEW w \in Workers, WorkerInvoke(w) PROVE TypeOK'
  BY <1>10, Zenon DEF TypeOK, WorkerInvoke, WorkerPcs
<1>11. ASSUME NEW w \in Workers, WorkerDiscard(w) PROVE TypeOK'
  BY <1>11, Zenon DEF TypeOK, WorkerDiscard, Stages, WorkerPcs
<1>12. ASSUME NEW w \in Workers, WorkerReturn(w) PROVE TypeOK'
  BY <1>12, Zenon DEF TypeOK, WorkerReturn, Stages, WorkerPcs
<1>13. ASSUME NEW w \in Workers, WorkerComplete(w) PROVE TypeOK'
  <2>1. wjob[w] \in Requests
    BY <1>13, Zenon DEF WorkerComplete, HoldersActive
  <2>2. connPending' \in [Conns -> Int] /\ wpc' \in [Workers -> WorkerPcs]
    BY <1>13, <2>1 DEF TypeOK, WorkerComplete, WorkerPcs
  <2> QED
    BY <1>13, <2>2, Zenon DEF TypeOK, WorkerComplete
<1>14. ASSUME NEW w \in Workers, WorkerDeactivate(w) PROVE TypeOK'
  <2>1. active' \in [Domains -> BOOLEAN]
    BY <1>14, Zenon DEF TypeOK, WorkerDeactivate
  <2>2. activeCount' \in Int /\ busyCount' \in Int
    BY <1>14 DEF TypeOK, WorkerDeactivate
  <2>3. wjob' \in [Workers -> Jobs \cup {NoJob}] /\ wpc' \in [Workers -> WorkerPcs]
    BY <1>14, Zenon DEF TypeOK, WorkerDeactivate, WorkerPcs
  <2> QED
    BY <1>14, <2>1, <2>2, <2>3, Zenon DEF TypeOK, WorkerDeactivate
<1>15. ASSUME NEW w \in Workers, WorkerNotify(w) PROVE TypeOK'
  BY <1>15, Zenon DEF TypeOK, WorkerNotify, WorkerPcs, NotifyAll
<1>16. CASE StopRunning
  BY <1>16, Zenon DEF TypeOK, StopRunning
<1>17. CASE StopSerialized
  BY <1>17, Zenon DEF TypeOK, StopSerialized
<1>18. CASE StopNotify
  BY <1>18, Zenon DEF TypeOK, StopNotify, WorkerPcs, NotifyAll
<1>19. CASE JoinSerializedWorkers
  BY <1>19 DEF TypeOK, JoinSerializedWorkers
<1>20. CASE UNCHANGED vars
  BY <1>20, Zenon DEF TypeOK, vars
<1> QED
  BY <1>1, <1>2, <1>3, <1>4, <1>5, <1>6, <1>7, <1>8, <1>9, <1>10, <1>11, <1>12, <1>13, <1>14,
     <1>15, <1>16, <1>17, <1>18, <1>19, <1>20, Zenon DEF Next, Enqueue, Worker, Stop, Terminated

\* Exclusion: a worker picks a job only of an inactive domain and activates it in
\* the same critical section; the guard deactivates a domain nobody else holds.
LEMMA ExclusionStep == TypeOK /\ HoldersActive /\ OneAtATime /\ [Next]_vars
    => HoldersActive' /\ OneAtATime'
<1> SUFFICES ASSUME TypeOK, HoldersActive, OneAtATime, [Next]_vars PROVE HoldersActive' /\ OneAtATime'
  BY Zenon
<1> USE JobsAssumption, ConcurrencyAssumption DEF queueVars, orderVars, domainVars, stopVars, workerVars, enqueuerVars
<1>1. ASSUME NEW j \in Jobs, EnqueueRefused(j) PROVE HoldersActive' /\ OneAtATime'
  BY <1>1 DEF TypeOK, HoldersActive, OneAtATime, HasJob, EnqueueRefused
<1>2. ASSUME NEW j \in Jobs, EnqueueBegin(j) PROVE HoldersActive' /\ OneAtATime'
  BY <1>2 DEF TypeOK, HoldersActive, OneAtATime, HasJob, EnqueueBegin, EnsureSerializedWorkerCount
<1>3. ASSUME NEW j \in Jobs, EnqueueDeclined(j) PROVE HoldersActive' /\ OneAtATime'
  BY <1>3 DEF TypeOK, HoldersActive, OneAtATime, HasJob, EnqueueDeclined
<1>4. ASSUME NEW j \in Jobs, EnqueueAdmit(j) PROVE HoldersActive' /\ OneAtATime'
  BY <1>4 DEF TypeOK, HoldersActive, OneAtATime, HasJob, EnqueueAdmit
<1>5. ASSUME NEW j \in Jobs, FinishSuperseded(j) PROVE HoldersActive' /\ OneAtATime'
  BY <1>5 DEF TypeOK, HoldersActive, OneAtATime, HasJob, FinishSuperseded
<1>6. ASSUME NEW j \in Jobs, EnqueueNotify(j) PROVE HoldersActive' /\ OneAtATime'
  BY <1>6 DEF TypeOK, HoldersActive, OneAtATime, HasJob, EnqueueNotify, NotifyAll
<1>7. ASSUME NEW w \in Workers, WorkerWait(w) PROVE HoldersActive' /\ OneAtATime'
  BY <1>7 DEF TypeOK, HoldersActive, OneAtATime, HasJob, WorkerWait
<1>8. ASSUME NEW w \in Workers, WorkerExit(w) PROVE HoldersActive' /\ OneAtATime'
  BY <1>8 DEF TypeOK, HoldersActive, OneAtATime, HasJob, WorkerExit
<1>9. ASSUME NEW w \in Workers, WorkerPick(w) PROVE HoldersActive' /\ OneAtATime'
  BY <1>9 DEF TypeOK, HoldersActive, OneAtATime, HasJob, WorkerPick, IsNext, Runnable, Pending
<1>10. ASSUME NEW w \in Workers, WorkerInvoke(w) PROVE HoldersActive' /\ OneAtATime'
  BY <1>10 DEF TypeOK, HoldersActive, OneAtATime, HasJob, WorkerInvoke
<1>11. ASSUME NEW w \in Workers, WorkerDiscard(w) PROVE HoldersActive' /\ OneAtATime'
  BY <1>11 DEF TypeOK, HoldersActive, OneAtATime, HasJob, WorkerDiscard, Requests
<1>12. ASSUME NEW w \in Workers, WorkerReturn(w) PROVE HoldersActive' /\ OneAtATime'
  BY <1>12 DEF TypeOK, HoldersActive, OneAtATime, HasJob, WorkerReturn, Requests
<1>13. ASSUME NEW w \in Workers, WorkerComplete(w) PROVE HoldersActive' /\ OneAtATime'
  BY <1>13 DEF TypeOK, HoldersActive, OneAtATime, HasJob, WorkerComplete
<1>14. ASSUME NEW w \in Workers, WorkerDeactivate(w) PROVE HoldersActive' /\ OneAtATime'
  BY <1>14 DEF TypeOK, HoldersActive, OneAtATime, HasJob, WorkerDeactivate
<1>15. ASSUME NEW w \in Workers, WorkerNotify(w) PROVE HoldersActive' /\ OneAtATime'
  BY <1>15 DEF TypeOK, HoldersActive, OneAtATime, HasJob, WorkerNotify, NotifyAll
<1>16. CASE StopRunning
  BY <1>16, Zenon DEF TypeOK, HoldersActive, OneAtATime, HasJob, StopRunning
<1>17. CASE StopSerialized
  BY <1>17 DEF TypeOK, HoldersActive, OneAtATime, HasJob, StopSerialized
<1>18. CASE StopNotify
  BY <1>18 DEF TypeOK, HoldersActive, OneAtATime, HasJob, StopNotify, NotifyAll
<1>19. CASE JoinSerializedWorkers
  BY <1>19 DEF TypeOK, HoldersActive, OneAtATime, HasJob, JoinSerializedWorkers
<1>20. CASE UNCHANGED vars
  BY <1>20 DEF TypeOK, HoldersActive, OneAtATime, HasJob, vars, SerializedDomainBusy
<1> QED
  BY <1>1, <1>2, <1>3, <1>4, <1>5, <1>6, <1>7, <1>8, <1>9, <1>10, <1>11, <1>12, <1>13, <1>14,
     <1>15, <1>16, <1>17, <1>18, <1>19, <1>20, Zenon DEF Next, Enqueue, Worker, Stop, Terminated

\* The pool grows before an admission can make another domain busy, and shrinks
\* only in the join, which stop_state orders after every admission.
LEMMA PoolStep == TypeOK /\ MutexBeforeStop /\ RoomForAdmission /\ EnoughWorkers /\ [Next]_vars
    => MutexBeforeStop' /\ RoomForAdmission' /\ EnoughWorkers'
<1> SUFFICES ASSUME TypeOK, MutexBeforeStop, RoomForAdmission, EnoughWorkers, [Next]_vars PROVE MutexBeforeStop' /\ RoomForAdmission' /\ EnoughWorkers'
  BY Zenon
<1> USE JobsAssumption, ConcurrencyAssumption DEF queueVars, orderVars, domainVars, stopVars, workerVars, enqueuerVars
<1>1. ASSUME NEW j \in Jobs, EnqueueRefused(j) PROVE MutexBeforeStop' /\ RoomForAdmission' /\ EnoughWorkers'
  BY <1>1, Zenon
     DEF TypeOK, MutexBeforeStop, RoomForAdmission, EnoughWorkers, EnqueueRefused,
         SerializedDomainBusy
<1>2. ASSUME NEW j \in Jobs, EnqueueBegin(j) PROVE MutexBeforeStop' /\ RoomForAdmission' /\ EnoughWorkers'
  <2>1. DomainOf[j] \in Domains
    BY Zenon
  <2> DEFINE n == DesiredSerializedWorkerCount(DomainOf[j])
  <2>2. /\ n \in 0..MaxSerializedConcurrency /\ n >= workerCount
        /\ \/ n = MaxSerializedConcurrency
           \/ n >= busyCount + (IF SerializedDomainBusy(DomainOf[j]) THEN 0 ELSE 1)
    BY <2>1, DesiredBounds, Zenon
  <2>3. workerCount' = n /\ mutex' = j /\ ~stopping /\ UNCHANGED <<queueVars, stopVars>>
    BY <1>2, Zenon DEF EnqueueBegin, EnsureSerializedWorkerCount
  <2> HIDE DEF n
  <2>4. MutexBeforeStop'
    BY <2>3, Zenon DEF MutexBeforeStop
  <2>5. SerializedDomainBusy(DomainOf[j])' = SerializedDomainBusy(DomainOf[j])
    BY <2>3, Zenon DEF SerializedDomainBusy
  <2>6. RoomForAdmission'
    BY <2>2, <2>3, <2>5, Zenon DEF RoomForAdmission
  <2>7. EnoughWorkers'
    BY <2>2, <2>3 DEF EnoughWorkers, TypeOK
  <2> QED
    BY <2>4, <2>6, <2>7, Zenon
<1>3. ASSUME NEW j \in Jobs, EnqueueDeclined(j) PROVE MutexBeforeStop' /\ RoomForAdmission' /\ EnoughWorkers'
  BY <1>3, Zenon DEF TypeOK, MutexBeforeStop, RoomForAdmission, EnoughWorkers, EnqueueDeclined
<1>4. ASSUME NEW j \in Jobs, EnqueueAdmit(j) PROVE MutexBeforeStop' /\ RoomForAdmission' /\ EnoughWorkers'
  BY <1>4, Zenon
     DEF TypeOK, MutexBeforeStop, RoomForAdmission, EnoughWorkers, EnqueueAdmit,
         SerializedDomainBusy
<1>5. ASSUME NEW j \in Jobs, FinishSuperseded(j) PROVE MutexBeforeStop' /\ RoomForAdmission' /\ EnoughWorkers'
  BY <1>5
     DEF TypeOK, MutexBeforeStop, RoomForAdmission, EnoughWorkers, FinishSuperseded,
         SerializedDomainBusy
<1>6. ASSUME NEW j \in Jobs, EnqueueNotify(j) PROVE MutexBeforeStop' /\ RoomForAdmission' /\ EnoughWorkers'
  BY <1>6, Zenon
     DEF TypeOK, MutexBeforeStop, RoomForAdmission, EnoughWorkers, EnqueueNotify,
         SerializedDomainBusy
<1>7. ASSUME NEW w \in Workers, WorkerWait(w) PROVE MutexBeforeStop' /\ RoomForAdmission' /\ EnoughWorkers'
  BY <1>7, Zenon
     DEF TypeOK, MutexBeforeStop, RoomForAdmission, EnoughWorkers, WorkerWait,
         SerializedDomainBusy
<1>8. ASSUME NEW w \in Workers, WorkerExit(w) PROVE MutexBeforeStop' /\ RoomForAdmission' /\ EnoughWorkers'
  BY <1>8, Zenon
     DEF TypeOK, MutexBeforeStop, RoomForAdmission, EnoughWorkers, WorkerExit,
         SerializedDomainBusy
<1>9. ASSUME NEW w \in Workers, WorkerPick(w) PROVE MutexBeforeStop' /\ RoomForAdmission' /\ EnoughWorkers'
  BY <1>9
     DEF TypeOK, MutexBeforeStop, RoomForAdmission, EnoughWorkers, WorkerPick,
         SerializedDomainBusy
<1>10. ASSUME NEW w \in Workers, WorkerInvoke(w) PROVE MutexBeforeStop' /\ RoomForAdmission' /\ EnoughWorkers'
  BY <1>10, Zenon
     DEF TypeOK, MutexBeforeStop, RoomForAdmission, EnoughWorkers, WorkerInvoke,
         SerializedDomainBusy
<1>11. ASSUME NEW w \in Workers, WorkerDiscard(w) PROVE MutexBeforeStop' /\ RoomForAdmission' /\ EnoughWorkers'
  BY <1>11, Zenon
     DEF TypeOK, MutexBeforeStop, RoomForAdmission, EnoughWorkers, WorkerDiscard,
         SerializedDomainBusy
<1>12. ASSUME NEW w \in Workers, WorkerReturn(w) PROVE MutexBeforeStop' /\ RoomForAdmission' /\ EnoughWorkers'
  BY <1>12, Zenon
     DEF TypeOK, MutexBeforeStop, RoomForAdmission, EnoughWorkers, WorkerReturn,
         SerializedDomainBusy
<1>13. ASSUME NEW w \in Workers, WorkerComplete(w) PROVE MutexBeforeStop' /\ RoomForAdmission' /\ EnoughWorkers'
  BY <1>13, Zenon
     DEF TypeOK, MutexBeforeStop, RoomForAdmission, EnoughWorkers, WorkerComplete,
         SerializedDomainBusy
<1>14. ASSUME NEW w \in Workers, WorkerDeactivate(w) PROVE MutexBeforeStop' /\ RoomForAdmission' /\ EnoughWorkers'
  BY <1>14
     DEF TypeOK, MutexBeforeStop, RoomForAdmission, EnoughWorkers, WorkerDeactivate,
         SerializedDomainBusy
<1>15. ASSUME NEW w \in Workers, WorkerNotify(w) PROVE MutexBeforeStop' /\ RoomForAdmission' /\ EnoughWorkers'
  BY <1>15, Zenon
     DEF TypeOK, MutexBeforeStop, RoomForAdmission, EnoughWorkers, WorkerNotify,
         SerializedDomainBusy
<1>16. CASE StopRunning
  BY <1>16, Zenon
     DEF TypeOK, MutexBeforeStop, RoomForAdmission, EnoughWorkers, StopRunning,
         SerializedDomainBusy
<1>17. CASE StopSerialized
  BY <1>17, Zenon
     DEF TypeOK, MutexBeforeStop, RoomForAdmission, EnoughWorkers, StopSerialized,
         SerializedDomainBusy
<1>18. CASE StopNotify
  BY <1>18, Zenon
     DEF TypeOK, MutexBeforeStop, RoomForAdmission, EnoughWorkers, StopNotify,
         SerializedDomainBusy
<1>19. CASE JoinSerializedWorkers
  BY <1>19, Zenon
     DEF TypeOK, MutexBeforeStop, RoomForAdmission, EnoughWorkers, JoinSerializedWorkers,
         SerializedDomainBusy
<1>20. CASE UNCHANGED vars
  BY <1>20, Zenon
     DEF TypeOK, MutexBeforeStop, RoomForAdmission, EnoughWorkers, vars, SerializedDomainBusy
<1> QED
  BY <1>1, <1>2, <1>3, <1>4, <1>5, <1>6, <1>7, <1>8, <1>9, <1>10, <1>11, <1>12, <1>13, <1>14,
     <1>15, <1>16, <1>17, <1>18, <1>19, <1>20, Zenon DEF Next, Enqueue, Worker, Stop, Terminated

-----------------------------------------------------------------------------
\* The inductive invariant holds in every behaviour.
THEOREM Invariant == Spec => []IInv
<1>1. Init => IInv
  BY InitInvariant, Zenon
<1>2. IInv /\ [Next]_vars => IInv'
  BY TypeStep, ExclusionStep, PoolStep, Zenon DEF IInv
<1> QED
  BY <1>1, <1>2, PTL DEF Spec

\* The types of the executor's state hold in every behaviour, whatever the jobs,
\* domains and policies.
THEOREM TypeCorrect == Spec => []TypeOK
<1>1. IInv => TypeOK
  BY Zenon DEF IInv
<1> QED
  BY <1>1, Invariant, PTL

\* A domain never executes two jobs at once, for any number of workers, domains
\* and jobs, through shutdown included.
THEOREM Exclusive == Spec => []OneAtATime
<1>1. IInv => OneAtATime
  BY Zenon DEF IInv
<1> QED
  BY <1>1, Invariant, PTL

\* The lazily grown pool always has a worker per busy domain, up to the limit.
THEOREM PoolLargeEnough == Spec => []EnoughWorkers
<1>1. IInv => EnoughWorkers
  BY Zenon DEF IInv
<1> QED
  BY <1>1, Invariant, PTL

-----------------------------------------------------------------------------
\* Where a job is: its enqueuer admits it once, a worker holds it only after it left the
\* queue, and a replaced job is in the local vector of one enqueuer.
StageInv ==
    /\ mutex # NoJob => stage[mutex] = "new"
    /\ \A w \in Workers : wpc[w] \in HasJob => stage[wjob[w]] \in {"taken", "done"}
    /\ \A j \in Jobs : \A k \in superseded[j] : stage[k] = "replaced"
    /\ \A i, j \in Jobs : i # j => superseded[i] \cap superseded[j] = {}

LEMMA StageStep == IInv /\ StageInv /\ [Next]_vars => StageInv'
<1> SUFFICES ASSUME IInv, StageInv, [Next]_vars PROVE StageInv'
  BY Zenon
<1> USE JobsAssumption, ConcurrencyAssumption DEF queueVars, orderVars, domainVars, stopVars, workerVars, enqueuerVars
<1>1. TypeOK /\ HoldersActive /\ OneAtATime /\ TypeOK'
  BY TypeStep, Zenon DEF IInv
<1>2. ASSUME NEW j \in Jobs, EnqueueRefused(j) PROVE StageInv'
  BY <1>1, <1>2 DEF TypeOK, HoldersActive, StageInv, HasJob, EnqueueRefused
<1>3. ASSUME NEW j \in Jobs, EnqueueBegin(j) PROVE StageInv'
  BY <1>1, <1>3
     DEF TypeOK, HoldersActive, StageInv, HasJob, EnqueueBegin, EnsureSerializedWorkerCount
<1>4. ASSUME NEW j \in Jobs, EnqueueDeclined(j) PROVE StageInv'
  BY <1>1, <1>4 DEF TypeOK, HoldersActive, StageInv, HasJob, EnqueueDeclined
<1>5. ASSUME NEW j \in Jobs, EnqueueAdmit(j) PROVE StageInv'
  BY <1>1, <1>5
     DEF TypeOK, HoldersActive, StageInv, HasJob, EnqueueAdmit, Replaced, Pending, Requests
<1>6. ASSUME NEW j \in Jobs, FinishSuperseded(j) PROVE StageInv'
  BY <1>1, <1>6 DEF TypeOK, HoldersActive, StageInv, HasJob, FinishSuperseded
<1>7. ASSUME NEW j \in Jobs, EnqueueNotify(j) PROVE StageInv'
  BY <1>1, <1>7 DEF TypeOK, HoldersActive, StageInv, HasJob, EnqueueNotify, NotifyAll
<1>8. ASSUME NEW w \in Workers, WorkerWait(w) PROVE StageInv'
  BY <1>1, <1>8 DEF TypeOK, HoldersActive, StageInv, HasJob, WorkerWait
<1>9. ASSUME NEW w \in Workers, WorkerExit(w) PROVE StageInv'
  BY <1>1, <1>9 DEF TypeOK, HoldersActive, StageInv, HasJob, WorkerExit
<1>10. ASSUME NEW w \in Workers, WorkerPick(w) PROVE StageInv'
  BY <1>1, <1>10
     DEF TypeOK, HoldersActive, StageInv, HasJob, WorkerPick, IsNext, Runnable, Pending
<1>11. ASSUME NEW w \in Workers, WorkerInvoke(w) PROVE StageInv'
  BY <1>1, <1>11 DEF TypeOK, HoldersActive, StageInv, HasJob, WorkerInvoke
<1>12. ASSUME NEW w \in Workers, WorkerDiscard(w) PROVE StageInv'
  <2>1. PICK k \in Jobs : k = wjob[w]
    BY <1>1, <1>12, Zenon DEF WorkerDiscard, HoldersActive, HasJob
  <2>2. /\ stage' = [stage EXCEPT ![k] = "done"] /\ UNCHANGED <<mutex, superseded, wjob>>
        /\ wpc[w] \in HasJob /\ \A v \in Workers : v # w => wpc'[v] = wpc[v]
    BY <1>1, <1>12, <2>1, Zenon DEF WorkerDiscard, TypeOK, HasJob
  <2>3. stage[k] \in {"taken", "done"} /\ \A i \in Jobs : stage'[i] = IF i = k THEN "done" ELSE stage[i]
    BY <1>1, <2>1, <2>2 DEF StageInv, TypeOK
  <2>4. \A v \in Workers : wpc'[v] \in HasJob => wpc[v] \in HasJob /\ wjob[v] \in Jobs
    BY <1>1, <2>2, Zenon DEF HoldersActive
  <2>5. \A j \in Jobs : superseded[j] \subseteq Jobs
    BY <1>1, Zenon DEF TypeOK, Requests
  <2> QED
    BY <1>1, <2>2, <2>3, <2>4, <2>5 DEF StageInv, TypeOK
<1>13. ASSUME NEW w \in Workers, WorkerReturn(w) PROVE StageInv'
  <2>1. PICK k \in Jobs : k = wjob[w]
    BY <1>1, <1>13, Zenon DEF WorkerReturn, HoldersActive, HasJob
  <2>2. /\ stage' = [stage EXCEPT ![k] = "done"] /\ UNCHANGED <<mutex, superseded, wjob>>
        /\ wpc[w] \in HasJob /\ \A v \in Workers : v # w => wpc'[v] = wpc[v]
    BY <1>1, <1>13, <2>1, Zenon DEF WorkerReturn, TypeOK, HasJob
  <2>3. stage[k] \in {"taken", "done"} /\ \A i \in Jobs : stage'[i] = IF i = k THEN "done" ELSE stage[i]
    BY <1>1, <2>1, <2>2 DEF StageInv, TypeOK
  <2>4. \A v \in Workers : wpc'[v] \in HasJob => wpc[v] \in HasJob /\ wjob[v] \in Jobs
    BY <1>1, <2>2, Zenon DEF HoldersActive
  <2>5. \A j \in Jobs : superseded[j] \subseteq Jobs
    BY <1>1, Zenon DEF TypeOK, Requests
  <2> QED
    BY <1>1, <2>2, <2>3, <2>4, <2>5 DEF StageInv, TypeOK
<1>14. ASSUME NEW w \in Workers, WorkerComplete(w) PROVE StageInv'
  BY <1>1, <1>14 DEF TypeOK, HoldersActive, StageInv, HasJob, WorkerComplete
<1>15. ASSUME NEW w \in Workers, WorkerDeactivate(w) PROVE StageInv'
  BY <1>1, <1>15 DEF TypeOK, HoldersActive, StageInv, HasJob, WorkerDeactivate
<1>16. ASSUME NEW w \in Workers, WorkerNotify(w) PROVE StageInv'
  BY <1>1, <1>16 DEF TypeOK, HoldersActive, StageInv, HasJob, WorkerNotify, NotifyAll
<1>17. CASE StopRunning
  BY <1>1, <1>17 DEF TypeOK, HoldersActive, StageInv, HasJob, StopRunning
<1>18. CASE StopSerialized
  BY <1>1, <1>18 DEF TypeOK, HoldersActive, StageInv, HasJob, StopSerialized
<1>19. CASE StopNotify
  BY <1>1, <1>19 DEF TypeOK, HoldersActive, StageInv, HasJob, StopNotify, NotifyAll
<1>20. CASE JoinSerializedWorkers
  BY <1>1, <1>20 DEF TypeOK, HoldersActive, StageInv, HasJob, JoinSerializedWorkers
<1>21. CASE UNCHANGED vars
  BY <1>21, Zenon DEF StageInv, HasJob, vars
<1> QED
  BY <1>2, <1>3, <1>4, <1>5, <1>6, <1>7, <1>8, <1>9, <1>10, <1>11, <1>12, <1>13, <1>14, <1>15,
     <1>16, <1>17, <1>18, <1>19, <1>20, <1>21, Zenon
     DEF Next, Enqueue, Worker, Stop, Terminated

\* A thread that ensure_serialized_worker_count may start has not been started before.
Unstarted == ~stopping => \A w \in Workers : w > workerCount => wpc[w] = "none"

LEMMA UnstartedStep == IInv /\ Unstarted /\ [Next]_vars => Unstarted'
<1> SUFFICES ASSUME IInv, Unstarted, [Next]_vars, ~stopping', NEW v \in Workers, v > workerCount'
             PROVE  wpc'[v] = "none"
  BY Zenon DEF Unstarted
<1> USE DEF queueVars, orderVars, domainVars, stopVars, workerVars, enqueuerVars
<1>1. TypeOK /\ MutexBeforeStop /\ wpc \in [Workers -> WorkerPcs] /\ workerCount \in Int
  BY DEF IInv, TypeOK
<1>2. ASSUME ~stopping, workerCount' = workerCount PROVE wpc[v] = "none"
  BY <1>2, Zenon DEF Unstarted
<1>3. ASSUME NEW j \in Jobs, EnqueueBegin(j) PROVE wpc'[v] = "none"
  <2>1. PICK n : n = DesiredSerializedWorkerCount(DomainOf[j])
    BY Zenon
  <2>2. n \in Int /\ n >= workerCount
    BY <1>1, <2>1, DesiredBounds, JobsAssumption, ConcurrencyAssumption
  <2>3. workerCount' = n /\ ~stopping
        /\ wpc'[v] = IF v > workerCount /\ v <= n THEN "ready" ELSE wpc[v]
    BY <1>3, <2>1, Zenon DEF EnqueueBegin, EnsureSerializedWorkerCount
  <2>4. v > workerCount /\ ~(v <= n)
    BY <1>1, <2>2, <2>3, ConcurrencyAssumption DEF Workers
  <2> QED
    BY <2>3, <2>4, Zenon DEF Unstarted
<1>4. ASSUME NEW j \in Jobs, Enqueue(j), ~EnqueueBegin(j) PROVE wpc'[v] = "none"
  <2>1. ~stopping /\ workerCount' = workerCount
    BY <1>4
       DEF Enqueue, EnqueueRefused, EnqueueDeclined, EnqueueAdmit, FinishSuperseded, EnqueueNotify
  <2>2. wpc' = wpc \/ wpc' = NotifyAll(wpc)
    BY <1>4, Zenon
       DEF Enqueue, EnqueueRefused, EnqueueDeclined, EnqueueAdmit, FinishSuperseded, EnqueueNotify
  <2> QED
    BY <1>2, <2>1, <2>2, Zenon DEF NotifyAll
<1>5. ASSUME NEW w \in Workers, Worker(w) PROVE wpc'[v] = "none"
  <2>1. ~stopping /\ workerCount' = workerCount
    BY <1>5
       DEF Worker, WorkerWait, WorkerExit, WorkerPick, WorkerInvoke, WorkerDiscard, WorkerReturn,
                WorkerComplete, WorkerDeactivate, WorkerNotify
  <2>2. wpc[w] # "none"
    BY <1>5, Zenon
       DEF Worker, WorkerWait, WorkerExit, WorkerPick, WorkerInvoke, WorkerDiscard, WorkerReturn,
                WorkerComplete, WorkerDeactivate, WorkerNotify
  <2>3. PICK pc : wpc' = [wpc EXCEPT ![w] = pc] \/ wpc' = NotifyAll([wpc EXCEPT ![w] = pc])
    BY <1>5, Zenon
       DEF Worker, WorkerWait, WorkerExit, WorkerPick, WorkerInvoke, WorkerDiscard, WorkerReturn,
                WorkerComplete, WorkerDeactivate, WorkerNotify
  <2>4. wpc[v] = "none" /\ v # w
    BY <1>2, <2>1, <2>2, Zenon
  <2> QED
    BY <1>1, <2>3, <2>4, Zenon DEF NotifyAll
<1>6. CASE Stop \/ UNCHANGED vars
  <2>1. ~stopping /\ workerCount' = workerCount
    BY <1>1, <1>6, Zenon
       DEF Stop, StopRunning, StopSerialized, StopNotify, JoinSerializedWorkers, vars,
                      MutexBeforeStop
  <2>2. wpc' = wpc \/ wpc' = NotifyAll(wpc)
    BY <1>6, Zenon DEF Stop, StopRunning, StopSerialized, StopNotify, JoinSerializedWorkers, vars
  <2> QED
    BY <1>2, <2>1, <2>2, Zenon DEF NotifyAll
<1> QED
  BY <1>3, <1>4, <1>5, <1>6, Zenon DEF Next, Terminated

\* The requests that Connection::pending_serialized counts.
Unanswered(j) ==
    \/ stage[j] \in {"queued", "replaced"}
    \/ \E w \in Workers : wjob[w] = j /\ wpc[w] \in HasJob \ {"deactivate"}
Counted(c) == {j \in Requests : ConnOf[j] = c /\ Unanswered(j)}

LEMMA CountedFinite ==
    ASSUME NEW c \in Conns PROVE IsFiniteSet(Counted(c)) /\ Cardinality(Counted(c)) \in Nat
<1>1. Counted(c) \in SUBSET Jobs
  BY Zenon DEF Counted, Requests
<1> QED
  BY <1>1, JobsAssumption, FS_Subset, FS_CardinalityType, Zenon

\* The steps of pending_serialized: none, one more, one less.
LEMMA ConnKept ==
    ASSUME ConnPendingAgrees, UNCHANGED connPending, \A j \in Requests : Unanswered(j)' <=> Unanswered(j)
    PROVE  ConnPendingAgrees'
<1>1. \A c \in Conns : Counted(c)' = Counted(c)
  BY Zenon DEF Counted
<1> QED
  BY <1>1, Zenon DEF ConnPendingAgrees, Counted, Unanswered

LEMMA ConnAdded ==
    ASSUME TypeOK, ConnPendingAgrees, NEW k \in Requests,
           connPending' = [connPending EXCEPT ![ConnOf[k]] = @ + 1],
           ~Unanswered(k), Unanswered(k)',
           \A j \in Requests : j # k => (Unanswered(j)' <=> Unanswered(j))
    PROVE  ConnPendingAgrees'
<1>1. PICK b \in Conns : b = ConnOf[k]
  BY JobsAssumption, Zenon
<1>2. /\ Counted(b)' = Counted(b) \cup {k} /\ k \notin Counted(b)
      /\ \A c \in Conns : c # b => Counted(c)' = Counted(c)
  BY <1>1, Zenon DEF Counted
<1>3. Cardinality(Counted(b) \cup {k}) = Cardinality(Counted(b)) + 1
  BY <1>2, CountedFinite, FS_AddElement, Zenon
<1>4. \A c \in Conns : connPending'[c] = IF c = b THEN connPending[b] + 1 ELSE connPending[c]
  BY <1>1, Zenon DEF TypeOK
<1>5. \A c \in Conns : connPending[c] = Cardinality(Counted(c))
  BY Zenon DEF ConnPendingAgrees, Counted, Unanswered
<1>6. \A c \in Conns : connPending'[c] = Cardinality(Counted(c)')
  BY <1>2, <1>3, <1>4, <1>5, Zenon
<1> QED
  BY <1>6, Zenon DEF ConnPendingAgrees, Counted, Unanswered

LEMMA ConnRemoved ==
    ASSUME TypeOK, ConnPendingAgrees, NEW k \in Requests,
           connPending' = [connPending EXCEPT ![ConnOf[k]] = @ - 1],
           Unanswered(k), ~Unanswered(k)',
           \A j \in Requests : j # k => (Unanswered(j)' <=> Unanswered(j))
    PROVE  ConnPendingAgrees'
<1>1. PICK b \in Conns : b = ConnOf[k]
  BY JobsAssumption, Zenon
<1>2. /\ Counted(b)' = Counted(b) \ {k} /\ k \in Counted(b)
      /\ \A c \in Conns : c # b => Counted(c)' = Counted(c)
  BY <1>1, Zenon DEF Counted
<1>3. Cardinality(Counted(b) \ {k}) = Cardinality(Counted(b)) - 1
  BY <1>2, CountedFinite, FS_RemoveElement, Zenon
<1>4. \A c \in Conns : connPending'[c] = IF c = b THEN connPending[b] - 1 ELSE connPending[c]
  BY <1>1, Zenon DEF TypeOK
<1>5. \A c \in Conns : connPending[c] = Cardinality(Counted(c))
  BY Zenon DEF ConnPendingAgrees, Counted, Unanswered
<1>6. \A c \in Conns : connPending'[c] = Cardinality(Counted(c)')
  BY <1>2, <1>3, <1>4, <1>5, Zenon
<1> QED
  BY <1>6, Zenon DEF ConnPendingAgrees, Counted, Unanswered

LEMMA ConnStep == IInv /\ StageInv /\ Unstarted /\ ConnPendingAgrees /\ [Next]_vars => ConnPendingAgrees'
<1> SUFFICES ASSUME IInv, StageInv, Unstarted, ConnPendingAgrees, [Next]_vars PROVE ConnPendingAgrees'
  BY Zenon
<1> USE DEF queueVars, orderVars, domainVars, stopVars, workerVars, enqueuerVars
<1>1. /\ TypeOK /\ HoldersActive /\ OneAtATime /\ stage \in [Jobs -> Stages]
      /\ wpc \in [Workers -> WorkerPcs] /\ wjob \in [Workers -> Jobs \cup {NoJob}]
      /\ Requests \subseteq Jobs
  BY Zenon DEF IInv, TypeOK, Requests
<1> DEFINE Before == HasJob \ {"deactivate"}
<1>2. ASSUME UNCHANGED <<connPending, stage, wjob>>,
             \A w \in Workers : wpc'[w] \in Before <=> wpc[w] \in Before
      PROVE  ConnPendingAgrees'
  BY <1>2, ConnKept, Zenon DEF Unanswered
<1>3. ASSUME NEW j \in Jobs, EnqueueRefused(j) \/ EnqueueDeclined(j) PROVE ConnPendingAgrees'
  <2>1. /\ stage' = [stage EXCEPT ![j] = "declined"] /\ stage[j] = "new"
        /\ UNCHANGED <<connPending, wpc, wjob>>
    BY <1>3, JobsAssumption DEF EnqueueRefused, EnqueueDeclined, StageInv
  <2>2. \A k \in Requests : Unanswered(k)' <=> Unanswered(k)
    BY <1>1, <2>1, Zenon DEF Unanswered
  <2> QED
    BY <2>1, <2>2, ConnKept, Zenon
<1>4. ASSUME NEW j \in Jobs, EnqueueAdmit(j) PROVE ConnPendingAgrees'
  <2>1. /\ stage[j] = "new" /\ UNCHANGED <<wpc, wjob>>
        /\ stage' = [k \in Jobs |-> IF k = j THEN "queued"
                                    ELSE IF k \in Replaced(j) THEN "replaced" ELSE stage[k]]
        /\ connPending' = IF j \in Maintenance THEN connPending
                          ELSE [connPending EXCEPT ![ConnOf[j]] = @ + 1]
    <3>1. mutex = j /\ j # NoJob
      BY <1>4, JobsAssumption, Zenon DEF EnqueueAdmit
    <3>2. stage[j] = "new"
      BY <3>1, Zenon DEF StageInv
    <3> QED
      BY <1>4, <3>2, Zenon DEF EnqueueAdmit
  <2>2. \A k \in Replaced(j) : stage[k] = "queued"
    BY Zenon DEF Replaced, Pending
  <2>3. \A k \in Requests : k # j => (Unanswered(k)' <=> Unanswered(k))
    BY <1>1, <2>1, <2>2, Zenon DEF Unanswered
  <2>4. ~Unanswered(j) /\ Unanswered(j)'
    BY <1>1, <2>1, Zenon DEF Unanswered, StageInv
  <2>5. CASE j \in Maintenance
    BY <2>1, <2>3, <2>5, ConnKept, Zenon DEF Requests
  <2>6. CASE j \notin Maintenance
    BY <1>1, <2>1, <2>3, <2>4, <2>6, ConnAdded, Zenon DEF Requests
  <2> QED
    BY <2>5, <2>6, Zenon
<1>5. ASSUME NEW j \in Jobs, FinishSuperseded(j) PROVE ConnPendingAgrees'
  <2>1. PICK k \in superseded[j] :
          /\ stage' = [stage EXCEPT ![k] = "done"] /\ UNCHANGED <<wpc, wjob>>
          /\ connPending' = [connPending EXCEPT ![ConnOf[k]] = @ - 1]
    BY <1>5, Zenon DEF FinishSuperseded
  <2>2. k \in Requests /\ stage[k] = "replaced"
    BY <1>1, Zenon DEF TypeOK, StageInv
  <2>3. \A i \in Requests : i # k => (Unanswered(i)' <=> Unanswered(i))
    BY <1>1, <2>1, Zenon DEF Unanswered
  <2>4. Unanswered(k) /\ ~Unanswered(k)'
    BY <1>1, <2>1, <2>2, Zenon DEF Unanswered, StageInv
  <2> QED
    BY <1>1, <2>1, <2>2, <2>3, <2>4, ConnRemoved, Zenon
<1>6. ASSUME NEW j \in Jobs, EnqueueBegin(j) \/ EnqueueNotify(j) PROVE ConnPendingAgrees'
  <2>1. UNCHANGED <<connPending, stage, wjob>>
    BY <1>6, Zenon DEF EnqueueBegin, EnqueueNotify
  <2>2. \A v \in Workers : wpc'[v] \in Before => wpc[v] \in Before
    BY <1>1, <1>6, Zenon
       DEF EnqueueBegin, EnqueueNotify, EnsureSerializedWorkerCount, NotifyAll, HasJob
  <2>3. \A v \in Workers : wpc[v] \in Before => wpc'[v] \in Before
    BY <1>1, <1>6, Zenon
       DEF EnqueueBegin, EnqueueNotify, EnsureSerializedWorkerCount, NotifyAll, HasJob, Unstarted
  <2> QED
    BY <1>2, <2>1, <2>2, <2>3, Zenon
<1>7. ASSUME NEW w \in Workers, WorkerPick(w) PROVE ConnPendingAgrees'
  <2>1. PICK j \in Jobs :
          /\ wpc[w] = "ready" /\ stage[j] = "queued" /\ stage' = [stage EXCEPT ![j] = "taken"]
          /\ wpc' = [wpc EXCEPT ![w] = "picked"] /\ wjob' = [wjob EXCEPT ![w] = j]
          /\ UNCHANGED connPending
    BY <1>7, Zenon DEF WorkerPick, IsNext, Runnable, Pending
  <2>2. /\ wpc'[w] \in Before /\ wjob'[w] = j /\ wpc[w] \notin Before
        /\ \A v \in Workers : v # w => wpc'[v] = wpc[v] /\ wjob'[v] = wjob[v]
    BY <1>1, <2>1, Zenon DEF HasJob
  <2>3. Unanswered(j) /\ Unanswered(j)'
    BY <2>1, <2>2, Zenon DEF Unanswered
  <2>4. \A k \in Requests : k # j => (Unanswered(k)' <=> Unanswered(k))
    BY <1>1, <2>1, <2>2, Zenon DEF Unanswered
  <2> QED
    BY <2>1, <2>3, <2>4, ConnKept, Zenon
<1>8. ASSUME NEW w \in Workers, WorkerDiscard(w) \/ WorkerReturn(w) PROVE ConnPendingAgrees'
  <2>1. PICK k \in Jobs : k = wjob[w]
    BY <1>1, <1>8, Zenon DEF WorkerDiscard, WorkerReturn, HoldersActive, HasJob
  <2>2. /\ stage' = [stage EXCEPT ![k] = "done"] /\ UNCHANGED <<connPending, wjob>>
        /\ wpc[w] \in Before /\ (k \in Requests => wpc'[w] \in Before)
        /\ \A v \in Workers : v # w => wpc'[v] = wpc[v]
    BY <1>1, <1>8, <2>1, Zenon DEF WorkerDiscard, WorkerReturn, HasJob, Requests
  <2>3. k \in Requests => Unanswered(k) /\ Unanswered(k)'
    BY <2>1, <2>2, Zenon DEF Unanswered
  <2>4. \A j \in Requests : j # k => (Unanswered(j)' <=> Unanswered(j))
    BY <1>1, <2>1, <2>2, Zenon DEF Unanswered
  <2> QED
    BY <2>2, <2>3, <2>4, ConnKept, Zenon
<1>9. ASSUME NEW w \in Workers, WorkerComplete(w) PROVE ConnPendingAgrees'
  <2>1. PICK k \in Requests : k = wjob[w]
    BY <1>1, <1>9, Zenon DEF WorkerComplete, HoldersActive
  <2>2. /\ connPending' = [connPending EXCEPT ![ConnOf[k]] = @ - 1] /\ UNCHANGED <<stage, wjob>>
        /\ wpc[w] \in Before /\ wpc'[w] \notin Before
        /\ \A v \in Workers : v # w => wpc'[v] = wpc[v]
    BY <1>1, <1>9, <2>1, Zenon DEF WorkerComplete, HasJob
  <2>3. \A v \in Workers : v # w /\ wpc[v] \in Before => wjob[v] # k
    BY <1>1, <2>1, <2>2, Zenon DEF OneAtATime
  <2>4. stage[k] \in {"taken", "done"}
    BY <2>1, <2>2, Zenon DEF StageInv
  <2>5. Unanswered(k) /\ ~Unanswered(k)'
    BY <2>1, <2>2, <2>3, <2>4, Zenon DEF Unanswered
  <2>6. \A j \in Requests : j # k => (Unanswered(j)' <=> Unanswered(j))
    BY <2>1, <2>2, Zenon DEF Unanswered
  <2> QED
    BY <1>1, <2>2, <2>5, <2>6, ConnRemoved, Zenon
<1>10. ASSUME NEW w \in Workers, WorkerDeactivate(w) PROVE ConnPendingAgrees'
  <2>1. /\ UNCHANGED <<stage, connPending>> /\ wpc[w] \notin Before /\ wpc'[w] \notin Before
        /\ \A v \in Workers : v # w => wpc'[v] = wpc[v] /\ wjob'[v] = wjob[v]
    BY <1>1, <1>10, Zenon DEF WorkerDeactivate, HasJob
  <2> QED
    BY <2>1, ConnKept, Zenon DEF Unanswered
<1>11. ASSUME NEW w \in Workers, WorkerWait(w) \/ WorkerExit(w) \/ WorkerInvoke(w) \/ WorkerNotify(w)
       PROVE  ConnPendingAgrees'
  <2>1. UNCHANGED <<connPending, stage, wjob>>
    BY <1>11, Zenon DEF WorkerWait, WorkerExit, WorkerInvoke, WorkerNotify
  <2>2. \A v \in Workers : wpc'[v] \in Before <=> wpc[v] \in Before
    BY <1>1, <1>11, Zenon
       DEF WorkerWait, WorkerExit, WorkerInvoke, WorkerNotify, NotifyAll, HasJob
  <2> QED
    BY <1>2, <2>1, <2>2, Zenon
<1>12. CASE Stop \/ UNCHANGED vars
  <2>1. UNCHANGED <<connPending, stage, wjob>>
    BY <1>12, Zenon DEF Stop, StopRunning, StopSerialized, StopNotify, JoinSerializedWorkers, vars
  <2>2. \A v \in Workers : wpc'[v] \in Before <=> wpc[v] \in Before
    BY <1>1, <1>12, Zenon
       DEF Stop, StopRunning, StopSerialized, StopNotify, JoinSerializedWorkers, vars,
                       NotifyAll, HasJob
  <2> QED
    BY <1>2, <2>1, <2>2, Zenon
<1> QED
  BY <1>3, <1>4, <1>5, <1>6, <1>7, <1>8, <1>9, <1>10, <1>11, <1>12, Zenon
     DEF Next, Enqueue, Worker, Terminated

LEMMA InitConn == Init => StageInv /\ Unstarted /\ ConnPendingAgrees
<1> SUFFICES ASSUME Init PROVE StageInv /\ Unstarted /\ ConnPendingAgrees
  BY Zenon
<1>1. StageInv /\ Unstarted
  BY Zenon DEF Init, StageInv, Unstarted, HasJob
<1>2. \A c \in Conns : Counted(c) = {} /\ connPending[c] = 0
  BY Zenon DEF Init, Counted, Unanswered, HasJob, Requests
<1>3. ConnPendingAgrees
  BY <1>2, FS_EmptySet, Zenon DEF ConnPendingAgrees, Counted, Unanswered
<1> QED
  BY <1>1, <1>3, Zenon

\* Connection::pending_serialized never leaks a count nor takes one twice.
THEOREM PendingSerializedExact == Spec => []ConnPendingAgrees
<1> QED
  BY Invariant, InitConn, StageStep, UnstartedStep, ConnStep, PTL DEF Spec

-----------------------------------------------------------------------------
\* The jobs a domain has queued, whether a worker holds one of its jobs, and the domains
\* that the two server-wide counts are about.
Waiting(d) == {j \in Pending : DomainOf[j] = d}
Held(d) == \E w \in Workers : wpc[w] \in HasJob /\ DomainOf[wjob[w]] = d
Busy == {d \in Domains : SerializedDomainBusy(d)}
Active == {d \in Domains : active[d]}

LEMMA CountsFinite ==
    /\ \A d \in Domains : IsFiniteSet(Waiting(d)) /\ Cardinality(Waiting(d)) \in Nat
    /\ IsFiniteSet(Busy) /\ IsFiniteSet(Active)
    /\ Cardinality(Busy) \in Nat /\ Cardinality(Active) \in Nat
<1>1. /\ \A d \in Domains : Waiting(d) \in SUBSET Jobs
      /\ Busy \in SUBSET Domains /\ Active \in SUBSET Domains
  BY Zenon DEF Waiting, Pending, Busy, Active
<1> QED
  BY <1>1, JobsAssumption, FS_Subset, FS_CardinalityType, Zenon

\* The counters are exact after a step that leaves them, the queue and the workers' jobs.
LEMMA CountersKept ==
    ASSUME CountersAgree, UNCHANGED <<active, queued, activeCount, busyCount>>,
           Pending' = Pending, \A d \in Domains : Held(d)' <=> Held(d)
    PROVE  CountersAgree'
<1>1. \A d \in Domains : Waiting(d)' = Waiting(d)
  BY Zenon DEF Waiting
<1>2. Busy' = Busy /\ Active' = Active
  BY Zenon DEF Busy, Active, SerializedDomainBusy
<1> QED
  BY <1>1, <1>2, Zenon DEF CountersAgree, Waiting, Busy, Active, Held

\* enqueue_serialized_job: the domain is busy from now on, and its queue gains the job and
\* loses the ones it replaces.
LEMMA AdmitCounters ==
    ASSUME IInv, StageInv, CountersAgree, NEW j \in Jobs, EnqueueAdmit(j) PROVE CountersAgree'
<1>1. /\ TypeOK /\ stage[j] = "new"
      /\ UNCHANGED <<active, activeCount, wpc, wjob>>
      /\ stage' = [k \in Jobs |-> IF k = j THEN "queued"
                                  ELSE IF k \in Replaced(j) THEN "replaced" ELSE stage[k]]
  BY JobsAssumption, Zenon DEF IInv, StageInv, EnqueueAdmit, workerVars
<1>2. PICK d \in Domains : d = DomainOf[j]
  BY JobsAssumption, Zenon
<1>3. /\ busyCount' = IF ~active[d] /\ queued[d] = 0 THEN busyCount + 1 ELSE busyCount
      /\ queued' = [queued EXCEPT ![d] = @ + 1 - Cardinality(Replaced(j))]
  BY <1>2, Zenon DEF EnqueueAdmit
<1>4. /\ queued \in [Domains -> Int] /\ active \in [Domains -> BOOLEAN]
      /\ busyCount = Cardinality(Busy) /\ activeCount = Cardinality(Active)
      /\ \A e \in Domains : queued[e] = Cardinality(Waiting(e)) /\ (active[e] <=> Held(e))
  BY <1>1, Zenon DEF TypeOK, CountersAgree, Busy, Active, Waiting, Held
<1>5. /\ \A e \in Domains : e # d => Waiting(e)' = Waiting(e)
      /\ Waiting(d)' = (Waiting(d) \ Replaced(j)) \cup {j}
      /\ Replaced(j) \in SUBSET Waiting(d) /\ j \notin Waiting(d)
  BY <1>1, <1>2, JobsAssumption DEF Waiting, Pending, Replaced, TypeOK
<1>6. /\ Cardinality(Waiting(d)') = Cardinality(Waiting(d)) - Cardinality(Replaced(j)) + 1
      /\ Cardinality(Waiting(d)') > 0
  <2> DEFINE W == Waiting(d)
             R == Replaced(j)
  <2>1. IsFiniteSet(W) /\ R \in SUBSET W /\ j \notin W /\ Waiting(d)' = (W \ R) \cup {j}
    BY <1>5, CountsFinite, Zenon
  <2> HIDE DEF W, R
  <2>2. IsFiniteSet(W \ R) /\ IsFiniteSet(W \cap R) /\ W \cap R = R /\ IsFiniteSet(R)
    BY <2>1, FS_Subset, Zenon
  <2>3. Cardinality(W \ R) = Cardinality(W) - Cardinality(W \cap R)
    BY <2>1, FS_Difference, Zenon
  <2>4. Cardinality((W \ R) \cup {j}) = Cardinality(W \ R) + 1
    BY <2>1, <2>2, FS_AddElement, Zenon
  <2>5. Cardinality(W \ R) \in Nat /\ Cardinality(W) \in Nat /\ Cardinality(R) \in Nat
    BY <2>1, <2>2, FS_CardinalityType, Zenon
  <2>6. /\ Cardinality(Waiting(d)') = Cardinality(W) - Cardinality(R) + 1
        /\ Cardinality(Waiting(d)') > 0
    <3> DEFINE v == Cardinality(Waiting(d)')
               u == Cardinality(W \ R)
               m == Cardinality(W)
               n == Cardinality(R)
    <3>1. v = u + 1 /\ u = m - n
      BY <2>1, <2>2, <2>3, <2>4, Zenon
    <3>2. u \in Nat /\ m \in Nat /\ n \in Nat
      BY <2>5, Zenon
    <3> HIDE DEF u, v, m, n
    <3>3. v = m - n + 1 /\ v > 0
      BY <3>1, <3>2
    <3> QED
      BY <3>3, Zenon DEF u, v, m, n
  <2> QED
    BY <2>6, Zenon DEF W, R
<1>7. /\ \A e \in Domains : queued'[e] = Cardinality(Waiting(e)')
      /\ queued'[d] # 0 /\ \A e \in Domains : e # d => queued'[e] = queued[e]
  <2>1. Cardinality(Waiting(d)) \in Nat /\ Cardinality(Replaced(j)) \in Nat
    BY CountsFinite, ReplacedFinite, Zenon
  <2>2. queued'[d] = queued[d] + 1 - Cardinality(Replaced(j)) /\ \A e \in Domains : e # d => queued'[e] = queued[e]
    BY <1>3, <1>4, Zenon
  <2>3. queued'[d] = Cardinality(Waiting(d)') /\ queued'[d] # 0
    BY <1>4, <1>6, <2>1, <2>2
  <2> QED
    BY <1>4, <1>5, <2>2, <2>3, Zenon
<1>8. busyCount' = Cardinality(Busy')
  <2>1. Busy' = Busy \cup {d} /\ (d \in Busy <=> ~(~active[d] /\ queued[d] = 0))
    BY <1>1, <1>7 DEF Busy, SerializedDomainBusy
  <2>2. IsFiniteSet(Busy) /\ Cardinality(Busy) \in Nat
    BY CountsFinite, Zenon
  <2>3. CASE d \in Busy
    BY <1>3, <1>4, <2>1, <2>3, Zenon
  <2>4. CASE d \notin Busy
    BY <1>3, <1>4, <2>1, <2>2, <2>4, FS_AddElement, Zenon
  <2> QED
    BY <2>3, <2>4, Zenon
<1>9. Active' = Active /\ \A e \in Domains : active'[e] <=> Held(e)'
  BY <1>1, <1>4, Zenon DEF Active, Held
<1> QED
  BY <1>1, <1>4, <1>7, <1>8, <1>9, Zenon DEF CountersAgree, Busy, Active, Waiting, Held

\* serialized_worker_loop: the first runnable job leaves the queue and makes its domain
\* active.
LEMMA PickCounters ==
    ASSUME IInv, StageInv, CountersAgree, NEW w \in Workers, WorkerPick(w) PROVE CountersAgree'
<1>1. TypeOK /\ OneAtATime
  BY Zenon DEF IInv
<1>2. PICK j \in Jobs :
        /\ wpc[w] = "ready" /\ j \in Pending /\ ~active[DomainOf[j]]
        /\ queued' = [queued EXCEPT ![DomainOf[j]] = @ - 1]
        /\ active' = [active EXCEPT ![DomainOf[j]] = TRUE]
        /\ activeCount' = activeCount + 1 /\ busyCount' = busyCount
        /\ stage' = [stage EXCEPT ![j] = "taken"]
        /\ wpc' = [wpc EXCEPT ![w] = "picked"] /\ wjob' = [wjob EXCEPT ![w] = j]
  BY Zenon DEF WorkerPick, IsNext, Runnable
<1>3. PICK d \in Domains : d = DomainOf[j]
  BY JobsAssumption, Zenon
<1>4. /\ queued \in [Domains -> Int] /\ active \in [Domains -> BOOLEAN]
      /\ busyCount = Cardinality(Busy) /\ activeCount = Cardinality(Active)
      /\ \A e \in Domains : queued[e] = Cardinality(Waiting(e)) /\ (active[e] <=> Held(e))
  BY <1>1, Zenon DEF TypeOK, CountersAgree, Busy, Active, Waiting, Held
<1>5. /\ \A e \in Domains : e # d => Waiting(e)' = Waiting(e)
      /\ Waiting(d)' = Waiting(d) \ {j} /\ j \in Waiting(d)
  BY <1>1, <1>2, <1>3, Zenon DEF Waiting, Pending, TypeOK
<1>6. /\ \A e \in Domains : queued'[e] = Cardinality(Waiting(e)') /\ (e # d => queued'[e] = queued[e])
      /\ queued[d] # 0
  <2>1. IsFiniteSet(Waiting(d))
    BY CountsFinite, Zenon
  <2>2. Cardinality(Waiting(d) \ {j}) = Cardinality(Waiting(d)) - 1
    BY <1>5, <2>1, FS_RemoveElement, Zenon
  <2>3. Cardinality(Waiting(d)) # 0
    BY <1>5, <2>1, FS_EmptySet, Zenon
  <2>4. queued'[d] = queued[d] - 1 /\ \A e \in Domains : e # d => queued'[e] = queued[e]
    BY <1>2, <1>3, <1>4, Zenon
  <2> QED
    BY <1>4, <1>5, <2>2, <2>3, <2>4, Zenon
<1>7. active'[d] /\ ~active[d] /\ \A e \in Domains : e # d => active'[e] = active[e]
  BY <1>2, <1>3, <1>4, Zenon
<1>8. Busy' = Busy /\ Active' = Active \cup {d} /\ d \notin Active
  BY <1>6, <1>7, Zenon DEF Busy, Active, SerializedDomainBusy
<1>9. activeCount' = Cardinality(Active')
  BY <1>2, <1>4, <1>8, CountsFinite, FS_AddElement, Zenon
<1>10. \A e \in Domains : active'[e] <=> Held(e)'
  <2>1. /\ wpc'[w] \in HasJob /\ wjob'[w] = j /\ wpc[w] \notin HasJob
        /\ \A v \in Workers : v # w => wpc'[v] = wpc[v] /\ wjob'[v] = wjob[v]
    BY <1>1, <1>2, Zenon DEF TypeOK, HasJob
  <2>2. Held(d)' /\ \A e \in Domains : e # d => (Held(e)' <=> Held(e))
    BY <1>3, <2>1, Zenon DEF Held
  <2> QED
    BY <1>4, <1>7, <2>2, Zenon
<1> QED
  BY <1>2, <1>4, <1>6, <1>8, <1>9, <1>10, Zenon DEF CountersAgree, Busy, Active, Waiting, Held

\* SerializedDomainGuard: no other worker holds a job of the domain, which stays busy
\* just when it has a queue.
LEMMA DeactivateCounters ==
    ASSUME IInv, StageInv, CountersAgree, NEW w \in Workers, WorkerDeactivate(w) PROVE CountersAgree'
<1>1. TypeOK /\ OneAtATime /\ HoldersActive /\ wpc[w] = "deactivate"
  BY Zenon DEF IInv, WorkerDeactivate
<1>2. PICK d \in Domains : d = DomainOf[wjob[w]]
  BY <1>1, JobsAssumption, Zenon DEF HoldersActive, HasJob
<1>3. /\ active' = [active EXCEPT ![d] = FALSE] /\ active[d]
      /\ activeCount' = activeCount - 1
      /\ busyCount' = IF queued[d] = 0 THEN busyCount - 1 ELSE busyCount
      /\ UNCHANGED <<stage, queued>>
      /\ wjob' = [wjob EXCEPT ![w] = NoJob] /\ wpc' = [wpc EXCEPT ![w] = "notify"]
  BY <1>1, <1>2, Zenon DEF WorkerDeactivate, HoldersActive, HasJob
<1>4. /\ active \in [Domains -> BOOLEAN]
      /\ busyCount = Cardinality(Busy) /\ activeCount = Cardinality(Active)
      /\ \A e \in Domains : queued[e] = Cardinality(Waiting(e)) /\ (active[e] <=> Held(e))
  BY <1>1, Zenon DEF TypeOK, CountersAgree, Busy, Active, Waiting, Held
<1>5. \A e \in Domains : Waiting(e)' = Waiting(e)
  BY <1>3, Zenon DEF Waiting, Pending
<1>6. ~active'[d] /\ \A e \in Domains : e # d => active'[e] = active[e]
  BY <1>3, <1>4, Zenon
<1>7. Active' = Active \ {d} /\ d \in Active
  BY <1>3, <1>6, Zenon DEF Active
<1>8. d \in Busy /\ Busy' = IF queued[d] = 0 THEN Busy \ {d} ELSE Busy
  BY <1>3, <1>6, Zenon DEF Busy, SerializedDomainBusy
<1>9. activeCount' = Cardinality(Active') /\ busyCount' = Cardinality(Busy')
  BY <1>3, <1>4, <1>7, <1>8, CountsFinite, FS_RemoveElement, Zenon
<1>10. \A e \in Domains : active'[e] <=> Held(e)'
  <2>1. /\ wpc'[w] \notin HasJob
        /\ \A v \in Workers : v # w => wpc'[v] = wpc[v] /\ wjob'[v] = wjob[v]
    BY <1>1, <1>3, Zenon DEF TypeOK, HasJob
  <2>2. ~Held(d)'
    BY <1>1, <1>2, <2>1, Zenon DEF Held, OneAtATime, HasJob
  <2>3. \A e \in Domains : e # d => (Held(e)' <=> Held(e))
    BY <1>2, <2>1, Zenon DEF Held
  <2> QED
    BY <1>4, <1>6, <2>2, <2>3, Zenon
<1> QED
  BY <1>3, <1>4, <1>5, <1>9, <1>10 DEF CountersAgree, Busy, Active, Waiting, Held

LEMMA CountersStep == IInv /\ StageInv /\ Unstarted /\ CountersAgree /\ [Next]_vars => CountersAgree'
<1> SUFFICES ASSUME IInv, StageInv, Unstarted, CountersAgree, [Next]_vars PROVE CountersAgree'
  BY Zenon
<1> USE DEF queueVars, orderVars, domainVars, stopVars, workerVars, enqueuerVars
<1>1. TypeOK /\ HoldersActive
  BY Zenon DEF IInv
<1>2. ASSUME UNCHANGED <<stage, domainVars, wjob>>,
             \A w \in Workers : wpc'[w] \in HasJob <=> wpc[w] \in HasJob
      PROVE  CountersAgree'
  BY <1>2, CountersKept, Zenon DEF Pending, Held
<1>3. ASSUME UNCHANGED <<domainVars, wpc, wjob>>, Pending' = Pending PROVE CountersAgree'
  BY <1>3, CountersKept, Zenon DEF Held
<1>4. ASSUME NEW j \in Jobs, EnqueueRefused(j) PROVE CountersAgree'
  <2>1. Pending' = Pending
    BY <1>1, <1>4, Zenon DEF EnqueueRefused, Pending, TypeOK
  <2> QED
    BY <1>3, <1>4, <2>1, Zenon DEF EnqueueRefused
<1>5. ASSUME NEW j \in Jobs, EnqueueDeclined(j) PROVE CountersAgree'
  <2>1. Pending' = Pending
    BY <1>1, <1>5, JobsAssumption DEF EnqueueDeclined, Pending, TypeOK, StageInv
  <2> QED
    BY <1>3, <1>5, <2>1, Zenon DEF EnqueueDeclined
<1>6. ASSUME NEW j \in Jobs, FinishSuperseded(j) PROVE CountersAgree'
  <2>1. Pending' = Pending
    BY <1>1, <1>6 DEF FinishSuperseded, Pending, TypeOK, StageInv
  <2> QED
    BY <1>3, <1>6, <2>1, Zenon DEF FinishSuperseded
<1>7. ASSUME NEW w \in Workers, WorkerDiscard(w) \/ WorkerReturn(w) PROVE CountersAgree'
  <2>1. /\ wpc[w] \in HasJob /\ wpc'[w] \in HasJob /\ UNCHANGED <<domainVars, wjob>>
        /\ \A v \in Workers : v # w => wpc'[v] = wpc[v]
        /\ stage' = [stage EXCEPT ![wjob[w]] = "done"]
    BY <1>1, <1>7, Zenon DEF WorkerDiscard, WorkerReturn, HasJob, TypeOK
  <2>2. Pending' = Pending
    BY <1>1, <2>1, Zenon DEF Pending, TypeOK, StageInv
  <2> QED
    BY <2>1, <2>2, CountersKept, Zenon DEF Held
<1>8. ASSUME NEW j \in Jobs, EnqueueBegin(j) \/ EnqueueNotify(j) PROVE CountersAgree'
  <2>1. UNCHANGED <<stage, domainVars, wjob>>
    BY <1>8, Zenon DEF EnqueueBegin, EnqueueNotify
  <2>2. \A v \in Workers : wpc'[v] \in HasJob => wpc[v] \in HasJob
    BY <1>1, <1>8, Zenon
       DEF EnqueueBegin, EnqueueNotify, EnsureSerializedWorkerCount, NotifyAll, HasJob, TypeOK
  <2>3. \A v \in Workers : wpc[v] \in HasJob => wpc'[v] \in HasJob
    BY <1>1, <1>8, Zenon
       DEF EnqueueBegin, EnqueueNotify, EnsureSerializedWorkerCount, NotifyAll, HasJob, TypeOK,
           Unstarted
  <2> QED
    BY <1>2, <2>1, <2>2, <2>3, Zenon
<1>9. ASSUME NEW w \in Workers,
             \/ WorkerWait(w) \/ WorkerExit(w) \/ WorkerInvoke(w) \/ WorkerComplete(w) \/ WorkerNotify(w)
      PROVE  CountersAgree'
  <2>1. UNCHANGED <<stage, domainVars, wjob>>
    BY <1>9, Zenon DEF WorkerWait, WorkerExit, WorkerInvoke, WorkerComplete, WorkerNotify
  <2>2. \A v \in Workers : wpc'[v] \in HasJob <=> wpc[v] \in HasJob
    BY <1>1, <1>9, Zenon
       DEF WorkerWait, WorkerExit, WorkerInvoke, WorkerComplete, WorkerNotify, NotifyAll,
                      HasJob, TypeOK
  <2> QED
    BY <1>2, <2>1, <2>2, Zenon
<1>10. CASE Stop \/ UNCHANGED vars
  <2>1. UNCHANGED <<stage, domainVars, wjob>>
    BY <1>10, Zenon DEF Stop, StopRunning, StopSerialized, StopNotify, JoinSerializedWorkers, vars
  <2>2. \A v \in Workers : wpc'[v] \in HasJob <=> wpc[v] \in HasJob
    BY <1>1, <1>10, Zenon
       DEF Stop, StopRunning, StopSerialized, StopNotify, JoinSerializedWorkers, vars,
                       NotifyAll, HasJob, TypeOK
  <2> QED
    BY <1>2, <2>1, <2>2, Zenon
<1> QED
  BY <1>4, <1>5, <1>6, <1>7, <1>8, <1>9, <1>10, AdmitCounters, PickCounters, DeactivateCounters,
     Zenon
     DEF Next, Enqueue, Worker, Terminated

LEMMA InitCounts == Init => CountersAgree
<1> SUFFICES ASSUME Init PROVE CountersAgree
  BY Zenon
<1>1. \A d \in Domains : Waiting(d) = {} /\ ~Held(d) /\ ~active[d] /\ queued[d] = 0
  BY Zenon DEF Init, Waiting, Pending, Held, HasJob
<1>2. Active = {} /\ Busy = {}
  BY <1>1, Zenon DEF Active, Busy, SerializedDomainBusy
<1>3. Cardinality({}) = 0
  BY FS_EmptySet, Zenon
<1> QED
  BY <1>1, <1>2, <1>3, Zenon DEF Init, CountersAgree, Waiting, Held, Active, Busy

\* The bookkeeping that enqueue_serialized_job decides on is exact: active flags, queue
\* lengths and the two server-wide counts, for any jobs, policies, domains and pool.
THEOREM BookkeepingExact == Spec => []CountersAgree
<1> QED
  BY Invariant, InitConn, InitCounts, StageStep, UnstartedStep, CountersStep, PTL DEF Spec

-----------------------------------------------------------------------------
\* Refinement: the executor implements DomainQueues.

\* push_back puts a job behind every queued one; an empty deque starts again.
StampInv == nextStamp \in Nat /\ \A j \in Pending : stamp[j] < nextStamp

LEMMA StampStep == IInv /\ StageInv /\ StampInv /\ [Next]_vars => StampInv'
<1> SUFFICES ASSUME IInv, StageInv, StampInv, [Next]_vars PROVE StampInv'
  BY Zenon
<1> USE DEF queueVars, orderVars, domainVars, stopVars, workerVars, enqueuerVars
<1>1. /\ stage \in [Jobs -> Stages] /\ stamp \in [Jobs -> Nat] /\ nextStamp \in Nat /\ HoldersActive
      /\ superseded \in [Jobs -> SUBSET Requests] /\ Requests \subseteq Jobs
  BY Zenon DEF IInv, TypeOK, Requests
<1>2. ASSUME UNCHANGED <<stamp, nextStamp>>, Pending' \subseteq Pending PROVE StampInv'
  BY <1>2, Zenon DEF StampInv
<1>3. ASSUME NEW j \in Jobs, EnqueueAdmit(j) PROVE StampInv'
  <2>1. /\ nextStamp' = nextStamp + 1
        /\ \A k \in Pending' : k \in Jobs /\ (k # j => k \in Pending /\ k \notin Replaced(j))
        /\ stamp' = [k \in Jobs |-> IF k = j THEN nextStamp
                                    ELSE IF k \in Replaced(j) THEN 0 ELSE stamp[k]]
    BY <1>3, Zenon DEF EnqueueAdmit, Pending
  <2> QED
    BY <1>1, <2>1 DEF StampInv
<1>4. ASSUME NEW w \in Workers, WorkerPick(w) PROVE StampInv'
  <2>1. PICK j \in Jobs :
          /\ stage' = [stage EXCEPT ![j] = "taken"] /\ stamp' = [stamp EXCEPT ![j] = 0]
          /\ nextStamp' = IF Pending = {j} THEN 1 ELSE nextStamp
    BY <1>4, Zenon DEF WorkerPick
  <2>2. Pending' = Pending \ {j} /\ \A k \in Pending' : k \in Jobs /\ stamp'[k] = stamp[k]
    BY <1>1, <2>1, Zenon DEF Pending
  <2> QED
    BY <1>1, <2>1, <2>2, Zenon DEF StampInv
<1>5. ASSUME NEW j \in Jobs, Enqueue(j), ~EnqueueAdmit(j) PROVE StampInv'
  <2>1. UNCHANGED <<stamp, nextStamp>>
    BY <1>5, Zenon
       DEF Enqueue, EnqueueRefused, EnqueueBegin, EnqueueDeclined, FinishSuperseded, EnqueueNotify
  <2>2. Pending' \subseteq Pending
    BY <1>1, <1>5, Zenon
       DEF Enqueue, EnqueueRefused, EnqueueBegin, EnqueueDeclined, FinishSuperseded,
           EnqueueNotify,
                      Pending
  <2> QED
    BY <1>2, <2>1, <2>2, Zenon
<1>6. ASSUME NEW w \in Workers, Worker(w), ~WorkerPick(w) PROVE StampInv'
  <2>1. UNCHANGED <<stamp, nextStamp>>
    BY <1>6, Zenon DEF Worker, WorkerWait, WorkerExit, WorkerInvoke, WorkerDiscard, WorkerReturn,
                WorkerComplete, WorkerDeactivate, WorkerNotify
  <2>2. stage' = stage \/ stage' = [stage EXCEPT ![wjob[w]] = "done"]
    BY <1>6, Zenon DEF Worker, WorkerWait, WorkerExit, WorkerInvoke, WorkerDiscard, WorkerReturn,
                WorkerComplete, WorkerDeactivate, WorkerNotify
  <2>3. Pending' \subseteq Pending
    BY <1>1, <2>2, Zenon DEF Pending
  <2> QED
    BY <1>2, <2>1, <2>3, Zenon
<1>7. CASE Stop \/ UNCHANGED vars
  <2>1. UNCHANGED <<stamp, nextStamp, stage>>
    BY <1>7, Zenon DEF Stop, StopRunning, StopSerialized, StopNotify, JoinSerializedWorkers, vars
  <2> QED
    BY <1>2, <2>1, Zenon DEF Pending
<1> QED
  BY <1>3, <1>4, <1>5, <1>6, <1>7, Zenon DEF Next, Terminated

\* What the mapping makes of the state.
Submitted == {j \in Jobs : stage[j] # "new"}
Ahead == {p \in Pending \X Pending :
             DomainOf[p[1]] = DomainOf[p[2]] /\ stamp[p[1]] < stamp[p[2]]}
Executing == {wjob[w] : w \in {v \in Workers : wpc[v] \in HasJob}}

\* EnqueueAdmit is Admit: a reject_if_busy job finds its domain idle because the counters
\* are exact, and the new stamp puts it behind all others.
LEMMA AdmitRefines ==
    ASSUME IInv, StageInv, CountersAgree, StampInv, NEW j \in Jobs, EnqueueAdmit(j)
    PROVE  Abstract!Admit(j)
<1>1. /\ stage \in [Jobs -> Stages] /\ stamp \in [Jobs -> Nat] /\ nextStamp \in Nat
      /\ stage[j] = "new" /\ DomainOf[j] \in Domains
  BY JobsAssumption, Zenon DEF IInv, TypeOK, StageInv, EnqueueAdmit
<1>2. /\ ~RejectedBusy(j) /\ UNCHANGED <<wpc, wjob>>
      /\ stage' = [k \in Jobs |-> IF k = j THEN "queued"
                                  ELSE IF k \in Replaced(j) THEN "replaced" ELSE stage[k]]
      /\ stamp' = [k \in Jobs |-> IF k = j THEN nextStamp
                                  ELSE IF k \in Replaced(j) THEN 0 ELSE stamp[k]]
  BY Zenon DEF EnqueueAdmit, workerVars
<1>3. Abstract!Dropped(j) = Replaced(j)
  BY Zenon DEF Abstract!Dropped, Replaced
<1>4. j \notin Submitted /\ Submitted' = Submitted \cup {j}
  BY <1>1, <1>2, Zenon DEF Submitted, Replaced, Pending
<1>5. /\ Pending' = (Pending \ Replaced(j)) \cup {j} /\ j \notin Pending
      /\ \A k \in Pending : k \in Jobs
  BY <1>1, <1>2, Zenon DEF Pending
<1>6. Executing' = Executing
  BY <1>2, Zenon DEF Executing
<1>7. PolicyOf[j] = "reject_if_busy" => Abstract!Idle(DomainOf[j])
  <2> SUFFICES ASSUME PolicyOf[j] = "reject_if_busy", NEW k \in Pending \cup Executing,
                      DomainOf[k] = DomainOf[j]
               PROVE  FALSE
    BY Zenon DEF Abstract!Idle, Executing
  <2>1. /\ ~active[DomainOf[j]] /\ queued[DomainOf[j]] = 0
    BY <1>2, Zenon DEF RejectedBusy, SerializedDomainBusy
  <2>2. ~Held(DomainOf[j]) /\ Cardinality(Waiting(DomainOf[j])) = 0
    BY <1>1, <2>1, Zenon DEF CountersAgree, Held, Waiting
  <2>3. Waiting(DomainOf[j]) = {}
    BY <1>1, <2>2, CountsFinite, FS_EmptySet, Zenon
  <2> QED
    BY <2>2, <2>3, Zenon DEF Held, Waiting, Executing
<1>8. Ahead' = {p \in Ahead : p[1] \in Pending' /\ p[2] \in Pending'}
                  \cup {<<k, j>> : k \in {i \in Pending \ Replaced(j) : DomainOf[i] = DomainOf[j]}}
  <2>1. /\ \A k \in Pending \ Replaced(j) : stamp'[k] = stamp[k] /\ stamp[k] \in Nat /\ stamp[k] < nextStamp
        /\ stamp'[j] = nextStamp
    BY <1>1, <1>2, <1>5, Zenon DEF StampInv
  <2>2. ASSUME NEW p \in Ahead'
        PROVE  \/ p \in Ahead /\ p[1] \in Pending' /\ p[2] \in Pending'
               \/ \E k \in {i \in Pending \ Replaced(j) : DomainOf[i] = DomainOf[j]} : p = <<k, j>>
    <3>1. /\ p = <<p[1], p[2]>> /\ p[1] \in Pending' /\ p[2] \in Pending'
          /\ DomainOf[p[1]] = DomainOf[p[2]] /\ stamp'[p[1]] < stamp'[p[2]]
      BY <2>2 DEF Ahead
    <3>2. p[1] # j
      BY <1>1, <1>5, <2>1, <3>1
    <3>3. CASE p[2] = j
      BY <1>5, <3>1, <3>2, <3>3, Zenon
    <3>4. CASE p[2] # j
      <4>1. p[1] \in Pending \ Replaced(j) /\ p[2] \in Pending \ Replaced(j)
        BY <1>5, <3>1, <3>2, <3>4, Zenon
      <4>2. stamp[p[1]] < stamp[p[2]]
        BY <2>1, <3>1, <4>1, Zenon
      <4> QED
        BY <3>1, <4>1, <4>2, Zenon DEF Ahead
    <3> QED
      BY <3>3, <3>4, Zenon
  <2>3. ASSUME NEW p \in Ahead, p[1] \in Pending', p[2] \in Pending' PROVE p \in Ahead'
    <3>1. p[1] \in Pending \ Replaced(j) /\ p[2] \in Pending \ Replaced(j)
      BY <1>5, <2>3, Zenon DEF Ahead
    <3> QED
      BY <2>1, <2>3, <3>1, Zenon DEF Ahead
  <2>4. ASSUME NEW k \in Pending \ Replaced(j), DomainOf[k] = DomainOf[j] PROVE <<k, j>> \in Ahead'
    <3>1. k \in Pending' /\ j \in Pending' /\ stamp'[k] < stamp'[j]
      BY <1>5, <2>1, Zenon
    <3> QED
      BY <2>4, <3>1, Zenon DEF Ahead
  <2> QED
    BY <2>2, <2>3, <2>4, Zenon
<1> QED
  BY <1>3, <1>4, <1>5, <1>6, <1>7, <1>8, Zenon DEF Abstract!Admit, Submitted, Ahead, Executing

\* WorkerPick is Start: the scan finds the first job of every inactive domain.
LEMMA PickRefines ==
    ASSUME IInv, StageInv, CountersAgree, StampInv, NEW w \in Workers, WorkerPick(w)
    PROVE  \E j \in Jobs : Abstract!Start(j)
<1>1. /\ stage \in [Jobs -> Stages] /\ stamp \in [Jobs -> Nat] /\ Pending \subseteq Jobs
      /\ wpc \in [Workers -> WorkerPcs] /\ wjob \in [Workers -> Jobs \cup {NoJob}]
  BY Zenon DEF IInv, TypeOK, Pending
<1>2. PICK j \in Jobs :
        /\ wpc[w] = "ready" /\ IsNext(j)
        /\ stage' = [stage EXCEPT ![j] = "taken"] /\ stamp' = [stamp EXCEPT ![j] = 0]
        /\ wpc' = [wpc EXCEPT ![w] = "picked"] /\ wjob' = [wjob EXCEPT ![w] = j]
  BY Zenon DEF WorkerPick
<1>3. /\ j \in Pending /\ ~active[DomainOf[j]]
      /\ \A k \in Pending : DomainOf[k] = DomainOf[j] => stamp[j] <= stamp[k]
  BY <1>2, Zenon DEF IsNext, Runnable
<1>4. \A k \in Executing : DomainOf[k] # DomainOf[j]
  <2>1. DomainOf[j] \in Domains
    BY JobsAssumption, Zenon
  <2>2. ~Held(DomainOf[j])
    BY <1>3, <2>1, Zenon DEF CountersAgree, Held
  <2> QED
    BY <2>2, Zenon DEF Held, Executing
<1>5. \A k \in Pending : <<k, j>> \notin Ahead
  BY <1>1, <1>3 DEF Ahead
<1>6. Pending' = Pending \ {j}
  BY <1>1, <1>2, Zenon DEF Pending
<1>7. Ahead' = {p \in Ahead : p[1] # j /\ p[2] # j}
  <2>1. \A k \in Pending' : k \in Pending /\ k # j /\ stamp'[k] = stamp[k]
    BY <1>1, <1>2, <1>6, Zenon
  <2>2. ASSUME NEW p \in Ahead' PROVE p \in Ahead /\ p[1] # j /\ p[2] # j
    BY <2>1, <2>2, Zenon DEF Ahead
  <2>3. ASSUME NEW p \in Ahead, p[1] # j, p[2] # j PROVE p \in Ahead'
    BY <1>6, <2>1, <2>3, Zenon DEF Ahead
  <2> QED
    BY <2>2, <2>3, Zenon
<1>8. Executing' = Executing \cup {j}
  <2>1. /\ wpc'[w] \in HasJob /\ wjob'[w] = j /\ wpc[w] \notin HasJob
        /\ \A v \in Workers : v # w => wpc'[v] = wpc[v] /\ wjob'[v] = wjob[v]
    BY <1>1, <1>2, Zenon DEF HasJob
  <2> QED
    BY <2>1, Zenon DEF Executing
<1>9. Submitted' = Submitted
  BY <1>1, <1>2, <1>3, Zenon DEF Submitted, Pending
<1>10. Abstract!Start(j)
  BY <1>3, <1>4, <1>5, <1>6, <1>7, <1>8, <1>9, Zenon
     DEF Abstract!Start, Submitted, Ahead, Executing
<1> QED
  BY <1>10, Zenon

\* SerializedDomainGuard is Finish: no other worker holds the same job.
LEMMA DeactivateRefines ==
    ASSUME IInv, NEW w \in Workers, WorkerDeactivate(w) PROVE \E j \in Jobs : Abstract!Finish(j)
<1>1. /\ wpc \in [Workers -> WorkerPcs] /\ wjob \in [Workers -> Jobs \cup {NoJob}]
      /\ OneAtATime /\ HoldersActive
  BY Zenon DEF IInv, TypeOK
<1>2. /\ wpc[w] = "deactivate" /\ UNCHANGED <<stage, stamp>>
      /\ wpc' = [wpc EXCEPT ![w] = "notify"] /\ wjob' = [wjob EXCEPT ![w] = NoJob]
  BY Zenon DEF WorkerDeactivate, orderVars
<1>3. PICK j \in Jobs : j = wjob[w]
  BY <1>1, <1>2, Zenon DEF HoldersActive, HasJob
<1>4. /\ wpc[w] \in HasJob /\ wpc'[w] \notin HasJob
      /\ \A v \in Workers : v # w => wpc'[v] = wpc[v] /\ wjob'[v] = wjob[v]
  BY <1>1, <1>2, Zenon DEF HasJob
<1>5. \A v \in Workers : v # w /\ wpc[v] \in HasJob => wjob[v] # j
  BY <1>1, <1>3, <1>4, Zenon DEF OneAtATime
<1>6. j \in Executing /\ Executing' = Executing \ {j}
  BY <1>3, <1>4, <1>5, Zenon DEF Executing
<1>7. Submitted' = Submitted /\ Pending' = Pending /\ Ahead' = Ahead
  BY <1>2, Zenon DEF Submitted, Pending, Ahead
<1>8. Abstract!Finish(j)
  BY <1>6, <1>7, Zenon DEF Abstract!Finish, Submitted, Ahead, Executing
<1> QED
  BY <1>8, Zenon

\* Every other step declines a job or is invisible.
LEMMA StutterRefines ==
    ASSUME IInv, Submitted' = Submitted, Pending' = Pending, UNCHANGED stamp, Executing' = Executing
    PROVE  UNCHANGED Abstract!vars
<1>1. Ahead' = Ahead
  BY Zenon DEF Ahead
<1> QED
  BY <1>1, Zenon DEF Abstract!vars, Submitted, Ahead, Executing

LEMMA DeclineRefines ==
    ASSUME IInv, StageInv, NEW j \in Jobs, EnqueueRefused(j) \/ EnqueueDeclined(j) PROVE Abstract!Decline(j)
<1>1. /\ stage' = [stage EXCEPT ![j] = "declined"] /\ stage[j] = "new" /\ UNCHANGED <<stamp, wpc, wjob>>
      /\ stage \in [Jobs -> Stages]
  BY JobsAssumption
     DEF EnqueueRefused, EnqueueDeclined, StageInv, orderVars, workerVars, IInv, TypeOK
<1>2. j \notin Submitted /\ Submitted' = Submitted \cup {j} /\ Pending' = Pending
  BY <1>1, Zenon DEF Submitted, Pending
<1>3. Ahead' = Ahead /\ Executing' = Executing
  BY <1>1, <1>2, Zenon DEF Ahead, Executing
<1> QED
  BY <1>2, <1>3, Zenon DEF Abstract!Decline, Submitted, Ahead, Executing

LEMMA RefinementStep ==
    IInv /\ StageInv /\ Unstarted /\ CountersAgree /\ StampInv /\ [Next]_vars
        => [Abstract!Next]_(Abstract!vars)
<1> SUFFICES ASSUME IInv, StageInv, Unstarted, CountersAgree, StampInv, [Next]_vars
             PROVE  Abstract!Next \/ UNCHANGED Abstract!vars
  BY Zenon
<1> USE DEF queueVars, orderVars, domainVars, stopVars, workerVars, enqueuerVars
<1>1. /\ stage \in [Jobs -> Stages] /\ wpc \in [Workers -> WorkerPcs] /\ HoldersActive
      /\ superseded \in [Jobs -> SUBSET Requests] /\ Requests \subseteq Jobs
  BY Zenon DEF IInv, TypeOK, Requests
<1>2. ASSUME NEW j \in Jobs, EnqueueRefused(j) \/ EnqueueDeclined(j) \/ EnqueueAdmit(j) PROVE Abstract!Next
  BY <1>2, DeclineRefines, AdmitRefines, Zenon DEF Abstract!Next
<1>3. ASSUME NEW w \in Workers, WorkerPick(w) \/ WorkerDeactivate(w) PROVE Abstract!Next
  BY <1>3, PickRefines, DeactivateRefines, Zenon DEF Abstract!Next
<1>4. ASSUME UNCHANGED <<stage, stamp, wjob>>, \A w \in Workers : wpc'[w] \in HasJob <=> wpc[w] \in HasJob
      PROVE  UNCHANGED Abstract!vars
  BY <1>4, StutterRefines, Zenon DEF Submitted, Pending, Executing
<1>5. ASSUME NEW j \in Jobs, FinishSuperseded(j) PROVE UNCHANGED Abstract!vars
  <2>1. PICK k \in superseded[j] :
          stage' = [stage EXCEPT ![k] = "done"] /\ UNCHANGED <<stamp, wpc, wjob>>
    BY <1>5, Zenon DEF FinishSuperseded
  <2>2. k \in Jobs /\ stage[k] = "replaced"
    BY <1>1, Zenon DEF StageInv
  <2>3. Submitted' = Submitted /\ Pending' = Pending /\ Executing' = Executing
    BY <1>1, <2>1, <2>2, Zenon DEF Submitted, Pending, Executing
  <2> QED
    BY <2>1, <2>3, StutterRefines, Zenon
<1>6. ASSUME NEW j \in Jobs, EnqueueBegin(j) \/ EnqueueNotify(j) PROVE UNCHANGED Abstract!vars
  <2>1. UNCHANGED <<stage, stamp, wjob>>
    BY <1>6, Zenon DEF EnqueueBegin, EnqueueNotify
  <2>2. \A v \in Workers : wpc'[v] \in HasJob => wpc[v] \in HasJob
    BY <1>1, <1>6, Zenon
       DEF EnqueueBegin, EnqueueNotify, EnsureSerializedWorkerCount, NotifyAll, HasJob
  <2>3. \A v \in Workers : wpc[v] \in HasJob => wpc'[v] \in HasJob
    BY <1>1, <1>6, Zenon
       DEF EnqueueBegin, EnqueueNotify, EnsureSerializedWorkerCount, NotifyAll, HasJob, Unstarted
  <2> QED
    BY <1>4, <2>1, <2>2, <2>3, Zenon
<1>7. ASSUME NEW w \in Workers, WorkerDiscard(w) \/ WorkerReturn(w) PROVE UNCHANGED Abstract!vars
  <2>1. /\ wpc[w] \in HasJob /\ wpc'[w] \in HasJob /\ UNCHANGED <<stamp, wjob>>
        /\ \A v \in Workers : v # w => wpc'[v] = wpc[v]
        /\ stage' = [stage EXCEPT ![wjob[w]] = "done"]
    BY <1>1, <1>7, Zenon DEF WorkerDiscard, WorkerReturn, HasJob
  <2>2. wjob[w] \in Jobs /\ stage[wjob[w]] \in {"taken", "done"}
    BY <1>1, <2>1, Zenon DEF HoldersActive, StageInv
  <2>3. Submitted' = Submitted /\ Pending' = Pending
    BY <1>1, <2>1, <2>2, Zenon DEF Submitted, Pending
  <2>4. Executing' = Executing
    BY <2>1, Zenon DEF Executing
  <2> QED
    BY <2>1, <2>3, <2>4, StutterRefines, Zenon
<1>8. ASSUME NEW w \in Workers,
             \/ WorkerWait(w) \/ WorkerExit(w) \/ WorkerInvoke(w) \/ WorkerComplete(w) \/ WorkerNotify(w)
      PROVE  UNCHANGED Abstract!vars
  <2>1. UNCHANGED <<stage, stamp, wjob>>
    BY <1>8, Zenon DEF WorkerWait, WorkerExit, WorkerInvoke, WorkerComplete, WorkerNotify
  <2>2. \A v \in Workers : wpc'[v] \in HasJob <=> wpc[v] \in HasJob
    BY <1>1, <1>8, Zenon
       DEF WorkerWait, WorkerExit, WorkerInvoke, WorkerComplete, WorkerNotify, NotifyAll, HasJob
  <2> QED
    BY <1>4, <2>1, <2>2, Zenon
<1>9. CASE Stop \/ UNCHANGED vars
  <2>1. UNCHANGED <<stage, stamp, wjob>>
    BY <1>9, Zenon DEF Stop, StopRunning, StopSerialized, StopNotify, JoinSerializedWorkers, vars
  <2>2. \A v \in Workers : wpc'[v] \in HasJob <=> wpc[v] \in HasJob
    BY <1>1, <1>9, Zenon
       DEF Stop, StopRunning, StopSerialized, StopNotify, JoinSerializedWorkers, vars,
                      NotifyAll, HasJob
  <2> QED
    BY <1>4, <2>1, <2>2, Zenon
<1> QED
  BY <1>2, <1>3, <1>5, <1>6, <1>7, <1>8, <1>9, Zenon DEF Next, Enqueue, Worker, Terminated

\* The serialized executor implements one first-in-first-out queue per domain: with any
\* jobs, policies and pool, and through a stop, every step of its threads is a step of
\* DomainQueues or invisible to it.
THEOREM DomainsAreQueues == Spec => ImplementsDomainQueues
<1>1. Init => Abstract!Init /\ StampInv
  <2> SUFFICES ASSUME Init PROVE Abstract!Init /\ StampInv
    BY Zenon
  <2>1. Submitted = {} /\ Pending = {} /\ Executing = {}
    BY Zenon DEF Init, Submitted, Pending, Executing, HasJob
  <2>2. Ahead = {} /\ StampInv
    BY <2>1, Zenon DEF Init, Ahead, StampInv
  <2> QED
    BY <2>1, <2>2, Zenon DEF Abstract!Init, Submitted, Ahead, Executing
<1> QED
  BY <1>1, Invariant, InitConn, InitCounts, StageStep, UnstartedStep, CountersStep, StampStep,
     RefinementStep, PTL
     DEF Spec, ImplementsDomainQueues, Abstract!Spec
=============================================================================
