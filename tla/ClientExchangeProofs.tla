------------------------- MODULE ClientExchangeProofs -------------------------
(***************************************************************************)
(* Proofs about ClientExchange for any calls, attempts, workers, limits and *)
(* configurations: the slots of streams, how often a handler runs, what the *)
(* status of an answer tells, and what becomes of a stream above the limit. *)
(***************************************************************************)
EXTENDS ClientExchange, FiniteSetTheorems, TLAPS

\* Every step is tried with SMT and Zenon and, where a loaded machine needs it, with
\* SMT for longer.
USE SMT, Zenon, SMTT(30)

Outcomes == {"none", "answered", "length", "timeout", "closed", "unavailable", "protocol",
             "too_large"}
ClientPhases == {"idle", "connect", "send", "receive", "backoff", "done"}
FixedPhases == {"write", "complete"}
SlotPhases == {"read", "respond", "release", "failed", "unslot"}

\* The types of the client's variables; only request_idempotent waits for another attempt.
CallTypes ==
    /\ config \in Configs
    /\ cpc \in [Calls -> ClientPhases] /\ attempt \in [Calls -> 1..MaxAttempts]
    /\ outcome \in [Calls -> Outcomes]
    /\ \A c \in Calls :
          cpc[c] = "backoff" => config.kind[c] = "idempotent" /\ attempt[c] < MaxAttempts

\* The units of a request are sent, then read, then consumed; those of an answer are read.
UnitTypes ==
    /\ sent \in [Conns -> Nat] /\ read \in [Conns -> Nat] /\ used \in [Conns -> Nat]
    /\ got \in [Conns -> Nat]
    /\ \A k \in Conns : used[k] <= read[k] /\ read[k] <= sent[k] /\ sent[k] <= RequestUnits(k)

AnswerTypes == wrote \in [Conns -> Nat] /\ status \in [Conns -> Nat] /\ execs \in [Conns -> Nat]

TableTypes == backlog \in Seq(Conns) /\ entries \subseteq Conns /\ leased \subseteq Conns
              /\ rejected \subseteq Conns

\* A worker that is not idle has a connection.
WorkTypes ==
    /\ jobs \in Seq(Conns)
    /\ wpc \in [Workers -> {"idle", "rearm"} \cup FixedPhases \cup SlotPhases]
    /\ work \in [Workers -> Conns \cup {<<>>}]
    /\ \A w \in Workers : wpc[w] # "idle" => work[w] \in Conns

ExchangeTypes == CallTypes /\ UnitTypes /\ AnswerTypes /\ TableTypes /\ WorkTypes

-----------------------------------------------------------------------------
(* What a step leaves alone. *)

Life == Lifecycle \/ Listen \/ StopFlag
Aside == Life \/ Accept \/ \E k \in entries : ReactorCloses(k)
ClientStep(c) == Begin(c) \/ Connect(c) \/ Send(c) \/ Receive(c) \/ ClientTimeout(c) \/ Retry(c)
WorkerStep(w) == Worker(w) \/ StreamTimeout(w)

LEMMA NextSteps ==
    ASSUME Next
    PROVE  \/ \E c \in Calls : ClientStep(c)
           \/ Aside
           \/ \E k \in entries : Consume(k)
           \/ \E w \in Workers : WorkerStep(w)
  BY Zenon DEF Next, Progress, Client, Reactor, Life, Aside, ClientStep, WorkerStep

\* The steps of the server's life, an accept and a close: they only shut connections.
LEMMA AsideKeeps ==
    ASSUME Aside
    PROVE  /\ UNCHANGED serverRest
           /\ srvShut \subseteq srvShut' /\ closing \subseteq closing' /\ (stopping => stopping')
<1>1. ASSUME Life
      PROVE  /\ UNCHANGED serverRest
             /\ srvShut \subseteq srvShut' /\ closing \subseteq closing' /\ (stopping => stopping')
  BY <1>1 DEF Life, Lifecycle, Listen, StartRun, StopFlag, StopUnlink, StopConnections, StopPool,
              ReactorExit, RunStops, RunCloses
<1>2. ASSUME Accept
      PROVE  /\ UNCHANGED serverRest
             /\ srvShut \subseteq srvShut' /\ closing \subseteq closing' /\ (stopping => stopping')
  BY <1>2, Zenon DEF Accept, serverRest, stopVars
<1>3. ASSUME NEW k, ReactorCloses(k)
      PROVE  /\ UNCHANGED serverRest
             /\ srvShut \subseteq srvShut' /\ closing \subseteq closing' /\ (stopping => stopping')
  BY <1>3, Zenon DEF ReactorCloses, Closed, serverRest, stopVars
<1> QED
  BY <1>1, <1>2, <1>3, Zenon DEF Aside

LEMMA AsideTable ==
    ASSUME TableTypes, Aside PROVE TableTypes'
<1>1. ASSUME Life PROVE TableTypes'
  <2>1. CASE RunCloses
    <3>1. <<>> \in Seq(Conns)
      OBVIOUS
    <3> QED
      BY <2>1, <3>1, Zenon DEF RunCloses, serverRest, TableTypes
  <2>2. CASE Life /\ ~RunCloses
    BY <2>2, Zenon
       DEF Life, Lifecycle, Listen, StartRun, StopFlag, StopUnlink, StopConnections, StopPool,
                ReactorExit, RunStops, serverRest, TableTypes
  <2> QED
    BY <1>1, <2>1, <2>2, Zenon
<1>2. ASSUME Accept PROVE TableTypes'
  BY <1>2 DEF Accept, TableTypes
<1>3. ASSUME NEW k, ReactorCloses(k) PROVE TableTypes'
  BY <1>3, Zenon DEF ReactorCloses, Closed, TableTypes
<1> QED
  BY <1>1, <1>2, <1>3, Zenon DEF Aside

\* A step of a client touches the call, its request and the backlog.
clientRest == <<config, workerVars, stopVars, read, used, wrote, status, srvShut, entries, closing,
                leased, active, rejected>>

LEMMA ClientKeeps ==
    ASSUME NEW c, ClientStep(c) PROVE UNCHANGED clientRest
<1>1. ASSUME Begin(c) \/ Connect(c) PROVE UNCHANGED clientRest
  BY <1>1, Zenon DEF Begin, Connect, clientRest
<1>2. ASSUME Send(c) PROVE UNCHANGED clientRest
  BY <1>2, Zenon DEF Send, clientRest
<1>3. ASSUME Receive(c) PROVE UNCHANGED clientRest
  BY <1>3, Zenon DEF Receive, clientRest
<1>4. ASSUME ClientTimeout(c) \/ Retry(c) PROVE UNCHANGED clientRest
  BY <1>4, Zenon DEF ClientTimeout, Retry, clientRest
<1> QED
  BY <1>1, <1>2, <1>3, <1>4, Zenon DEF ClientStep

\* A step of a worker touches no call and no request that is sent.
workerRest == <<config, clientVars, wireVars, stopVars, backlog, rejected>>

LEMMA WorkerKeeps ==
    ASSUME NEW w, WorkerStep(w)
    PROVE  UNCHANGED workerRest /\ closing \subseteq closing' /\ srvShut \subseteq srvShut'
<1> DEFINE Rest == /\ UNCHANGED <<config, clientVars, wireVars, stopVars, backlog, rejected>>
                   /\ closing \subseteq closing' /\ srvShut \subseteq srvShut'
<1>1. ASSUME Take(w) PROVE Rest
  BY <1>1, Zenon DEF Take
<1>2. ASSUME WriteFixed(w) \/ Complete(w) PROVE Rest
  BY <1>2, Zenon DEF WriteFixed, Complete
<1>3. ASSUME StreamRead(w) PROVE Rest
  BY <1>3, Zenon DEF StreamRead, StreamFails
<1>4. ASSUME StreamWrite(w) \/ StreamTimeout(w) PROVE Rest
  BY <1>4, Zenon DEF StreamWrite, StreamTimeout, StreamFails
<1>5. ASSUME ReleaseSlot(w) \/ Rearm(w) PROVE Rest
  BY <1>5, Zenon DEF ReleaseSlot, Rearm, Closed
<1> QED
  BY <1>1, <1>2, <1>3, <1>4, <1>5, Zenon DEF WorkerStep, Worker, workerRest

-----------------------------------------------------------------------------
(* Types. *)

LEMMA UnitCounts == \A k : RequestUnits(k) \in Nat /\ RequestUnits(k) >= 2
  BY ExchangeAssumption DEF RequestUnits

\* What the configuration decides stays as it is.
LEMMA ConfigDecides ==
    ASSUME config' = config
    PROVE  \A k : /\ RequestUnits(k)' = RequestUnits(k) /\ (IsStream(k)' <=> IsStream(k))
                  /\ (Handled(k)' <=> Handled(k)) /\ Verdict(k)' = Verdict(k)
  BY Zenon DEF RequestUnits, IsStream, Kind, Handled, Verdict

LEMMA CurrentConn ==
    ASSUME CallTypes, NEW c \in Calls
    PROVE  Cur(c) \in Conns /\ Cur(c)[1] = c /\ Cur(c)[2] = attempt[c]
  BY Zenon DEF CallTypes, Cur, Conns

LEMMA ConnParts ==
    ASSUME NEW k \in Conns
    PROVE  k[1] \in Calls /\ k[2] \in 1..MaxAttempts /\ k[2] \in Nat /\ k = <<k[1], k[2]>>
  BY ExchangeAssumption DEF Conns

LEMMA Larger ==
    ASSUME NEW m \in Nat, NEW n \in Nat
    PROVE  Max({m, n}) \in Nat /\ Max({m, n}) >= m /\ Max({m, n}) >= n /\ Max({m, n}) \in {m, n}
<1>1. \E x \in {m, n} : \A y \in {m, n} : x >= y
  OBVIOUS
<1> QED
  BY <1>1, Zenon DEF Max

LEMMA Faults == \A k, i : ResponseFault(k, i) \in {"none", "protocol", "too_large"}
  BY Zenon DEF ResponseFault

LEMMA FailTypes ==
    ASSUME CallTypes, NEW c \in Calls, NEW why \in Outcomes, Fail(c, why), UNCHANGED <<config, attempt>>
    PROVE  CallTypes'
  BY Zenon DEF CallTypes, Fail, ClientPhases

LEMMA CallTypesClient ==
    ASSUME CallTypes, NEW c \in Calls, ClientStep(c) PROVE CallTypes'
<1>0. \A e \in {"ENOENT", "ECONNREFUSED", "ENOTCONN", "EPIPE"} : Classified[e] \in Outcomes
  BY DEF Classified, Outcomes
<1>c. Classified.ETIMEDOUT \in Outcomes /\ Classified.ECONNRESET \in Outcomes
  BY Zenon DEF Classified, Outcomes
<1>1. ASSUME Begin(c) PROVE CallTypes'
  BY <1>1, Zenon DEF Begin, CallTypes, ClientPhases, Outcomes
<1>2. ASSUME Connect(c) PROVE CallTypes'
  <2>1. ASSUME NEW e \in {"ENOENT", "ECONNREFUSED"}, Fail(c, Classified[e]) PROVE CallTypes'
    BY <1>2, <2>1, <1>0, FailTypes, Zenon DEF Connect
  <2>2. ASSUME cpc' = [cpc EXCEPT ![c] = "send"], UNCHANGED outcome PROVE CallTypes'
    BY <1>2, <2>2, Zenon DEF Connect, CallTypes, ClientPhases
  <2> QED
    BY <1>2, <2>1, <2>2, Zenon DEF Connect
<1>3. ASSUME Send(c) PROVE CallTypes'
  <2>1. ASSUME NEW why \in Outcomes, Fail(c, why) PROVE CallTypes'
    BY <1>3, <2>1, FailTypes, Zenon DEF Send
  <2>2. ASSUME NEW n, cpc' = [cpc EXCEPT ![c] = IF n THEN "receive" ELSE @], UNCHANGED outcome
        PROVE  CallTypes'
    BY <1>3, <2>2, Zenon DEF Send, CallTypes, ClientPhases
  <2>3. "length" \in Outcomes
    BY Zenon DEF Outcomes
  <2> QED
    BY <1>3, <2>1, <2>2, <2>3, <1>0, Zenon DEF Send
<1>4. ASSUME Receive(c) PROVE CallTypes'
  <2>1. ASSUME NEW why \in Outcomes, Fail(c, why) PROVE CallTypes'
    BY <1>4, <2>1, FailTypes, Zenon DEF Receive
  <2>2. ASSUME UNCHANGED <<cpc, outcome>> PROVE CallTypes'
    BY <1>4, <2>2, Zenon DEF Receive, CallTypes
  <2>3. ASSUME cpc' = [cpc EXCEPT ![c] = "done"], outcome' = [outcome EXCEPT ![c] = "answered"]
        PROVE  CallTypes'
    BY <1>4, <2>3, Zenon DEF Receive, CallTypes, ClientPhases, Outcomes
  <2>4. \A k, i : ResponseFault(k, i) \in Outcomes
    BY Faults, Zenon DEF Outcomes
  <2> QED
    BY <1>4, <2>1, <2>2, <2>3, <2>4, <1>c, Zenon DEF Receive
<1>5. ASSUME ClientTimeout(c) PROVE CallTypes'
  BY <1>5, <1>c, FailTypes, Zenon DEF ClientTimeout
<1>6. ASSUME Retry(c) PROVE CallTypes'
  <2>1. attempt[c] < MaxAttempts /\ attempt[c] \in 1..MaxAttempts
    BY <1>6, Zenon DEF Retry, CallTypes
  <2>2. attempt' \in [Calls -> 1..MaxAttempts] /\ cpc' \in [Calls -> ClientPhases]
    BY <1>6, <2>1, ExchangeAssumption DEF Retry, CallTypes, ClientPhases
  <2> QED
    BY <1>6, <2>2, Zenon DEF Retry, CallTypes
<1> QED
  BY <1>1, <1>2, <1>3, <1>4, <1>5, <1>6, Zenon DEF ClientStep

LEMMA UnitTypesClient ==
    ASSUME CallTypes, UnitTypes, NEW c \in Calls, ClientStep(c) PROVE UnitTypes'
<1>0. config' = config /\ read' = read /\ used' = used
  BY ClientKeeps, Zenon DEF clientRest
<1>1. \A k : RequestUnits(k)' = RequestUnits(k)
  BY <1>0, ConfigDecides, Zenon
<1>g. got' \in [Conns -> Nat]
  <2>1. got' = got \/ got' = [got EXCEPT ![Cur(c)] = @ + 1]
    BY Zenon DEF ClientStep, Begin, Connect, Send, Receive, ClientTimeout, Retry, wireVars
  <2> QED
    BY <2>1 DEF UnitTypes
<1>2. CASE sent' = sent
  BY <1>0, <1>1, <1>2, <1>g, Zenon DEF UnitTypes
<1>3. CASE Send(c) /\ sent' # sent
  <2> DEFINE k == Cur(c)
  <2>1. PICK n \in 1..2 : sent[k] + n <= RequestUnits(k) /\ sent' = [sent EXCEPT ![k] = @ + n]
    BY <1>3 DEF Send
  <2>2. k \in Conns
    BY CurrentConn, Zenon
  <2>3. /\ sent' \in [Conns -> Nat]
        /\ \A j \in Conns : sent[j] <= sent'[j] /\ sent'[j] <= RequestUnits(j)
    BY <2>1, <2>2 DEF UnitTypes
  <2>4. \A j \in Conns : read[j] <= sent'[j]
    BY <2>3 DEF UnitTypes
  <2> QED
    BY <2>3, <2>4, <1>0, <1>1, <1>g, Zenon DEF UnitTypes
<1>4. sent' = sent \/ Send(c)
  BY Zenon DEF ClientStep, Begin, Connect, Receive, ClientTimeout, Retry, wireVars
<1> QED
  BY <1>2, <1>3, <1>4, Zenon

LEMMA TableTypesClient ==
    ASSUME CallTypes, TableTypes, NEW c \in Calls, ClientStep(c) PROVE TableTypes'
<1>0. UNCHANGED <<entries, leased, rejected>>
  BY ClientKeeps, Zenon DEF clientRest
<1>1. backlog' = backlog \/ backlog' = Append(backlog, Cur(c))
  <2>1. CASE Connect(c)
    BY <2>1, Zenon DEF Connect
  <2>2. CASE Begin(c) \/ Send(c) \/ Receive(c) \/ ClientTimeout(c) \/ Retry(c)
    BY <2>2, Zenon DEF Begin, Send, Receive, ClientTimeout, Retry
  <2> QED
    BY <2>1, <2>2, Zenon DEF ClientStep
<1> QED
  BY <1>0, <1>1, CurrentConn DEF TableTypes

\* The step of the reactor that reads: what each of its outcomes does.
LEMMA ConsumeCases ==
    ASSUME NEW k, Consume(k)
    PROVE  /\ k \in entries \ leased /\ k \notin closing \cup cliShut \cup srvShut
           /\ sent[k] > read[k] /\ read' = [read EXCEPT ![k] = sent[k]]
           /\ UNCHANGED <<config, clientVars, wireVars, stopVars, wpc, work, execs, wrote, status,
                          backlog>>
           /\ closing \subseteq closing' /\ srvShut \subseteq srvShut' /\ entries' \subseteq entries
           /\ \/ UNCHANGED <<streams, leased, used, jobs, rejected>>
              \/ /\ ~IsStream(k) /\ sent[k] = RequestUnits(k)
                 /\ jobs' = Append(jobs, k) /\ UNCHANGED <<streams, leased, used, rejected>>
              \/ /\ IsStream(k) /\ streams >= config.maxStreams
                 /\ rejected' = rejected \cup {k} /\ k \in srvShut'
                 /\ UNCHANGED <<streams, leased, used, jobs>>
              \/ /\ IsStream(k) /\ ~(streams >= config.maxStreams)
                 /\ streams' = streams + 1 /\ leased' = leased \cup {k}
                 /\ used' = [used EXCEPT ![k] = 1] /\ UNCHANGED rejected
                 /\ (stopping /\ UNCHANGED jobs) \/ (~stopping /\ jobs' = Append(jobs, k))
<1>1. /\ k \in entries \ leased /\ k \notin closing \cup cliShut \cup srvShut
      /\ sent[k] > read[k] /\ read' = [read EXCEPT ![k] = sent[k]]
      /\ UNCHANGED <<config, clientVars, wireVars, stopVars, wpc, work, execs, wrote, status, backlog>>
  BY Zenon DEF Consume, Polled
<1>2. CASE ~RequestAccepted(k)
  BY <1>1, <1>2, Zenon DEF Consume, Closed
<1>3. CASE RequestAccepted(k) /\ ~Dispatches(k)
  BY <1>1, <1>3, Zenon DEF Consume, Dispatches
<1>4. CASE RequestAccepted(k) /\ Dispatches(k) /\ ~IsStream(k)
  BY <1>1, <1>4, Zenon DEF Consume, Dispatches, DispatchFixed, Closed
<1>5. CASE RequestAccepted(k) /\ IsStream(k)
  <2>1. DispatchStream(k)
    BY <1>5, Zenon DEF Consume, Dispatches
  <2> QED
    BY <1>1, <1>5, <2>1, Zenon DEF DispatchStream, Leased, Closed
<1> QED
  BY <1>2, <1>3, <1>4, <1>5, Zenon DEF Dispatches

LEMMA ConsumeTypes ==
    ASSUME ExchangeTypes, NEW k, Consume(k) PROVE ExchangeTypes'
<1>1. k \in Conns
  BY ConsumeCases, Zenon DEF ExchangeTypes, TableTypes
<1>2. CallTypes' /\ AnswerTypes'
  BY ConsumeCases, Zenon DEF ExchangeTypes, CallTypes, AnswerTypes, clientVars
<1>3. TableTypes'
  BY <1>1, ConsumeCases DEF ExchangeTypes, TableTypes
<1>4. WorkTypes'
  <2>1. wpc' = wpc /\ work' = work /\ (jobs' = jobs \/ jobs' = Append(jobs, k))
    BY ConsumeCases, Zenon
  <2>2. jobs \in Seq(Conns) /\ jobs' \in Seq(Conns)
    BY <1>1, <2>1 DEF ExchangeTypes, WorkTypes
  <2> QED
    BY <2>1, <2>2, Zenon DEF ExchangeTypes, WorkTypes
<1>5. UnitTypes'
  <2>1. /\ sent' = sent /\ got' = got /\ config' = config /\ read' = [read EXCEPT ![k] = sent[k]] /\ sent[k] > read[k]
        /\ used' = used \/ used' = [used EXCEPT ![k] = 1]
    BY ConsumeCases, Zenon DEF wireVars
  <2>2. \A j : RequestUnits(j)' = RequestUnits(j)
    BY <2>1, ConfigDecides, Zenon
  <2> QED
    BY <1>1, <2>1, <2>2 DEF ExchangeTypes, UnitTypes
<1> QED
  BY <1>2, <1>3, <1>4, <1>5, Zenon DEF ExchangeTypes

-----------------------------------------------------------------------------
\* The steps of a worker, by what they do to the connection in its hands.

LEMMA TakeCases ==
    ASSUME NEW w \in Workers, Take(w), WorkTypes
    PROVE  /\ wpc[w] = "idle" /\ jobs # <<>> /\ Head(jobs) \in Conns
           /\ jobs' = Tail(jobs) /\ work' = [work EXCEPT ![w] = Head(jobs)]
           /\ UNCHANGED <<streams, read, used, wrote, srvShut, entries, closing, leased>>
           /\ \/ /\ IsStream(Head(jobs)) /\ wpc' = [wpc EXCEPT ![w] = "read"]
                 /\ Run(Head(jobs)) /\ UNCHANGED status
              \/ /\ ~IsStream(Head(jobs)) /\ wpc' = [wpc EXCEPT ![w] = "write"]
                 /\ status' = [status EXCEPT ![Head(jobs)] = 408] /\ UNCHANGED execs
              \/ /\ ~IsStream(Head(jobs)) /\ wpc' = [wpc EXCEPT ![w] = "write"]
                 /\ status' = [status EXCEPT ![Head(jobs)] = Status(Head(jobs))] /\ Run(Head(jobs))
              \/ /\ ~IsStream(Head(jobs)) /\ wpc' = [wpc EXCEPT ![w] = "complete"]
                 /\ UNCHANGED <<execs, status>>
<1>1. Head(jobs) \in Conns
  BY DEF Take, WorkTypes
<1> QED
  BY <1>1, Zenon DEF Take, RunStream, RunFixed

LEMMA StatusType == \A k \in Conns : CallTypes => Status(k) \in {200, 403, 404, 500}
<1> SUFFICES ASSUME NEW k \in Conns, CallTypes PROVE Status(k) \in {200, 403, 404, 500}
  BY Zenon
<1>1. Verdict(k) \in {"ok", "throws", "unknown", "denied", "hookThrows"}
  BY ConnParts, ExchangeAssumption, Zenon DEF CallTypes, Verdict
<1> QED
  BY <1>1 DEF Status, Statuses

\* The only worker's step that reads: the next frame of a stream, a part of which may
\* already be there.
LEMMA ReadCases ==
    ASSUME NEW w \in Workers, StreamRead(w)
    PROVE  LET k == work[w] IN
           /\ wpc[w] = "read"
           /\ UNCHANGED <<jobs, work, execs, streams, wrote, srvShut, entries, leased>>
           /\ \/ /\ used[k] < sent[k] /\ used' = [used EXCEPT ![k] = used[k] + 1]
                 /\ read' = [read EXCEPT ![k] = Max({read[k], used[k] + 1})]
                 /\ \/ wpc' = [wpc EXCEPT ![w] = "read"] /\ UNCHANGED <<status, closing>>
                    \/ /\ DecodeHeader(RequestHeader(k, used[k] + 1)).type = Types.streamRequestEnd
                       /\ wpc' = [wpc EXCEPT ![w] = "respond"]
                       /\ status' = [status EXCEPT ![k] = Status(k)] /\ UNCHANGED closing
                    \/ /\ wpc' = [wpc EXCEPT ![w] = "failed"] /\ k \in closing'
                       /\ UNCHANGED status
              \/ /\ wpc' = [wpc EXCEPT ![w] = "failed"] /\ k \in closing'
                 /\ UNCHANGED <<used, read, status>>
  BY Zenon DEF StreamRead, StreamFails

LEMMA WorkerTypes ==
    ASSUME ExchangeTypes, NEW w \in Workers, WorkerStep(w) PROVE ExchangeTypes'
<1>0. UNCHANGED workerRest
  BY WorkerKeeps, Zenon
<1>1. CallTypes'
  BY <1>0, Zenon DEF workerRest, clientVars, ExchangeTypes, CallTypes
<1>2. \A k : RequestUnits(k)' = RequestUnits(k)
  BY <1>0, ConfigDecides, Zenon DEF workerRest
<1>3. UnitTypes /\ AnswerTypes /\ TableTypes /\ WorkTypes /\ CallTypes
  BY Zenon DEF ExchangeTypes
<1>4. \A k \in Conns : Status(k) \in Nat
  BY <1>3, StatusType
<1>5. ASSUME Take(w) PROVE ExchangeTypes'
  <2> DEFINE k == Head(jobs)
  <2>1. UNCHANGED <<sent, got, read, used, entries, leased, backlog, rejected>>
    BY <1>0, <1>3, <1>5, TakeCases, Zenon DEF workerRest, wireVars
  <2>2. UnitTypes' /\ TableTypes'
    BY <1>2, <1>3, <2>1, Zenon DEF UnitTypes, TableTypes
  <2>3. /\ k \in Conns /\ wrote' = wrote
        /\ execs' = execs \/ execs' = [execs EXCEPT ![k] = @ + 1]
        /\ \/ status' = status \/ status' = [status EXCEPT ![k] = 408]
           \/ status' = [status EXCEPT ![k] = Status(k)]
    BY <1>3, <1>5, TakeCases, Zenon DEF Run
  <2>4. AnswerTypes'
    BY <1>3, <1>4, <2>3 DEF AnswerTypes
  <2>5. jobs' = Tail(jobs) /\ jobs # <<>> /\ work' = [work EXCEPT ![w] = k]
        /\ \E p \in {"read", "write", "complete"} : wpc' = [wpc EXCEPT ![w] = p]
    BY <1>3, <1>5, TakeCases, Zenon
  <2>6. WorkTypes'
    BY <1>3, <2>3, <2>5 DEF WorkTypes, FixedPhases, SlotPhases
  <2> QED
    BY <1>1, <2>2, <2>4, <2>6, Zenon DEF ExchangeTypes
<1>6. ASSUME wpc[w] # "idle", NEW p \in {"idle", "rearm"} \cup FixedPhases \cup SlotPhases,
             wpc' = [wpc EXCEPT ![w] = p], UNCHANGED <<jobs, work>>
      PROVE  WorkTypes'
  BY <1>3, <1>6, Zenon DEF WorkTypes
<1>7. ASSUME StreamRead(w) PROVE ExchangeTypes'
  <2> DEFINE k == work[w]
  <2>1. wpc[w] = "read" /\ k \in Conns
    BY <1>3, <1>7, Zenon DEF StreamRead, WorkTypes
  <2>2. UNCHANGED <<sent, got, backlog, rejected, entries, leased, jobs, work, execs, wrote>>
    BY <1>0, <1>7, ReadCases, Zenon DEF workerRest, wireVars
  <2>3. TableTypes'
    BY <1>3, <2>2, Zenon DEF TableTypes
  <2>4. AnswerTypes'
    BY <1>3, <1>4, <1>7, <2>1, <2>2, ReadCases, Zenon DEF AnswerTypes
  <2>5. UnitTypes'
    <3>1. CASE UNCHANGED <<used, read>>
      BY <1>2, <1>3, <2>2, <3>1, Zenon DEF UnitTypes
    <3>2. CASE /\ used[k] < sent[k] /\ used' = [used EXCEPT ![k] = used[k] + 1]
               /\ read' = [read EXCEPT ![k] = Max({read[k], used[k] + 1})]
      <4>1. /\ Max({read[k], used[k] + 1}) \in Nat /\ used[k] + 1 <= Max({read[k], used[k] + 1})
            /\ Max({read[k], used[k] + 1}) <= sent[k]
        BY <1>3, <2>1, <3>2, Larger DEF UnitTypes
      <4>2. read' \in [Conns -> Nat] /\ used' \in [Conns -> Nat]
        BY <1>3, <2>1, <3>2, <4>1 DEF UnitTypes
      <4>3. \A j \in Conns : used'[j] <= read'[j] /\ read'[j] <= sent[j]
        BY <1>3, <2>1, <3>2, <4>1, Zenon DEF UnitTypes
      <4> QED
        BY <1>2, <1>3, <2>2, <4>2, <4>3, Zenon DEF UnitTypes
    <3> QED
      BY <1>7, <3>1, <3>2, ReadCases, Zenon
  <2>6. WorkTypes'
    <3>1. {"read", "respond", "failed"} \subseteq {"idle", "rearm"} \cup FixedPhases \cup SlotPhases
      BY Zenon DEF SlotPhases
    <3>2. \E p \in {"read", "respond", "failed"} : wpc' = [wpc EXCEPT ![w] = p]
      BY <1>7, ReadCases, Zenon
    <3> QED
      BY <1>6, <2>1, <2>2, <3>1, <3>2, Zenon
  <2> QED
    BY <1>1, <2>3, <2>4, <2>5, <2>6, Zenon DEF ExchangeTypes
<1>8. ASSUME UNCHANGED <<jobs, work, execs, read, used, status>>, entries' \subseteq entries,
             leased' \subseteq leased, wrote' \in [Conns -> Nat], wpc[w] # "idle",
             NEW p \in {"idle", "rearm"} \cup FixedPhases \cup SlotPhases,
             wpc' = [wpc EXCEPT ![w] = p]
      PROVE  ExchangeTypes'
  <2>1. UnitTypes' /\ TableTypes' /\ AnswerTypes'
    BY <1>0, <1>2, <1>3, <1>8, Zenon DEF UnitTypes, TableTypes, AnswerTypes, workerRest, wireVars
  <2> QED
    BY <1>1, <1>6, <1>8, <2>1, Zenon DEF ExchangeTypes
<1>9. ASSUME WriteFixed(w) \/ Complete(w) PROVE ExchangeTypes'
  <2>1. wrote' = wrote \/ wrote' = [wrote EXCEPT ![work[w]] = 1]
    BY <1>9, Zenon DEF WriteFixed, Complete
  <2>2. wrote' \in [Conns -> Nat]
    BY <1>3, <2>1 DEF AnswerTypes
  <2>3. /\ wpc' = [wpc EXCEPT ![w] = "complete"] \/ wpc' = [wpc EXCEPT ![w] = "idle"]
        /\ wpc[w] # "idle" /\ UNCHANGED <<jobs, work, execs, read, used, status, entries, leased>>
    BY <1>9, Zenon DEF WriteFixed, Complete
  <2> QED
    BY <1>8, <2>2, <2>3, Zenon DEF FixedPhases
<1>10. ASSUME StreamWrite(w) \/ StreamTimeout(w) PROVE ExchangeTypes'
  <2>1. wrote' = wrote \/ wrote' = [wrote EXCEPT ![work[w]] = @ + 1]
    BY <1>10, Zenon DEF StreamWrite, StreamTimeout
  <2>2. wrote' \in [Conns -> Nat]
    BY <1>3, <2>1 DEF AnswerTypes
  <2>3. /\ \E p \in {"release", "respond", "failed"} : wpc' = [wpc EXCEPT ![w] = p]
        /\ wpc[w] # "idle" /\ UNCHANGED <<jobs, work, execs, read, used, status, entries, leased>>
    BY <1>10, Zenon DEF StreamWrite, StreamTimeout, StreamFails
  <2> QED
    BY <1>8, <2>2, <2>3, Zenon DEF SlotPhases
<1>11. ASSUME ReleaseSlot(w) \/ Rearm(w) PROVE ExchangeTypes'
  <2>1. \E p \in {"idle", "rearm", "unslot"} : wpc' = [wpc EXCEPT ![w] = p]
    BY <1>11, Zenon DEF ReleaseSlot, Rearm
  <2>2. /\ wpc[w] # "idle" /\ UNCHANGED <<jobs, work, execs, read, used, status, wrote>>
        /\ entries' \subseteq entries /\ leased' \subseteq leased
    BY <1>11, Zenon DEF ReleaseSlot, Rearm, Closed
  <2>3. wrote' \in [Conns -> Nat]
    BY <1>3, <2>2, Zenon DEF AnswerTypes
  <2> QED
    BY <1>8, <2>1, <2>2, <2>3, Zenon DEF SlotPhases
<1> QED
  BY <1>5, <1>7, <1>9, <1>10, <1>11, Zenon DEF WorkerStep, Worker

LEMMA InitTypes == Init => ExchangeTypes
<1> SUFFICES ASSUME Init PROVE ExchangeTypes
  BY Zenon
<1>1. CallTypes
  BY ExchangeAssumption DEF Init, CallTypes, ClientPhases, Outcomes
<1>2. UnitTypes
  BY UnitCounts DEF Init, UnitTypes
<1>3. AnswerTypes /\ TableTypes /\ WorkTypes
  BY DEF Init, AnswerTypes, TableTypes, WorkTypes
<1> QED
  BY <1>1, <1>2, <1>3, Zenon DEF ExchangeTypes

LEMMA TypesStep == ExchangeTypes /\ [Next]_vars => ExchangeTypes'
<1> SUFFICES ASSUME ExchangeTypes, [Next]_vars PROVE ExchangeTypes'
  BY Zenon
<1>0. CallTypes /\ UnitTypes /\ AnswerTypes /\ TableTypes /\ WorkTypes
  BY Zenon DEF ExchangeTypes
<1>1. CASE UNCHANGED vars
  <2>1. \A k : RequestUnits(k)' = RequestUnits(k)
    BY <1>1, ConfigDecides, Zenon DEF vars
  <2> QED
    BY <1>0, <1>1, <2>1, Zenon
       DEF vars, clientVars, wireVars, workerVars, ExchangeTypes, CallTypes,
                            UnitTypes, AnswerTypes, TableTypes, WorkTypes
<1>2. ASSUME NEW c \in Calls, ClientStep(c) PROVE ExchangeTypes'
  <2>1. AnswerTypes' /\ WorkTypes'
    BY <1>0, <1>2, ClientKeeps, Zenon DEF clientRest, workerVars, AnswerTypes, WorkTypes
  <2> QED
    BY <1>0, <1>2, <2>1, CallTypesClient, UnitTypesClient, TableTypesClient, Zenon
       DEF ExchangeTypes
<1>3. CASE Aside
  <2>1. config' = config /\ UNCHANGED <<clientVars, wireVars, workerVars, read, used, wrote, status>>
    BY <1>3, AsideKeeps, Zenon DEF serverRest
  <2>2. CallTypes' /\ AnswerTypes' /\ WorkTypes'
    BY <1>0, <2>1, Zenon DEF clientVars, workerVars, CallTypes, AnswerTypes, WorkTypes
  <2>3. UnitTypes'
    BY <1>0, <2>1, ConfigDecides, Zenon DEF wireVars, UnitTypes
  <2> QED
    BY <1>0, <1>3, <2>2, <2>3, AsideTable, Zenon DEF ExchangeTypes
<1> QED
  BY <1>1, <1>2, <1>3, NextSteps, ConsumeTypes, WorkerTypes, Zenon

-----------------------------------------------------------------------------
(* The calls. *)

\* Only request_idempotent makes a second attempt, and a client that has stopped
\* sending or receiving on a connection has closed it.
SendInv ==
    /\ \A c \in Calls : attempt[c] > 1 => config.kind[c] = "idempotent"
    /\ \A k \in Conns :
          /\ sent[k] > 0 => k[2] <= attempt[k[1]]
          /\ sent[k] > 0 /\ k \notin cliShut => k = Cur(k[1]) /\ cpc[k[1]] \in {"send", "receive"}

\* An answered call has returned from an attempt on which something was answered.
ReturnInv ==
    \A c \in Calls : outcome[c] = "answered" => cpc[c] = "done" /\ wrote[Cur(c)] > 0

CallInv == SendInv /\ ReturnInv

\* What a client does within an attempt.
WithinAttempt(c) ==
    /\ attempt' = attempt /\ cpc[c] # "done" /\ cliShut \subseteq cliShut'
    /\ \A k : k # Cur(c) => sent'[k] = sent[k]
    /\ \A d \in Calls \ {c} : outcome'[d] = outcome[d]
    /\ \E p \in ClientPhases :
          /\ cpc' = [cpc EXCEPT ![c] = p]
          /\ \/ p \in {"send", "receive"} \/ Cur(c) \in cliShut'
             \/ cpc[c] \in {"idle", "connect"} /\ sent' = sent
          /\ \/ outcome'[c] = outcome[c] \/ outcome'[c] # "answered"
             \/ p = "done" /\ wrote[Cur(c)] > 0

LEMMA AttemptSteps ==
    ASSUME ExchangeTypes, NEW c \in Calls, ClientStep(c) PROVE WithinAttempt(c) \/ Retry(c)
<1>0. CallTypes /\ UnitTypes /\ AnswerTypes /\ Cur(c) \in Conns
  BY CurrentConn, Zenon DEF ExchangeTypes
<1>1. ASSUME NEW why, why # "answered", Fail(c, why), attempt' = attempt, cpc[c] # "done",
             \A k : k # Cur(c) => sent'[k] = sent[k]
      PROVE  WithinAttempt(c)
  <2>1. /\ Cur(c) \in cliShut' /\ cliShut \subseteq cliShut'
        /\ cpc' = [cpc EXCEPT ![c] = "backoff"] \/ cpc' = [cpc EXCEPT ![c] = "done"]
        /\ outcome' = outcome \/ outcome' = [outcome EXCEPT ![c] = why]
    BY <1>1, Zenon DEF Fail
  <2>2. {"backoff", "done"} \subseteq ClientPhases
    BY Zenon DEF ClientPhases
  <2>3. /\ \A d \in Calls \ {c} : outcome'[d] = outcome[d]
        /\ outcome'[c] = outcome[c] \/ outcome'[c] # "answered"
    BY <1>0, <1>1, <2>1, Zenon DEF CallTypes
  <2> QED
    BY <1>1, <2>1, <2>2, <2>3, Zenon DEF WithinAttempt
<1>2. \A e \in {"ENOENT", "ECONNREFUSED", "ENOTCONN", "EPIPE"} : Classified[e] # "answered"
  BY DEF Classified
<1>c. Classified.ETIMEDOUT # "answered" /\ Classified.ECONNRESET # "answered"
  BY Zenon DEF Classified
<1>3. ASSUME Begin(c) PROVE WithinAttempt(c)
  BY <1>0, <1>3, Zenon DEF Begin, WithinAttempt, CallTypes, ClientPhases, wireVars
<1>4. ASSUME Connect(c) PROVE WithinAttempt(c)
  <2>1. attempt' = attempt /\ sent' = sent /\ cpc[c] = "connect"
    BY <1>4, Zenon DEF Connect
  <2>2. ASSUME NEW e \in {"ENOENT", "ECONNREFUSED"}, Fail(c, Classified[e]) PROVE WithinAttempt(c)
    BY <1>1, <1>2, <2>1, <2>2, Zenon
  <2>3. ASSUME cpc' = [cpc EXCEPT ![c] = "send"], UNCHANGED <<outcome, cliShut>> PROVE WithinAttempt(c)
    BY <2>1, <2>3, Zenon DEF WithinAttempt, ClientPhases
  <2> QED
    BY <1>4, <2>2, <2>3, Zenon DEF Connect
<1>5. ASSUME Send(c) PROVE WithinAttempt(c)
  <2>1. attempt' = attempt /\ cpc[c] = "send"
    BY <1>5, Zenon DEF Send
  <2>2. ASSUME NEW why, why # "answered", Fail(c, why), sent' = sent PROVE WithinAttempt(c)
    BY <1>1, <2>1, <2>2, Zenon
  <2>3. ASSUME NEW n, sent' = [sent EXCEPT ![Cur(c)] = n], UNCHANGED <<outcome, cliShut>>,
               cpc' = [cpc EXCEPT ![c] = "receive"] \/ cpc' = [cpc EXCEPT ![c] = "send"]
        PROVE  WithinAttempt(c)
    <3>1. \A k : k # Cur(c) => sent'[k] = sent[k]
      BY <2>3
    <3> QED
      BY <2>1, <2>3, <3>1, Zenon DEF WithinAttempt, ClientPhases
  <2> QED
    BY <1>5, <2>1, <2>2, <2>3, <1>2, Zenon DEF Send
<1>6. ASSUME Receive(c) PROVE WithinAttempt(c)
  <2>1. attempt' = attempt /\ cpc[c] = "receive" /\ sent' = sent
    BY <1>6, Zenon DEF Receive
  <2>2. ASSUME NEW why, why # "answered", Fail(c, why) PROVE WithinAttempt(c)
    BY <1>1, <2>1, <2>2, Zenon
  <2>3. ASSUME UNCHANGED <<cpc, outcome, cliShut>> PROVE WithinAttempt(c)
    <3>1. cpc' = [cpc EXCEPT ![c] = "receive"]
      BY <1>0, <2>1, <2>3, Zenon DEF CallTypes
    <3> QED
      BY <2>1, <2>3, <3>1, Zenon DEF WithinAttempt, ClientPhases
  <2>4. ASSUME got[Cur(c)] < wrote[Cur(c)], cpc' = [cpc EXCEPT ![c] = "done"],
               outcome' = [outcome EXCEPT ![c] = "answered"], cliShut' = cliShut \cup {Cur(c)}
        PROVE  WithinAttempt(c)
    <3>1. wrote[Cur(c)] > 0
      BY <1>0, <2>4 DEF UnitTypes, AnswerTypes
    <3> QED
      BY <1>0, <2>1, <2>4, <3>1, Zenon DEF WithinAttempt, ClientPhases, CallTypes
  <2>5. \A k, i : ResponseFault(k, i) # "answered"
    BY Faults, Zenon
  <2> QED
    BY <1>6, <2>2, <2>3, <2>4, <2>5, <1>c, Zenon DEF Receive
<1>7. ASSUME ClientTimeout(c) PROVE WithinAttempt(c)
  <2>1. attempt' = attempt /\ sent' = sent /\ cpc[c] # "done" /\ Fail(c, Classified.ETIMEDOUT)
    BY <1>7, Zenon DEF ClientTimeout
  <2> QED
    BY <1>1, <1>c, <2>1, Zenon
<1> QED
  BY <1>3, <1>4, <1>5, <1>6, <1>7, Zenon DEF ClientStep

LEMMA CallClient ==
    ASSUME ExchangeTypes, CallInv, NEW c \in Calls, ClientStep(c) PROVE CallInv'
<1>0. /\ CallTypes /\ Cur(c) \in Conns /\ config' = config /\ wrote' = wrote
      /\ Cur(c)[1] = c /\ Cur(c)[2] = attempt[c]
  BY CurrentConn, ClientKeeps, Zenon DEF ExchangeTypes, clientRest
<1>1. CASE WithinAttempt(c)
  <2>1. PICK p \in ClientPhases :
           /\ cpc' = [cpc EXCEPT ![c] = p]
           /\ \/ p \in {"send", "receive"} \/ Cur(c) \in cliShut'
              \/ cpc[c] \in {"idle", "connect"} /\ sent' = sent
           /\ \/ outcome'[c] = outcome[c] \/ outcome'[c] # "answered"
              \/ p = "done" /\ wrote[Cur(c)] > 0
    BY <1>1, Zenon DEF WithinAttempt
  <2>2. /\ attempt' = attempt /\ cpc[c] # "done" /\ cliShut \subseteq cliShut'
        /\ \A k : k # Cur(c) => sent'[k] = sent[k]
        /\ \A d \in Calls \ {c} : outcome'[d] = outcome[d]
        /\ \A d \in Calls : Cur(d)' = Cur(d)
    BY <1>1, Zenon DEF WithinAttempt, Cur
  <2>3. /\ \A d \in Calls \ {c} : cpc'[d] = cpc[d]
        /\ cpc'[c] = p
    BY <1>0, <2>1, Zenon DEF CallTypes
  <2>4. ASSUME NEW k \in Conns, sent'[k] > 0
        PROVE  /\ k[2] <= attempt'[k[1]]
               /\ k \notin cliShut' => k = Cur(k[1])' /\ cpc'[k[1]] \in {"send", "receive"}
    <3>1. k[1] \in Calls
      BY ConnParts, Zenon
    <3>2. CASE k = Cur(c)
      <4>1. attempt[c] \in Nat
        BY <1>0, ExchangeAssumption DEF CallTypes
      <4> QED
        BY <1>0, <2>1, <2>2, <2>3, <2>4, <3>2, <4>1 DEF CallInv, SendInv
    <3>3. CASE k # Cur(c)
      BY <1>0, <2>2, <2>3, <2>4, <3>1, <3>3, Zenon DEF CallInv, SendInv
    <3> QED
      BY <3>2, <3>3, Zenon
  <2>5. SendInv'
    BY <1>0, <2>2, <2>4, Zenon DEF CallInv, SendInv
  <2>6. ReturnInv'
    BY <1>0, <2>1, <2>2, <2>3, Zenon DEF CallInv, ReturnInv
  <2> QED
    BY <2>5, <2>6, Zenon DEF CallInv
<1>2. CASE Retry(c)
  <2>1. /\ cpc[c] = "backoff" /\ config.kind[c] = "idempotent"
        /\ cpc' = [cpc EXCEPT ![c] = "connect"] /\ attempt' = [attempt EXCEPT ![c] = @ + 1]
        /\ UNCHANGED <<outcome, sent, cliShut>>
    BY <1>0, <1>2, Zenon DEF Retry, CallTypes, wireVars
  <2>2. \A d \in Calls \ {c} : attempt'[d] = attempt[d] /\ cpc'[d] = cpc[d] /\ Cur(d)' = Cur(d)
    BY <1>0, <2>1, Zenon DEF CallTypes, Cur
  <2>3. attempt[c] \in Nat /\ attempt'[c] = attempt[c] + 1
    BY <1>0, <2>1, ExchangeAssumption DEF CallTypes
  <2>4. ASSUME NEW k \in Conns, sent'[k] > 0
        PROVE  /\ k[2] <= attempt'[k[1]]
               /\ k \notin cliShut' => k = Cur(k[1])' /\ cpc'[k[1]] \in {"send", "receive"}
    BY <2>1, <2>2, <2>3, <2>4, ConnParts DEF CallInv, SendInv
  <2>5. SendInv'
    BY <1>0, <2>1, <2>2, <2>4, Zenon DEF CallInv, SendInv
  <2>6. ReturnInv'
    BY <1>0, <2>1, <2>2, Zenon DEF CallInv, ReturnInv
  <2> QED
    BY <2>5, <2>6, Zenon DEF CallInv
<1> QED
  BY <1>1, <1>2, AttemptSteps, Zenon

\* Answers only grow.
LEMMA CallKept ==
    ASSUME CallInv, CallTypes, UNCHANGED <<config, cpc, attempt, outcome, sent, cliShut>>,
           \A k \in Conns : wrote[k] > 0 => wrote'[k] > 0
    PROVE  CallInv'
<1>1. \A c \in Calls : Cur(c)' = Cur(c) /\ Cur(c) \in Conns
  BY CurrentConn, Zenon DEF Cur
<1>2. SendInv'
  BY <1>1, ConnParts, Zenon DEF CallInv, SendInv
<1> QED
  BY <1>1, <1>2, Zenon DEF CallInv, ReturnInv

LEMMA CallWorker ==
    ASSUME ExchangeTypes, CallInv, NEW w \in Workers, WorkerStep(w) PROVE CallInv'
<1>1. UNCHANGED <<config, cpc, attempt, outcome, sent, cliShut>>
  BY WorkerKeeps, Zenon DEF workerRest, clientVars, wireVars
<1>2. \/ wrote' = wrote \/ wrote' = [wrote EXCEPT ![work[w]] = 1]
      \/ wrote' = [wrote EXCEPT ![work[w]] = @ + 1]
  <2>1. CASE StreamWrite(w) \/ StreamTimeout(w)
    BY <2>1, Zenon DEF StreamWrite, StreamTimeout
  <2>2. CASE WriteFixed(w) \/ Complete(w)
    BY <2>2, Zenon DEF WriteFixed, Complete
  <2>3. CASE Take(w) \/ StreamRead(w) \/ ReleaseSlot(w) \/ Rearm(w)
    BY <2>3, Zenon DEF Take, StreamRead, ReleaseSlot, Rearm
  <2> QED
    BY <2>1, <2>2, <2>3, Zenon DEF WorkerStep, Worker
<1>3. \A k \in Conns : wrote[k] > 0 => wrote'[k] > 0
  BY <1>2 DEF ExchangeTypes, AnswerTypes
<1> QED
  BY <1>1, <1>3, CallKept, Zenon DEF ExchangeTypes

LEMMA CallStep == ExchangeTypes /\ CallInv /\ [Next]_vars => CallInv'
<1> SUFFICES ASSUME ExchangeTypes, CallInv, [Next]_vars PROVE CallInv'
  BY Zenon
<1>1. CASE UNCHANGED vars
  BY <1>1, CallKept, Zenon DEF vars, clientVars, wireVars, ExchangeTypes
<1>2. CASE Aside
  BY <1>2, AsideKeeps, CallKept, Zenon DEF serverRest, clientVars, wireVars, ExchangeTypes
<1>3. ASSUME NEW k, Consume(k) PROVE CallInv'
  BY <1>3, ConsumeCases, CallKept, Zenon DEF clientVars, wireVars, ExchangeTypes
<1> QED
  BY <1>1, <1>2, <1>3, NextSteps, CallClient, CallWorker, Zenon

LEMMA InitCall == Init => CallInv
  BY DEF Init, CallInv, SendInv, ReturnInv

-----------------------------------------------------------------------------
(* Where the requests are. *)

Elements(s) == {s[i] : i \in DOMAIN s}
NoRepeats(s) == \A i, j \in DOMAIN s : s[i] = s[j] => i = j
Queued == Elements(jobs)

\* A connection that is not dispatched again: a stream's worker has it, or all of its
\* request was read.
Spent(k) == k \in leased \/ read[k] = RequestUnits(k)
Read(k) == read[k] = RequestUnits(k) /\ (IsStream(k) => used[k] = RequestUnits(k))

\* A request is in the queue once, or in the hands of one worker.
OncePlaced ==
    /\ NoRepeats(jobs)
    /\ \A w \in Workers : wpc[w] # "idle" => work[w] \notin Queued
    /\ \A v, w \in Workers : wpc[v] # "idle" /\ wpc[w] # "idle" /\ work[v] = work[w] => v = w

\* A connection that may still be dispatched is untouched.
Untouched(k) == /\ k \in leased => IsStream(k) /\ used[k] > 0
                /\ ~Spent(k) => wrote[k] = 0 /\ execs[k] = 0 /\ used[k] = 0

\* A queued request was not answered, and is not dispatched a second time.
Waits(k) == /\ wrote[k] = 0 /\ execs[k] = 0
            /\ IF IsStream(k) THEN k \in leased ELSE read[k] = RequestUnits(k)

\* What a worker has in its hands.
Holds(w) ==
    /\ wpc[w] \in FixedPhases => ~IsStream(work[w]) /\ Read(work[w])
    /\ wpc[w] \in SlotPhases \cup {"rearm"} => IsStream(work[w]) /\ work[w] \in leased
    /\ wpc[w] \in {"respond", "release", "rearm"} => Read(work[w])
    /\ wpc[w] \in {"failed", "unslot"} => work[w] \in closing

PlaceInv == /\ OncePlaced
            /\ \A k \in Conns : Untouched(k)
            /\ \A k \in Queued : Waits(k)
            /\ \A w \in Workers : Holds(w)

LEMMA AppendOnce ==
    ASSUME NEW s \in Seq(Conns), NEW k \in Conns
    PROVE  /\ Elements(Append(s, k)) = Elements(s) \cup {k}
           /\ NoRepeats(s) /\ k \notin Elements(s) => NoRepeats(Append(s, k))
<1>1. /\ DOMAIN Append(s, k) = 1..(Len(s) + 1) /\ DOMAIN s = 1..Len(s) /\ Len(s) \in Nat
      /\ Append(s, k)[Len(s) + 1] = k /\ \A i \in 1..Len(s) : Append(s, k)[i] = s[i]
  OBVIOUS
<1>2. \A i \in 1..(Len(s) + 1) : i \in 1..Len(s) \/ i = Len(s) + 1
  BY <1>1
<1>3. 1..Len(s) \subseteq 1..(Len(s) + 1) /\ Len(s) + 1 \in 1..(Len(s) + 1)
  BY <1>1
<1>4. Elements(Append(s, k)) = Elements(s) \cup {k}
  BY <1>1, <1>2, <1>3, Zenon DEF Elements
<1>5. NoRepeats(s) /\ k \notin Elements(s) => NoRepeats(Append(s, k))
  BY <1>1, <1>2, Zenon DEF NoRepeats, Elements
<1> QED
  BY <1>4, <1>5, Zenon

LEMMA TailOnce ==
    ASSUME NEW s \in Seq(Conns), s # <<>>, NoRepeats(s)
    PROVE  /\ Head(s) \in Elements(s) /\ Elements(Tail(s)) = Elements(s) \ {Head(s)}
           /\ NoRepeats(Tail(s))
<1>1. /\ Len(s) \in Nat \ {0} /\ DOMAIN s = 1..Len(s) /\ DOMAIN Tail(s) = 1..(Len(s) - 1)
      /\ Head(s) = s[1] /\ \A i \in 1..(Len(s) - 1) : Tail(s)[i] = s[i + 1]
  OBVIOUS
<1>2. /\ 1 \in 1..Len(s)
      /\ \A i \in 1..(Len(s) - 1) : i + 1 \in 1..Len(s) /\ i + 1 # 1
      /\ \A i \in 1..Len(s) : i # 1 => i - 1 \in 1..(Len(s) - 1) /\ (i - 1) + 1 = i
      /\ \A i, j \in 1..(Len(s) - 1) : i + 1 = j + 1 => i = j
  BY <1>1
<1>3. Head(s) \in Elements(s)
  BY <1>1, <1>2, Zenon DEF Elements
<1>4. ASSUME NEW x \in Elements(Tail(s)) PROVE x \in Elements(s) \ {Head(s)}
  BY <1>1, <1>2, <1>4 DEF Elements, NoRepeats
<1>5. ASSUME NEW x \in Elements(s), x # Head(s) PROVE x \in Elements(Tail(s))
  <2>1. PICK i \in 1..Len(s) : x = s[i]
    BY <1>1, <1>5, Zenon DEF Elements
  <2>2. i # 1
    BY <1>1, <1>5, <2>1, Zenon
  <2>3. i - 1 \in 1..(Len(s) - 1) /\ Tail(s)[i - 1] = x
    BY <1>1, <1>2, <2>1, <2>2, Zenon
  <2> QED
    BY <1>1, <2>3, Zenon DEF Elements
<1>6. NoRepeats(Tail(s))
  BY <1>1, <1>2 DEF NoRepeats
<1> QED
  BY <1>3, <1>4, <1>5, <1>6, Zenon

\* Nothing that concerns the places has changed.
LEMMA PlaceKept ==
    ASSUME PlaceInv, UNCHANGED <<config, jobs, wpc, work, wrote, execs, read, used, leased>>,
           closing \subseteq closing'
    PROVE  PlaceInv'
<1>1. \A k : /\ RequestUnits(k)' = RequestUnits(k) /\ (IsStream(k)' <=> IsStream(k))
             /\ (Read(k)' <=> Read(k)) /\ (Spent(k)' <=> Spent(k))
  BY ConfigDecides, Zenon DEF Read, Spent
<1>2. \A k : (Untouched(k) => Untouched(k)') /\ (Waits(k) => Waits(k)')
  BY <1>1, Zenon DEF Untouched, Waits
<1>3. \A w : Holds(w) => Holds(w)'
  BY <1>1, Zenon DEF Holds
<1>4. Queued' = Queued /\ OncePlaced'
  BY Zenon DEF Queued, PlaceInv, OncePlaced
<1> QED
  BY <1>2, <1>3, <1>4, Zenon DEF PlaceInv

\* A connection the reactor reads from is nowhere else.
LEMMA ConsumedIsNew ==
    ASSUME ExchangeTypes, PlaceInv, NEW k, Consume(k)
    PROVE  /\ k \in Conns /\ ~Spent(k) /\ k \notin Queued
           /\ \A w \in Workers : wpc[w] # "idle" => work[w] # k
           /\ wrote[k] = 0 /\ execs[k] = 0 /\ used[k] = 0
<1>1. k \in Conns /\ k \notin leased /\ sent[k] > read[k]
  BY ConsumeCases, Zenon DEF ExchangeTypes, TableTypes
<1>2. ~Spent(k)
  BY <1>1, UnitCounts DEF Spent, ExchangeTypes, UnitTypes
<1>3. k \notin Queued
  BY <1>2, Zenon DEF PlaceInv, Waits, Spent
<1>4. ASSUME NEW w \in Workers, wpc[w] # "idle", work[w] = k PROVE FALSE
  <2>1. wpc[w] \in FixedPhases \/ wpc[w] \in SlotPhases \cup {"rearm"}
    BY <1>4, Zenon DEF ExchangeTypes, WorkTypes
  <2> QED
    BY <1>2, <1>4, <2>1, Zenon DEF PlaceInv, Holds, Read, Spent
<1> QED
  BY <1>1, <1>2, <1>3, <1>4, Zenon DEF PlaceInv, Untouched

LEMMA PlaceConsume ==
    ASSUME ExchangeTypes, PlaceInv, NEW k, Consume(k) PROVE PlaceInv'
<1>1. /\ k \in Conns /\ ~Spent(k) /\ k \notin Queued
      /\ \A w \in Workers : wpc[w] # "idle" => work[w] # k
      /\ wrote[k] = 0 /\ execs[k] = 0 /\ used[k] = 0
  BY ConsumedIsNew, Zenon
<1>2. /\ \A j : RequestUnits(j)' = RequestUnits(j) /\ (IsStream(j)' <=> IsStream(j))
      /\ UNCHANGED <<wpc, work, execs, wrote>> /\ closing \subseteq closing'
  BY ConsumeCases, ConfigDecides, Zenon
<1>3. /\ \A j \in Conns \ {k} : /\ read'[j] = read[j] /\ used'[j] = used[j]
                                /\ j \in leased' <=> j \in leased
      /\ k \in leased' => IsStream(k) /\ used'[k] > 0
      /\ \/ UNCHANGED jobs /\ (k \in leased' \/ used'[k] = 0)
         \/ /\ jobs' = Append(jobs, k)
            /\ IF IsStream(k) THEN k \in leased' ELSE read'[k] = RequestUnits(k)
  BY <1>1, ConsumeCases DEF ExchangeTypes, UnitTypes
<1>4. /\ \A j \in Conns \ {k} : (Read(j)' <=> Read(j)) /\ (Spent(j)' <=> Spent(j))
      /\ \A w \in Workers : wpc[w] # "idle" => work[w] \in Conns \ {k}
  BY <1>1, <1>2, <1>3, Zenon DEF Read, Spent, ExchangeTypes, WorkTypes
<1>5. /\ Queued' \in {Queued, Queued \cup {k}} /\ NoRepeats(jobs')
      /\ k \in Queued' => IF IsStream(k) THEN k \in leased' ELSE read'[k] = RequestUnits(k)
      /\ Queued \subseteq Conns
  <2>1. Queued \subseteq Conns /\ NoRepeats(jobs) /\ jobs \in Seq(Conns)
    BY DEF Queued, Elements, ExchangeTypes, WorkTypes, PlaceInv, OncePlaced
  <2>2. CASE UNCHANGED jobs
    BY <1>1, <2>1, <2>2, Zenon DEF Queued, Elements, NoRepeats
  <2>3. CASE jobs' = Append(jobs, k) /\ (IF IsStream(k) THEN k \in leased'
                                        ELSE read'[k] = RequestUnits(k))
    BY <1>1, <2>1, <2>3, AppendOnce, Zenon DEF Queued
  <2> QED
    BY <1>3, <2>2, <2>3, Zenon
<1>6. OncePlaced'
  BY <1>1, <1>2, <1>5, Zenon DEF PlaceInv, OncePlaced
<1>7. ASSUME NEW j \in Conns PROVE Untouched(j)'
  <2>1. CASE j = k
    BY <1>1, <1>2, <1>3, <1>5, <2>1, Zenon DEF Untouched, Spent
  <2>2. CASE j # k
    BY <1>2, <1>3, <1>4, <2>2, Zenon DEF Untouched, PlaceInv
  <2> QED
    BY <2>1, <2>2, Zenon
<1>8. ASSUME NEW j \in Queued' PROVE Waits(j)'
  <2>1. CASE j = k
    BY <1>1, <1>2, <1>5, <1>8, <2>1, Zenon DEF Waits
  <2>2. CASE j # k
    BY <1>2, <1>3, <1>5, <1>8, <2>2, Zenon DEF Waits, PlaceInv
  <2> QED
    BY <2>1, <2>2, Zenon
<1>9. ASSUME NEW w \in Workers PROVE Holds(w)'
  <2>1. CASE wpc[w] = "idle"
    BY <1>2, <2>1, Zenon DEF Holds, FixedPhases, SlotPhases
  <2>2. CASE wpc[w] # "idle"
    BY <1>2, <1>3, <1>4, <2>2, Zenon DEF Holds, PlaceInv
  <2> QED
    BY <2>1, <2>2, Zenon
<1> QED
  BY <1>6, <1>7, <1>8, <1>9, Zenon DEF PlaceInv

-----------------------------------------------------------------------------
(* A worker that serves a request touches no other. *)

OwnRequest(w) ==
    /\ wpc[w] # "idle" /\ jobs' = jobs /\ work' = work /\ config' = config
    /\ closing \subseteq closing'
    /\ \A v \in Workers \ {w} : wpc'[v] = wpc[v]
    /\ \A j \in Conns \ {work[w]} :
          /\ read'[j] = read[j] /\ used'[j] = used[j] /\ (j \in leased' <=> j \in leased)
          /\ wrote'[j] = wrote[j] /\ execs'[j] = execs[j] /\ status'[j] = status[j]

LEMMA ServesOwn ==
    ASSUME ExchangeTypes, NEW w \in Workers, WorkerStep(w) PROVE Take(w) \/ OwnRequest(w)
<1>1. config' = config /\ closing \subseteq closing'
  BY WorkerKeeps, Zenon DEF workerRest
<1>2. work[w] \in Conns => /\ wpc \in [Workers -> {"idle", "rearm"} \cup FixedPhases \cup SlotPhases]
                           /\ read \in [Conns -> Nat] /\ used \in [Conns -> Nat]
                           /\ wrote \in [Conns -> Nat] /\ status \in [Conns -> Nat]
  BY Zenon DEF ExchangeTypes, UnitTypes, AnswerTypes, WorkTypes
<1>3. wpc[w] # "idle" => work[w] \in Conns
  BY Zenon DEF ExchangeTypes, WorkTypes
<1>4. CASE WriteFixed(w)
  BY <1>1, <1>2, <1>3, <1>4, Zenon DEF WriteFixed, OwnRequest
<1>5. CASE Complete(w)
  BY <1>1, <1>2, <1>3, <1>5, Zenon DEF Complete, OwnRequest
<1>6. CASE StreamRead(w)
  <2>1. /\ wpc[w] = "read" /\ UNCHANGED <<jobs, work, execs, wrote, leased>>
        /\ \E p : wpc' = [wpc EXCEPT ![w] = p]
        /\ status' = status \/ \E x : status' = [status EXCEPT ![work[w]] = x]
    BY <1>6, ReadCases, Zenon
  <2>2. /\ used' = used \/ \E x : used' = [used EXCEPT ![work[w]] = x]
        /\ read' = read \/ \E x : read' = [read EXCEPT ![work[w]] = x]
    BY <1>6, ReadCases, Zenon
  <2> QED
    BY <1>1, <1>2, <1>3, <2>1, <2>2, Zenon DEF OwnRequest
<1>7. CASE StreamWrite(w)
  BY <1>1, <1>2, <1>3, <1>7, Zenon DEF StreamWrite, StreamFails, OwnRequest
<1>8. CASE StreamTimeout(w)
  BY <1>1, <1>2, <1>3, <1>8, Zenon DEF StreamTimeout, StreamFails, OwnRequest
<1>9. CASE ReleaseSlot(w)
  BY <1>1, <1>2, <1>3, <1>9, Zenon DEF ReleaseSlot, OwnRequest
<1>10. CASE Rearm(w)
  BY <1>1, <1>2, <1>3, <1>10, Zenon DEF Rearm, OwnRequest
<1> QED
  BY <1>4, <1>5, <1>6, <1>7, <1>8, <1>9, <1>10, Zenon DEF WorkerStep, Worker

\* What is left to show of such a step.
LEMMA PlaceServed ==
    ASSUME ExchangeTypes, PlaceInv, NEW w \in Workers, OwnRequest(w),
           Holds(w)', Spent(work[w])', Untouched(work[w])'
    PROVE  PlaceInv'
<1>1. /\ \A j : RequestUnits(j)' = RequestUnits(j) /\ (IsStream(j)' <=> IsStream(j))
      /\ work[w] \in Conns /\ work[w] \notin Queued /\ Queued' = Queued /\ Queued \subseteq Conns
  BY ConfigDecides
     DEF OwnRequest, PlaceInv, OncePlaced, ExchangeTypes, WorkTypes, Queued, Elements
<1>2. \A j \in Conns \ {work[w]} : (Read(j)' <=> Read(j)) /\ (Spent(j)' <=> Spent(j))
  BY <1>1, Zenon DEF OwnRequest, Read, Spent
<1>3. OncePlaced'
  BY <1>1 DEF OwnRequest, PlaceInv, OncePlaced, NoRepeats
<1>4. ASSUME NEW j \in Conns PROVE Untouched(j)'
  BY <1>1, <1>2, Zenon DEF OwnRequest, PlaceInv, Untouched
<1>5. ASSUME NEW j \in Queued' PROVE Waits(j)'
  BY <1>1, <1>5, Zenon DEF OwnRequest, PlaceInv, Waits
<1>6. ASSUME NEW v \in Workers PROVE Holds(v)'
  <2>1. CASE v # w /\ wpc[v] = "idle"
    BY <2>1, Zenon DEF OwnRequest, Holds, FixedPhases, SlotPhases
  <2>2. CASE v # w /\ wpc[v] # "idle"
    <3>1. work[v] \in Conns \ {work[w]}
      BY <2>2, Zenon DEF OwnRequest, PlaceInv, OncePlaced, ExchangeTypes, WorkTypes
    <3> QED
      BY <1>1, <1>2, <2>2, <3>1, Zenon DEF OwnRequest, PlaceInv, Holds
  <2> QED
    BY <2>1, <2>2, Zenon
<1> QED
  BY <1>3, <1>4, <1>5, <1>6, Zenon DEF PlaceInv

\* Only the last frame of a request ends it.
LEMMA EndIsLast ==
    ASSUME NEW k \in Conns, IsStream(k), NEW i \in Nat, i > 1, i <= RequestUnits(k),
           DecodeHeader(RequestHeader(k, i)).type = Types.streamRequestEnd
    PROVE  i = RequestUnits(k)
<1>1. SUFFICES ASSUME i < RequestUnits(k) PROVE FALSE
  BY UnitCounts
<1>2. RequestHeader(k, i) = EncodeHeader(Types.streamRequestChunk, 0, ChunkSize, 0, 0, config.version)
  BY <1>1 DEF RequestHeader
<1>3. DecodeHeader(RequestHeader(k, i)).type = Types.streamRequestChunk
  BY <1>2 DEF DecodeHeader, EncodeHeader
<1> QED
  BY <1>3 DEF Types

\* A stream's worker that reads the end has read all of the request.
LEMMA ReadToEnd ==
    ASSUME ExchangeTypes, PlaceInv, NEW w \in Workers, StreamRead(w), wpc'[w] = "respond"
    PROVE  Read(work[w])'
<1> DEFINE k == work[w]
<1>1. /\ k \in Conns /\ IsStream(k) /\ k \in leased /\ used[k] > 0
      /\ read[k] \in Nat /\ used[k] \in Nat /\ sent[k] \in Nat
      /\ read[k] <= sent[k] /\ sent[k] <= RequestUnits(k) /\ RequestUnits(k) \in Nat
  BY ReadCases, UnitCounts, Zenon
     DEF PlaceInv, Holds, Untouched, SlotPhases, ExchangeTypes, WorkTypes, UnitTypes
<1>2. /\ used[k] < sent[k] /\ used' = [used EXCEPT ![k] = used[k] + 1]
      /\ read' = [read EXCEPT ![k] = Max({read[k], used[k] + 1})]
      /\ DecodeHeader(RequestHeader(k, used[k] + 1)).type = Types.streamRequestEnd
  BY ReadCases, Zenon DEF ExchangeTypes, WorkTypes
<1>3. used[k] + 1 = RequestUnits(k)
  BY <1>1, <1>2, EndIsLast
<1>4. Max({read[k], used[k] + 1}) = RequestUnits(k)
  BY <1>1, <1>3, Larger
<1>5. /\ RequestUnits(k)' = RequestUnits(k) /\ work' = work
      /\ read'[k] = RequestUnits(k) /\ used'[k] = RequestUnits(k)
  BY <1>1, <1>2, <1>3, <1>4, ConfigDecides, WorkerKeeps, ReadCases, Zenon
     DEF workerRest, WorkerStep, Worker, ExchangeTypes, UnitTypes
<1> QED
  BY <1>5, Zenon DEF Read

LEMMA PlaceTake ==
    ASSUME ExchangeTypes, PlaceInv, NEW w \in Workers, Take(w) PROVE PlaceInv'
<1> DEFINE k == Head(jobs)
<1>1. /\ \A j : RequestUnits(j)' = RequestUnits(j) /\ (IsStream(j)' <=> IsStream(j))
      /\ UNCHANGED <<read, used, wrote, closing, leased>>
      /\ wpc[w] = "idle" /\ jobs # <<>> /\ jobs' = Tail(jobs) /\ work' = [work EXCEPT ![w] = k]
      /\ k \in Conns
  BY TakeCases, WorkerKeeps, ConfigDecides, Zenon
     DEF workerRest, WorkerStep, Worker, ExchangeTypes
<1>2. /\ k \in Queued /\ Queued' = Queued \ {k} /\ NoRepeats(jobs') /\ Queued \subseteq Conns
  <2>1. jobs \in Seq(Conns) /\ NoRepeats(jobs) /\ Queued \subseteq Conns
    BY DEF Queued, Elements, PlaceInv, OncePlaced, ExchangeTypes, WorkTypes
  <2> QED
    BY <1>1, <2>1, TailOnce, Zenon DEF Queued
<1>3. /\ \A j \in Conns \ {k} : execs'[j] = execs[j]
      /\ IF IsStream(k) THEN wpc' = [wpc EXCEPT ![w] = "read"]
         ELSE wpc' = [wpc EXCEPT ![w] = "write"] \/ wpc' = [wpc EXCEPT ![w] = "complete"]
  BY TakeCases, Zenon DEF Run, ExchangeTypes, AnswerTypes
<1>4. \A j : (Read(j)' <=> Read(j)) /\ (Spent(j)' <=> Spent(j))
  BY <1>1, Zenon DEF Read, Spent
<1>5. /\ wpc \in [Workers -> {"idle", "rearm"} \cup FixedPhases \cup SlotPhases]
      /\ work \in [Workers -> Conns \cup {<<>>}]
      /\ \A v \in Workers \ {w} : wpc'[v] = wpc[v] /\ work'[v] = work[v]
      /\ work'[w] = k
  BY <1>1, <1>3, Zenon DEF ExchangeTypes, WorkTypes
<1>6. Spent(k) /\ Waits(k)
  BY <1>2, Zenon DEF PlaceInv, Waits, Spent
<1>7. OncePlaced'
  <2>1. \A v \in Workers \ {w} : wpc[v] # "idle" => work[v] # k
    BY <1>2, Zenon DEF PlaceInv, OncePlaced
  <2>2. \A v \in Workers : wpc'[v] # "idle" => work'[v] \notin Queued'
    BY <1>2, <1>5, Zenon DEF PlaceInv, OncePlaced
  <2>3. ASSUME NEW u \in Workers, NEW v \in Workers, wpc'[u] # "idle", wpc'[v] # "idle",
               work'[u] = work'[v]
        PROVE  u = v
    BY <1>5, <2>1, <2>3, Zenon DEF PlaceInv, OncePlaced
  <2> QED
    BY <1>2, <2>2, <2>3, Zenon DEF OncePlaced
<1>8. ASSUME NEW j \in Conns PROVE Untouched(j)'
  BY <1>1, <1>3, <1>4, <1>6, Zenon DEF Untouched, PlaceInv
<1>9. ASSUME NEW j \in Queued' PROVE Waits(j)'
  BY <1>1, <1>2, <1>3, <1>9, Zenon DEF Waits, PlaceInv
<1>10. ASSUME NEW v \in Workers PROVE Holds(v)'
  <2>1. CASE v # w
    BY <1>1, <1>4, <1>5, <2>1, Zenon DEF Holds, PlaceInv
  <2>2. CASE v = w
    <3>1. /\ IsStream(k) => wpc'[w] = "read" /\ k \in leased
          /\ ~IsStream(k) => wpc'[w] \in FixedPhases /\ Read(k)
      BY <1>3, <1>5, <1>6, Zenon DEF Waits, Read, FixedPhases
    <3> QED
      BY <1>1, <1>4, <1>5, <2>2, <3>1, Zenon DEF Holds, FixedPhases, SlotPhases
  <2> QED
    BY <2>1, <2>2, Zenon
<1> QED
  BY <1>7, <1>8, <1>9, <1>10, Zenon DEF PlaceInv

LEMMA PlaceWorker ==
    ASSUME ExchangeTypes, PlaceInv, NEW w \in Workers, WorkerStep(w) PROVE PlaceInv'
<1> DEFINE k == work[w]
<1>1. CASE Take(w)
  BY <1>1, PlaceTake, Zenon
<1> SUFFICES ASSUME ~Take(w), OwnRequest(w) PROVE PlaceInv'
  BY <1>1, ServesOwn, Zenon
<1>2. /\ k \in Conns /\ Holds(w) /\ Untouched(k) /\ work' = work /\ closing \subseteq closing'
      /\ wpc[w] # "idle"
      /\ \A j : RequestUnits(j)' = RequestUnits(j) /\ (IsStream(j)' <=> IsStream(j))
  BY ConfigDecides, Zenon DEF OwnRequest, PlaceInv, ExchangeTypes, WorkTypes
<1>3. /\ wpc \in [Workers -> {"idle", "rearm"} \cup FixedPhases \cup SlotPhases]
      /\ wrote \in [Conns -> Nat] /\ used \in [Conns -> Nat] /\ used[k] \in Nat
  BY <1>2, Zenon DEF ExchangeTypes, UnitTypes, AnswerTypes, WorkTypes
<1>4. SUFFICES Holds(w)' /\ Spent(k)' /\ Untouched(k)'
  BY <1>2, PlaceServed, Zenon
<1>5. ASSUME UNCHANGED <<read, used, leased>>
      PROVE  /\ Read(k)' <=> Read(k)
             /\ Spent(k)' /\ Untouched(k)'
  <2>1. Spent(k)
    BY <1>2, <1>3, Zenon DEF Holds, Spent, Read
  <2> QED
    BY <1>2, <1>5, <2>1, Zenon DEF Read, Spent, Untouched
<1>6. CASE WriteFixed(w) \/ Complete(w)
  <2>1. UNCHANGED <<read, used, leased>> /\ wpc'[w] \in {"complete", "idle"} /\ wpc[w] \in FixedPhases
    BY <1>3, <1>6, Zenon DEF WriteFixed, Complete, FixedPhases
  <2> QED
    BY <1>2, <1>5, <2>1, Zenon DEF Holds, FixedPhases, SlotPhases
<1>7. CASE StreamRead(w)
  <2>1. /\ leased' = leased /\ IsStream(k) /\ k \in leased
        /\ wpc'[w] \in {"read", "respond", "failed"} /\ (wpc'[w] = "failed" => k \in closing')
        /\ used'[k] \in Nat /\ used'[k] >= used[k]
    <3>1. /\ wpc[w] = "read" /\ leased' = leased
          /\ used' = [used EXCEPT ![k] = used[k] + 1] \/ used' = used
          /\ \/ wpc' = [wpc EXCEPT ![w] = "read"] \/ wpc' = [wpc EXCEPT ![w] = "respond"]
             \/ wpc' = [wpc EXCEPT ![w] = "failed"] /\ k \in closing'
      BY <1>7, ReadCases, Zenon
    <3>2. used'[k] \in {used[k], used[k] + 1}
      BY <1>2, <1>3, <3>1, Zenon
    <3> QED
      BY <1>2, <1>3, <3>1, <3>2 DEF Holds, SlotPhases
  <2>2. wpc'[w] = "respond" => Read(k)'
    BY <1>2, <1>7, ReadToEnd, Zenon
  <2> QED
    <3>1. Spent(k)' /\ Untouched(k)'
      BY <1>2, <1>3, <2>1 DEF Spent, Untouched
    <3>2. Holds(w)'
      BY <1>2, <2>1, <2>2, Zenon DEF Holds, FixedPhases, SlotPhases
    <3> QED
      BY <3>1, <3>2, Zenon
<1>8. CASE StreamWrite(w) \/ StreamTimeout(w)
  <2>1. /\ UNCHANGED <<read, used, leased>> /\ wpc[w] \in {"read", "respond"}
        /\ wpc'[w] \in {"respond", "release", "failed"} /\ (wpc'[w] = "failed" => k \in closing')
        /\ wpc'[w] # "failed" => wpc[w] = "respond"
    BY <1>3, <1>8, Zenon DEF StreamWrite, StreamTimeout, StreamFails
  <2> QED
    BY <1>2, <1>5, <2>1, Zenon DEF Holds, FixedPhases, SlotPhases
<1>9. CASE ReleaseSlot(w)
  <2>1. /\ UNCHANGED <<read, used, leased>> /\ wpc[w] \in {"release", "unslot"}
        /\ wpc'[w] \in {"rearm", "idle"} /\ (wpc'[w] = "rearm" => wpc[w] = "release")
    BY <1>3, <1>9, Zenon DEF ReleaseSlot
  <2> QED
    BY <1>2, <1>5, <2>1, Zenon DEF Holds, FixedPhases, SlotPhases
<1>10. CASE Rearm(w)
  <2>1. /\ UNCHANGED <<read, used>> /\ wpc[w] \in {"rearm", "failed"}
        /\ wpc'[w] = (IF wpc[w] = "rearm" THEN "idle" ELSE "unslot")
        /\ leased' = leased \/ (k \notin closing /\ leased' = leased \ {k})
    BY <1>3, <1>10, Zenon DEF Rearm
  <2>2. CASE leased' = leased
    BY <1>2, <1>5, <2>1, <2>2, Zenon DEF Holds, FixedPhases, SlotPhases
  <2>3. CASE k \notin closing /\ leased' = leased \ {k}
    <3>1. wpc[w] = "rearm" /\ Read(k) /\ wpc'[w] = "idle"
      BY <1>2, <2>1, <2>3, Zenon DEF Holds
    <3> QED
      BY <1>2, <2>1, <2>3, <3>1, Zenon DEF Holds, Read, Spent, Untouched, FixedPhases, SlotPhases
  <2> QED
    BY <2>1, <2>2, <2>3, Zenon
<1> QED
  BY <1>6, <1>7, <1>8, <1>9, <1>10, Zenon DEF WorkerStep, Worker

LEMMA InitPlace == Init => PlaceInv
<1>1. SUFFICES ASSUME Init PROVE PlaceInv
  BY Zenon
<1>2. OncePlaced /\ Queued = {}
  BY <1>1 DEF Init, OncePlaced, NoRepeats, Queued, Elements
<1>3. \A k \in Conns : Untouched(k)
  BY <1>1, Zenon DEF Init, Untouched
<1>4. \A w \in Workers : Holds(w)
  BY <1>1, Zenon DEF Init, Holds, FixedPhases, SlotPhases
<1> QED
  BY <1>2, <1>3, <1>4, Zenon DEF PlaceInv

LEMMA PlaceStep == ExchangeTypes /\ PlaceInv /\ [Next]_vars => PlaceInv'
<1>1. SUFFICES ASSUME ExchangeTypes, PlaceInv, [Next]_vars PROVE PlaceInv'
  BY Zenon
<1>2. CASE \E c \in Calls : ClientStep(c)
  BY <1>1, <1>2, ClientKeeps, PlaceKept, Zenon DEF clientRest, workerVars
<1>3. CASE Aside
  BY <1>1, <1>3, AsideKeeps, PlaceKept, Zenon DEF serverRest, workerVars
<1>4. CASE UNCHANGED vars
  BY <1>1, <1>4, PlaceKept, Zenon DEF vars, workerVars
<1> QED
  BY <1>1, <1>2, <1>3, <1>4, NextSteps, PlaceConsume, PlaceWorker, Zenon

-----------------------------------------------------------------------------
(* The answers. *)

\* What the status an answer has says of the runs of its handler.
Tells(code, runs, verdict) ==
    /\ code \in {200, 403, 404, 408, 500}
    /\ code = 200 => runs = 1
    /\ code \in {403, 404, 408} => runs = 0
    /\ code = 500 => runs = 1 \/ verdict = "hookThrows"

\* A status that tells whether the handler ran, of a request that was read.
Settled(k) == Tells(status[k], execs[k], Verdict(k)) /\ Read(k)

\* What a connection's answer was before its first frame went out.
AnswerOf(k) == execs[k] \in {0, 1} /\ (wrote[k] > 0 => Settled(k))

Answers(w) ==
    /\ wpc[w] \in {"write", "respond"} => Settled(work[w])
    /\ wpc[w] = "read" => wrote[work[w]] = 0 /\ (execs[work[w]] = 1 <=> Handled(work[w]))

AnswerInv == /\ \A k \in Conns : AnswerOf(k)
             /\ \A w \in Workers : Answers(w)

\* A status of the handler's says that it ran.
LEMMA StatusTells ==
    ASSUME CallTypes, NEW k \in Conns, NEW runs, runs = IF Handled(k) THEN 1 ELSE 0
    PROVE  Tells(Status(k), runs, Verdict(k))
<1>1. Verdict(k) \in {"ok", "throws", "unknown", "denied", "hookThrows"}
  BY ConnParts, ExchangeAssumption, Zenon DEF Verdict, CallTypes
<1>2. /\ Statuses["ok"] = 200 /\ Statuses["throws"] = 500 /\ Statuses["unknown"] = 404
      /\ Statuses["denied"] = 403 /\ Statuses["hookThrows"] = 500
  BY Zenon DEF Statuses
<1>3. /\ Verdict(k) = "ok" => Status(k) \in {200, 500}
      /\ Verdict(k) # "ok" => Status(k) = Statuses[Verdict(k)]
  BY <1>2 DEF Status
<1> QED
  BY <1>1, <1>2, <1>3 DEF Handled, Tells

\* An answer stays settled while its request and its status stay as they are.
LEMMA SettledKept ==
    ASSUME NEW j, RequestUnits(j)' = RequestUnits(j), IsStream(j)' <=> IsStream(j),
           Verdict(j)' = Verdict(j), read'[j] = read[j], used'[j] = used[j],
           status'[j] = status[j], execs'[j] = execs[j]
    PROVE  Settled(j)' <=> Settled(j)
  BY DEF Settled, Read

LEMMA AnswerKept ==
    ASSUME AnswerInv, UNCHANGED <<config, wpc, work, wrote, execs, status, read, used>>
    PROVE  AnswerInv'
<1>1. \A k : (Handled(k)' <=> Handled(k)) /\ (Settled(k)' <=> Settled(k))
  BY ConfigDecides, SettledKept, Zenon
<1>2. \A k : AnswerOf(k) => AnswerOf(k)'
  BY <1>1, Zenon DEF AnswerOf
<1>3. \A w : Answers(w) => Answers(w)'
  BY <1>1, Zenon DEF Answers
<1> QED
  BY <1>2, <1>3, Zenon DEF AnswerInv

LEMMA AnswerConsume ==
    ASSUME ExchangeTypes, PlaceInv, AnswerInv, NEW k, Consume(k) PROVE AnswerInv'
<1>1. /\ k \in Conns /\ wrote[k] = 0 /\ execs[k] = 0
      /\ \A w \in Workers : wpc[w] # "idle" => work[w] \in Conns \ {k}
  BY ConsumedIsNew, Zenon DEF ExchangeTypes, WorkTypes
<1>2. /\ \A j : /\ RequestUnits(j)' = RequestUnits(j) /\ (IsStream(j)' <=> IsStream(j))
                /\ (Handled(j)' <=> Handled(j)) /\ Verdict(j)' = Verdict(j)
      /\ UNCHANGED <<wpc, work, execs, wrote, status>>
  BY ConsumeCases, ConfigDecides, Zenon
<1>3. \A j \in Conns \ {k} : read'[j] = read[j] /\ used'[j] = used[j]
  <2>1. read' = [read EXCEPT ![k] = sent[k]] /\ (used' = used \/ used' = [used EXCEPT ![k] = 1])
    BY ConsumeCases, Zenon
  <2> QED
    BY <2>1, Zenon DEF ExchangeTypes, UnitTypes
<1>4. \A j \in Conns \ {k} : Settled(j)' <=> Settled(j)
  BY <1>2, <1>3, SettledKept, Zenon
<1>5. \A j \in Conns : AnswerOf(j)'
  BY <1>1, <1>2, <1>4 DEF AnswerOf, AnswerInv
<1>6. \A w \in Workers : Answers(w)'
  BY <1>1, <1>2, <1>4, Zenon DEF Answers, AnswerInv
<1> QED
  BY <1>5, <1>6, Zenon DEF AnswerInv

LEMMA AnswerTake ==
    ASSUME ExchangeTypes, PlaceInv, AnswerInv, NEW w \in Workers, Take(w) PROVE AnswerInv'
<1>0. PICK k \in Conns : k = Head(jobs)
  BY TakeCases, Zenon DEF ExchangeTypes
<1>1. /\ \A j : /\ RequestUnits(j)' = RequestUnits(j) /\ (IsStream(j)' <=> IsStream(j))
                /\ (Handled(j)' <=> Handled(j)) /\ Verdict(j)' = Verdict(j)
      /\ UNCHANGED <<read, used, wrote>>
      /\ wpc[w] = "idle" /\ work' = [work EXCEPT ![w] = k] /\ k \in Conns
  BY <1>0, TakeCases, WorkerKeeps, ConfigDecides, Zenon
     DEF workerRest, WorkerStep, Worker, ExchangeTypes
<1>2. Waits(k) /\ k \in Queued
  <2>1. jobs \in Seq(Conns) /\ jobs # <<>> /\ NoRepeats(jobs)
    BY TakeCases, Zenon DEF ExchangeTypes, WorkTypes, PlaceInv, OncePlaced
  <2> QED
    BY <1>0, <2>1, TailOnce, Zenon DEF Queued, PlaceInv
<1>3. /\ wpc \in [Workers -> {"idle", "rearm"} \cup FixedPhases \cup SlotPhases]
      /\ work \in [Workers -> Conns \cup {<<>>}]
      /\ status \in [Conns -> Nat] /\ execs \in [Conns -> Nat]
  BY Zenon DEF ExchangeTypes, WorkTypes, AnswerTypes
<1>4. \/ /\ IsStream(k) /\ wpc' = [wpc EXCEPT ![w] = "read"]
         /\ execs'[k] = (IF Handled(k) THEN 1 ELSE 0) /\ status'[k] = status[k]
      \/ /\ ~IsStream(k) /\ wpc' = [wpc EXCEPT ![w] = "write"]
         /\ status'[k] = 408 /\ execs'[k] = 0
      \/ /\ ~IsStream(k) /\ wpc' = [wpc EXCEPT ![w] = "write"]
         /\ status'[k] = Status(k) /\ execs'[k] = (IF Handled(k) THEN 1 ELSE 0)
      \/ /\ ~IsStream(k) /\ wpc' = [wpc EXCEPT ![w] = "complete"]
         /\ execs'[k] = 0 /\ status'[k] = status[k]
  <2>1. execs[k] = 0 /\ WorkTypes
    BY <1>2, Zenon DEF Waits, ExchangeTypes
  <2>2. Run(k) => execs'[k] = (IF Handled(k) THEN 1 ELSE 0)
    BY <1>3, <2>1 DEF Run
  <2> QED
    BY <1>0, <1>3, <2>1, <2>2, TakeCases
<1>5. /\ \A j \in Conns \ {k} : status'[j] = status[j] /\ execs'[j] = execs[j]
      /\ \A v \in Workers \ {w} : wpc'[v] = wpc[v] /\ work'[v] = work[v]
      /\ work'[w] = k
      /\ \A v \in Workers \ {w} : wpc[v] # "idle" => work[v] \in Conns \ {k}
  <2>1. \A j \in Conns \ {k} : status'[j] = status[j] /\ execs'[j] = execs[j]
    <3>1. /\ status' = status \/ \E x : status' = [status EXCEPT ![k] = x]
          /\ execs' = execs \/ Run(k)
      BY <1>0, TakeCases, Zenon DEF ExchangeTypes
    <3> QED
      BY <1>3, <3>1, Zenon DEF Run
  <2>2. \A v \in Workers \ {w} : wpc'[v] = wpc[v] /\ work'[v] = work[v]
    BY <1>1, <1>3, <1>4, Zenon
  <2> QED
    BY <1>1, <1>2, <1>3, <2>1, <2>2, Zenon DEF PlaceInv, OncePlaced, ExchangeTypes, WorkTypes
<1>6. \A j \in Conns \ {k} : Settled(j)' <=> Settled(j)
  BY <1>1, <1>5, SettledKept, Zenon
<1>7. AnswerOf(k)' /\ Answers(w)'
  <2>1. wpc'[w] = "write" => Settled(k)'
    <3>1. execs'[k] = (IF Handled(k) THEN 1 ELSE 0) => Tells(Status(k), execs'[k], Verdict(k))
      BY StatusTells, Zenon DEF ExchangeTypes
    <3>2. wpc'[w] = "write" => Tells(status'[k], execs'[k], Verdict(k))
      BY <1>3, <1>4, <3>1 DEF Tells
    <3>3. wpc'[w] = "write" => ~IsStream(k) /\ read[k] = RequestUnits(k)
      BY <1>2, <1>3, <1>4, Zenon DEF Waits
    <3> QED
      BY <1>1, <3>2, <3>3 DEF Settled, Read
  <2>2. execs'[k] \in {0, 1} /\ wrote'[k] = 0
    BY <1>1, <1>2, <1>4, Zenon DEF Waits
  <2>3. wpc'[w] \in {"read", "write", "complete"} /\ (wpc'[w] = "read" => (execs'[k] = 1 <=> Handled(k)))
    BY <1>3, <1>4
  <2> QED
    <3>1. AnswerOf(k)'
      BY <2>2 DEF AnswerOf
    <3>2. Answers(w)'
      BY <1>1, <1>5, <2>1, <2>2, <2>3, Zenon DEF Answers
    <3> QED
      BY <3>1, <3>2, Zenon
<1>8. \A j \in Conns : AnswerOf(j)'
  BY <1>1, <1>5, <1>6, <1>7, Zenon DEF AnswerOf, AnswerInv
<1>9. \A v \in Workers : Answers(v)'
  BY <1>1, <1>5, <1>6, <1>7 DEF Answers, AnswerInv
<1> QED
  BY <1>8, <1>9, Zenon DEF AnswerInv

LEMMA AnswerServed ==
    ASSUME ExchangeTypes, PlaceInv, AnswerInv, NEW w \in Workers, OwnRequest(w),
           Answers(w)', AnswerOf(work[w])'
    PROVE  AnswerInv'
<1>1. /\ \A j : /\ RequestUnits(j)' = RequestUnits(j) /\ (IsStream(j)' <=> IsStream(j))
                /\ (Handled(j)' <=> Handled(j)) /\ Verdict(j)' = Verdict(j)
      /\ work' = work
      /\ \A v \in Workers \ {w} : wpc'[v] = wpc[v]
      /\ \A v \in Workers \ {w} : wpc[v] # "idle" => work[v] \in Conns \ {work[w]}
  BY ConfigDecides, Zenon DEF OwnRequest, PlaceInv, OncePlaced, ExchangeTypes, WorkTypes
<1>2. \A j \in Conns \ {work[w]} : /\ Settled(j)' <=> Settled(j)
                                   /\ wrote'[j] = wrote[j] /\ execs'[j] = execs[j]
  BY <1>1, SettledKept, Zenon DEF OwnRequest
<1>3. \A j \in Conns : AnswerOf(j)'
  BY <1>1, <1>2, Zenon DEF AnswerOf, AnswerInv
<1>4. \A v \in Workers : Answers(v)'
  BY <1>1, <1>2, Zenon DEF Answers, AnswerInv
<1> QED
  BY <1>3, <1>4, Zenon DEF AnswerInv

LEMMA AnswerWorker ==
    ASSUME ExchangeTypes, PlaceInv, AnswerInv, NEW w \in Workers, WorkerStep(w) PROVE AnswerInv'
<1> DEFINE k == work[w]
<1>1. CASE Take(w)
  BY <1>1, AnswerTake, Zenon
<1> SUFFICES ASSUME ~Take(w), OwnRequest(w) PROVE AnswerInv'
  BY <1>1, ServesOwn, Zenon
<1>2. /\ k \in Conns /\ Answers(w) /\ AnswerOf(k) /\ work' = work /\ wpc[w] # "idle"
      /\ \A j : /\ RequestUnits(j)' = RequestUnits(j) /\ (IsStream(j)' <=> IsStream(j))
                /\ (Handled(j)' <=> Handled(j)) /\ Verdict(j)' = Verdict(j)
  BY ConfigDecides, Zenon DEF OwnRequest, AnswerInv, ExchangeTypes, WorkTypes
<1>3. /\ wpc \in [Workers -> {"idle", "rearm"} \cup FixedPhases \cup SlotPhases]
      /\ wrote \in [Conns -> Nat] /\ status \in [Conns -> Nat]
  BY Zenon DEF ExchangeTypes, AnswerTypes, WorkTypes
<1>4. SUFFICES Answers(w)' /\ AnswerOf(k)'
  BY <1>2, AnswerServed, Zenon
<1>5. ASSUME UNCHANGED <<read, used, status, execs>>
      PROVE  Settled(k)' <=> Settled(k)
  BY <1>2, <1>5, SettledKept, Zenon
<1>6. CASE StreamRead(w)
  <2>1. /\ wpc[w] = "read" /\ wpc'[w] \in {"read", "respond", "failed"} /\ UNCHANGED <<execs, wrote>>
        /\ wpc'[w] = "respond" => status'[k] = Status(k)
    BY <1>2, <1>3, <1>6, ReadCases, Zenon
  <2>2. wpc'[w] = "respond" => Settled(k)'
    <3>1. Tells(Status(k), execs[k], Verdict(k))
      <4>1. execs[k] = IF Handled(k) THEN 1 ELSE 0
        BY <1>2, <2>1 DEF Answers, AnswerOf
      <4> QED
        BY <1>2, <4>1, StatusTells, Zenon DEF ExchangeTypes
    <3> SUFFICES ASSUME wpc'[w] = "respond" PROVE Settled(k)'
      BY Zenon
    <3>2. Tells(status[k], execs[k], Verdict(k))'
      BY <1>2, <2>1, <3>1, Zenon
    <3>3. Read(k)'
      BY <1>2, <1>6, ReadToEnd, Zenon
    <3> QED
      BY <3>2, <3>3, Zenon DEF Settled
  <2> QED
    BY <1>2, <2>1, <2>2 DEF Answers, AnswerOf
<1>7. CASE WriteFixed(w) \/ StreamWrite(w)
  <2>1. /\ UNCHANGED <<read, used, status, execs>> /\ wpc[w] \in {"write", "respond"}
        /\ wpc'[w] \in {"respond", "complete", "release", "failed"}
    BY <1>3, <1>7, Zenon DEF WriteFixed, StreamWrite, StreamFails
  <2> QED
    BY <1>2, <1>5, <2>1, Zenon DEF Answers, AnswerOf
<1>8. CASE Complete(w) \/ StreamTimeout(w) \/ ReleaseSlot(w) \/ Rearm(w)
  <2>1. /\ UNCHANGED <<read, used, status, execs, wrote>>
        /\ wpc'[w] \in {"idle", "failed", "rearm", "unslot"}
    BY <1>3, <1>8, Zenon DEF Complete, StreamTimeout, StreamFails, ReleaseSlot, Rearm
  <2> QED
    BY <1>2, <1>5, <2>1, Zenon DEF Answers, AnswerOf
<1> QED
  BY <1>6, <1>7, <1>8, Zenon DEF WorkerStep, Worker

LEMMA InitAnswer == Init => AnswerInv
BY DEF Init, AnswerInv, AnswerOf, Answers

LEMMA AnswerStep == ExchangeTypes /\ PlaceInv /\ AnswerInv /\ [Next]_vars => AnswerInv'
<1>1. SUFFICES ASSUME ExchangeTypes, PlaceInv, AnswerInv, [Next]_vars PROVE AnswerInv'
  BY Zenon
<1>2. CASE \E c \in Calls : ClientStep(c)
  BY <1>1, <1>2, ClientKeeps, AnswerKept, Zenon DEF clientRest, workerVars
<1>3. CASE Aside
  BY <1>1, <1>3, AsideKeeps, AnswerKept, Zenon DEF serverRest, workerVars
<1>4. CASE UNCHANGED vars
  BY <1>1, <1>4, AnswerKept, Zenon DEF vars, workerVars
<1> QED
  BY <1>1, <1>2, <1>3, <1>4, NextSteps, AnswerConsume, AnswerWorker, Zenon

-----------------------------------------------------------------------------
(* The slots of the streams. *)

SlotInv == streams \in Nat /\ SlotsExact

InSlot(k) == \/ k \in Queued /\ IsStream(k)
             \/ \E w \in Workers : wpc[w] \in SlotPhases /\ work[w] = k

HoldersKnown == /\ SlotHolders = {k \in Conns : InSlot(k)}
                /\ IsFiniteSet(SlotHolders) /\ Cardinality(SlotHolders) \in Nat

\* The holders are a finite set of connections.
LEMMA Holders == ExchangeTypes => HoldersKnown
<1> SUFFICES ASSUME ExchangeTypes PROVE HoldersKnown
  BY Zenon
<1>1. Queued \subseteq Conns /\ \A w \in Workers : wpc[w] \in SlotPhases => work[w] \in Conns
  BY DEF ExchangeTypes, WorkTypes, Queued, Elements, SlotPhases
<1>2. {jobs[i] : i \in {j \in DOMAIN jobs : IsStream(jobs[j])}} = {k \in Queued : IsStream(k)}
  BY Zenon DEF Queued, Elements
<1>3. SlotHolders = {k \in Conns : InSlot(k)}
  BY <1>1, <1>2, Zenon DEF SlotHolders, InSlot, SlotPhases
<1>4. IsFiniteSet(Conns)
  <2>1. IsFiniteSet(Calls) /\ 1 \in Int /\ MaxAttempts \in Int
    BY ExchangeAssumption
  <2>2. IsFiniteSet(1..MaxAttempts)
    BY <2>1, FS_Interval, Zenon
  <2>3. IsFiniteSet(Calls \X (1..MaxAttempts))
    BY <2>1, <2>2, FS_Product, Zenon
  <2> QED
    BY <2>3, Zenon DEF Conns
<1>5. IsFiniteSet(SlotHolders)
  <2>1. SlotHolders \in SUBSET Conns
    BY <1>3, Zenon
  <2> QED
    BY <1>4, <2>1, FS_Subset, Zenon
<1> QED
  BY <1>3, <1>5, FS_CardinalityType, Zenon DEF HoldersKnown

LEMMA NextHolders == ExchangeTypes' => HoldersKnown'
BY Holders, PTL

\* The same streams are queued or served.
LEMMA SlotKept ==
    ASSUME SlotInv, config' = config, streams' = streams, SlotHolders' = SlotHolders,
           stopping => stopping'
    PROVE  SlotInv'
BY Zenon DEF SlotInv, SlotsExact

LEMMA SlotAside ==
    ASSUME SlotInv, UNCHANGED <<config, jobs, wpc, work, streams>>, stopping => stopping'
    PROVE  SlotInv'
<1>1. SlotHolders' = SlotHolders
  BY Zenon DEF SlotHolders, IsStream, Kind
<1> QED
  BY <1>1, SlotKept, Zenon

LEMMA SlotConsume ==
    ASSUME ExchangeTypes, PlaceInv, SlotInv, NEW k, Consume(k) PROVE SlotInv'
<1>1. /\ ExchangeTypes' /\ jobs \in Seq(Conns) /\ config' = config /\ stopping' = stopping
      /\ wpc' = wpc /\ work' = work
      /\ k \in Conns /\ k \notin Queued /\ \A w \in Workers : wpc[w] # "idle" => work[w] # k
      /\ \A j : IsStream(j)' <=> IsStream(j)
  BY ConsumeTypes, ConsumeCases, ConsumedIsNew, ConfigDecides, Zenon
     DEF ExchangeTypes, WorkTypes, stopVars
<1>2. ~InSlot(k)
  BY <1>1, Zenon DEF InSlot, SlotPhases
<1>3. ASSUME UNCHANGED jobs PROVE SlotHolders' = SlotHolders
  BY <1>1, <1>3, Zenon DEF SlotHolders
<1>4. ASSUME jobs' = Append(jobs, k)
      PROVE  SlotHolders' = IF IsStream(k) THEN SlotHolders \cup {k} ELSE SlotHolders
  <2>1. Queued' = Queued \cup {k}
    BY <1>1, <1>4, AppendOnce, Zenon DEF Queued
  <2>2. \A j : InSlot(j)' <=> InSlot(j) \/ (j = k /\ IsStream(k))
    BY <1>1, <2>1, Zenon DEF InSlot
  <2>3. SlotHolders' = {j \in Conns : InSlot(j)'} /\ SlotHolders = {j \in Conns : InSlot(j)}
    BY <1>1, Holders, NextHolders, Zenon DEF HoldersKnown
  <2> QED
    BY <1>1, <2>2, <2>3, Zenon
<1>5. k \notin SlotHolders /\ IsFiniteSet(SlotHolders) /\ Cardinality(SlotHolders) \in Nat
  BY <1>2, Holders, Zenon DEF HoldersKnown
<1>6. \/ streams' = streams /\ (UNCHANGED jobs \/ (~IsStream(k) /\ jobs' = Append(jobs, k)))
      \/ /\ IsStream(k) /\ ~(streams >= config.maxStreams) /\ streams' = streams + 1
         /\ (stopping /\ UNCHANGED jobs) \/ (~stopping /\ jobs' = Append(jobs, k))
  BY ConsumeCases, Zenon
<1>7. CASE streams' = streams /\ (UNCHANGED jobs \/ (~IsStream(k) /\ jobs' = Append(jobs, k)))
  BY <1>1, <1>3, <1>4, <1>7, SlotKept, Zenon
<1>8. CASE /\ IsStream(k) /\ ~(streams >= config.maxStreams) /\ streams' = streams + 1
           /\ (stopping /\ UNCHANGED jobs) \/ (~stopping /\ jobs' = Append(jobs, k))
  <2>1. /\ streams \in Nat /\ config.maxStreams \in Nat /\ streams + 1 <= config.maxStreams
        /\ streams >= Cardinality(SlotHolders)
        /\ ~stopping => streams = Cardinality(SlotHolders)
    BY <1>8, ExchangeAssumption DEF SlotInv, SlotsExact, ExchangeTypes, CallTypes
  <2>2. \/ stopping /\ Cardinality(SlotHolders') = Cardinality(SlotHolders)
        \/ ~stopping /\ Cardinality(SlotHolders') = Cardinality(SlotHolders) + 1
    BY <1>3, <1>4, <1>5, <1>8, FS_AddElement, Zenon
  <2>3. /\ streams' \in Nat /\ streams' <= config'.maxStreams
        /\ streams' >= Cardinality(SlotHolders')
        /\ ~stopping' => streams' = Cardinality(SlotHolders')
    BY <1>1, <1>5, <1>8, <2>1, <2>2
  <2> QED
    BY <2>3, Zenon DEF SlotInv, SlotsExact
<1> QED
  BY <1>6, <1>7, <1>8, Zenon

LEMMA SlotWorker ==
    ASSUME ExchangeTypes, ExchangeTypes', PlaceInv, SlotInv, NEW w \in Workers, WorkerStep(w)
    PROVE  SlotInv'
<1>1. /\ config' = config /\ stopping' = stopping
      /\ \A j : IsStream(j)' <=> IsStream(j)
  BY WorkerKeeps, ConfigDecides, Zenon DEF workerRest, stopVars
<1>2. /\ SlotHolders = {j \in Conns : InSlot(j)} /\ SlotHolders' = {j \in Conns : InSlot(j)'}
      /\ IsFiniteSet(SlotHolders) /\ Cardinality(SlotHolders) \in Nat
  BY Holders, NextHolders, Zenon DEF HoldersKnown
<1>3. /\ wpc \in [Workers -> {"idle", "rearm"} \cup FixedPhases \cup SlotPhases]
      /\ work \in [Workers -> Conns \cup {<<>>}] /\ jobs \in Seq(Conns)
  BY Zenon DEF ExchangeTypes, WorkTypes
<1>4. CASE Take(w)
  <2>1. PICK k \in Conns : k = Head(jobs)
    BY <1>4, TakeCases, Zenon DEF ExchangeTypes
  <2>2. /\ wpc[w] = "idle" /\ jobs # <<>> /\ jobs' = Tail(jobs) /\ work' = [work EXCEPT ![w] = k]
        /\ streams' = streams
        /\ IF IsStream(k) THEN wpc' = [wpc EXCEPT ![w] = "read"]
           ELSE wpc' = [wpc EXCEPT ![w] = "write"] \/ wpc' = [wpc EXCEPT ![w] = "complete"]
    BY <1>4, <2>1, TakeCases, Zenon DEF ExchangeTypes
  <2>3. k \in Queued /\ Queued' = Queued \ {k}
    BY <1>3, <2>1, <2>2, TailOnce, Zenon DEF Queued, PlaceInv, OncePlaced
  <2>4. /\ wpc'[w] \in SlotPhases <=> IsStream(k)
        /\ work'[w] = k /\ wpc[w] \notin SlotPhases
        /\ \A v \in Workers \ {w} : wpc'[v] = wpc[v] /\ work'[v] = work[v]
    BY <1>3, <2>2, Zenon DEF SlotPhases
  <2>5. ASSUME NEW j PROVE InSlot(j)' <=> InSlot(j)
    BY <1>1, <2>3, <2>4, Zenon DEF InSlot
  <2> QED
    BY <1>1, <1>2, <2>2, <2>5, SlotKept, Zenon
<1> SUFFICES ASSUME ~Take(w), OwnRequest(w) PROVE SlotInv'
  BY <1>4, ServesOwn, Zenon
<1>5. /\ Queued' = Queued /\ work' = work /\ wpc[w] # "idle" /\ work[w] \in Conns
      /\ \A v \in Workers \ {w} : wpc'[v] = wpc[v]
  BY Zenon DEF OwnRequest, Queued, ExchangeTypes, WorkTypes
<1>6. ASSUME streams' = streams, wpc'[w] \in SlotPhases <=> wpc[w] \in SlotPhases
      PROVE  SlotInv'
  <2>1. ASSUME NEW j PROVE InSlot(j)' <=> InSlot(j)
    BY <1>1, <1>5, <1>6, Zenon DEF InSlot
  <2> QED
    BY <1>1, <1>2, <1>6, <2>1, SlotKept, Zenon
<1>7. CASE WriteFixed(w) \/ Complete(w)
  <2>1. /\ streams' = streams /\ wpc[w] \in {"write", "complete"} /\ wpc'[w] \in {"complete", "idle"}
    BY <1>3, <1>7, Zenon DEF WriteFixed, Complete
  <2> QED
    BY <1>6, <2>1, Zenon DEF SlotPhases
<1>8. CASE StreamRead(w)
  <2>1. streams' = streams /\ wpc[w] = "read" /\ wpc'[w] \in {"read", "respond", "failed"}
    BY <1>3, <1>8, ReadCases, Zenon
  <2> QED
    BY <1>6, <2>1, Zenon DEF SlotPhases
<1>9. CASE StreamWrite(w) \/ StreamTimeout(w)
  <2>1. /\ streams' = streams /\ wpc[w] \in {"read", "respond"}
        /\ wpc'[w] \in {"respond", "release", "failed"}
    BY <1>3, <1>9, Zenon DEF StreamWrite, StreamTimeout, StreamFails
  <2> QED
    BY <1>6, <2>1, Zenon DEF SlotPhases
<1>10. CASE Rearm(w)
  <2>1. /\ streams' = streams
        /\ \/ wpc[w] = "rearm" /\ wpc'[w] = "idle"
           \/ wpc[w] = "failed" /\ wpc'[w] = "unslot"
    BY <1>3, <1>10, Zenon DEF Rearm
  <2> QED
    BY <1>6, <2>1, Zenon DEF SlotPhases
<1>11. CASE ReleaseSlot(w)
  <2>1. /\ streams' = streams - 1 /\ wpc[w] \in {"release", "unslot"} /\ wpc'[w] \in {"rearm", "idle"}
    BY <1>3, <1>11, Zenon DEF ReleaseSlot
  <2>2. /\ work[w] \notin Queued
        /\ \A v \in Workers \ {w} : wpc[v] \in SlotPhases => work[v] # work[w]
    BY <1>5, Zenon DEF PlaceInv, OncePlaced, SlotPhases
  <2>3. InSlot(work[w])
    BY <2>1, Zenon DEF InSlot, SlotPhases
  <2>4. ASSUME NEW j PROVE InSlot(j)' <=> InSlot(j) /\ j # work[w]
    BY <1>1, <1>5, <2>1, <2>2, Zenon DEF InSlot, SlotPhases
  <2>5. SlotHolders' = SlotHolders \ {work[w]} /\ work[w] \in SlotHolders
    BY <1>2, <1>5, <2>3, <2>4, Zenon
  <2>6. Cardinality(SlotHolders') = Cardinality(SlotHolders) - 1 /\ Cardinality(SlotHolders) # 0
    <3>1. Cardinality(SlotHolders \ {work[w]}) = Cardinality(SlotHolders) - 1
      BY <1>2, <2>5, FS_RemoveElement, Zenon
    <3>2. Cardinality(SlotHolders) # 0
      BY <1>2, <2>5, FS_EmptySet, Zenon
    <3> QED
      BY <2>5, <3>1, <3>2, Zenon
  <2>7. /\ streams \in Nat /\ config.maxStreams \in Nat /\ streams <= config.maxStreams
        /\ streams >= Cardinality(SlotHolders)
        /\ ~stopping => streams = Cardinality(SlotHolders)
    BY ExchangeAssumption, Zenon DEF SlotInv, SlotsExact, ExchangeTypes, CallTypes
  <2>8. /\ streams' \in Nat /\ streams' <= config'.maxStreams
        /\ streams' >= Cardinality(SlotHolders')
        /\ ~stopping' => streams' = Cardinality(SlotHolders')
    BY <1>1, <1>2, <2>1, <2>6, <2>7
  <2> QED
    BY <2>8, Zenon DEF SlotInv, SlotsExact
<1> QED
  BY <1>7, <1>8, <1>9, <1>10, <1>11, Zenon DEF WorkerStep, Worker

LEMMA InitSlot == Init => SlotInv
<1>1. SUFFICES ASSUME Init PROVE SlotInv
  BY Zenon
<1>2. SlotHolders = {}
  BY <1>1 DEF Init, SlotHolders
<1>3. streams = 0 /\ config.maxStreams \in Nat
  BY <1>1, ExchangeAssumption, Zenon DEF Init
<1> QED
  BY <1>2, <1>3, FS_EmptySet DEF SlotInv, SlotsExact

LEMMA SlotStep == ExchangeTypes /\ PlaceInv /\ SlotInv /\ [Next]_vars => SlotInv'
<1>1. SUFFICES ASSUME ExchangeTypes, PlaceInv, SlotInv, [Next]_vars PROVE SlotInv'
  BY Zenon
<1>2. CASE \E c \in Calls : ClientStep(c)
  BY <1>1, <1>2, ClientKeeps, SlotAside, Zenon DEF clientRest, workerVars, stopVars
<1>3. CASE Aside
  BY <1>1, <1>3, AsideKeeps, SlotAside, Zenon DEF serverRest, workerVars
<1>4. CASE UNCHANGED vars
  BY <1>1, <1>4, SlotAside, Zenon DEF vars, workerVars, stopVars
<1>5. CASE \E k \in entries : Consume(k)
  BY <1>1, <1>5, SlotConsume, Zenon
<1>6. CASE \E w \in Workers : WorkerStep(w)
  BY <1>1, <1>6, SlotWorker, TypesStep, Zenon
<1> QED
  BY <1>1, <1>2, <1>3, <1>4, <1>5, <1>6, NextSteps, Zenon

-----------------------------------------------------------------------------
(* The streams above the limit. *)

\* The client's own limit does not allow all of a stream's body.
Overlong == ~Within(Chunks, ChunkSize, config.clientStream)

\* The call of a rejected stream goes on, or ended in one of three ways.
Ending(k) ==
    \/ cpc[k[1]] \in {"send", "receive"}
    \/ cpc[k[1]] = "done" /\ outcome[k[1]] \in {"closed", "timeout"}
    \/ cpc[k[1]] = "done" /\ outcome[k[1]] = "length" /\ Overlong

\* Nothing was or will be done with it.
Refused(k) == /\ IsStream(k) /\ k \in srvShut /\ k \notin leased /\ sent[k] > 0
              /\ used[k] = 0 /\ execs[k] = 0 /\ wrote[k] = 0

ExcessInv == \A k \in rejected : Refused(k) /\ Ending(k)

\* What a call does that has begun to send a stream.
LEMMA StreamCall ==
    ASSUME ExchangeTypes, CallInv, NEW k \in Conns, IsStream(k), sent[k] > 0
    PROVE  k = Cur(k[1]) /\ attempt[k[1]] = 1
<1>1. /\ k[1] \in Calls /\ k[2] \in Nat /\ k[2] >= 1 /\ k = <<k[1], k[2]>>
      /\ attempt[k[1]] \in Nat /\ attempt[k[1]] >= 1
  BY ConnParts, ExchangeAssumption DEF ExchangeTypes, CallTypes
<1>2. k[2] <= attempt[k[1]] /\ (attempt[k[1]] > 1 => config.kind[k[1]] = "idempotent")
  BY <1>1, Zenon DEF CallInv, SendInv
<1>3. config.kind[k[1]] = "stream"
  BY Zenon DEF IsStream, Kind
<1> QED
  BY <1>1, <1>2, <1>3 DEF Cur

LEMMA StreamEnds ==
    ASSUME ExchangeTypes, NEW c \in Calls, NEW why, Fail(c, why), config.kind[c] = "stream"
    PROVE  cpc'[c] = "done" /\ outcome'[c] = why
BY Zenon DEF Fail, ExchangeTypes, CallTypes

\* A call keeps to its own phase and outcome.
LEMMA OwnCall ==
    ASSUME ExchangeTypes, NEW c \in Calls, ClientStep(c)
    PROVE  /\ \A d \in Calls \ {c} : cpc'[d] = cpc[d] /\ outcome'[d] = outcome[d]
           /\ \A k \in Conns : sent[k] > 0 => sent'[k] > 0
<1>1. cpc \in [Calls -> ClientPhases] /\ outcome \in [Calls -> Outcomes] /\ sent \in [Conns -> Nat]
  BY Zenon DEF ExchangeTypes, CallTypes, UnitTypes
<1>2. ASSUME NEW why, Fail(c, why)
      PROVE  \A d \in Calls \ {c} : cpc'[d] = cpc[d] /\ outcome'[d] = outcome[d]
  BY <1>1, <1>2, Zenon DEF Fail
<1>3. CASE Begin(c)
  BY <1>1, <1>3, Zenon DEF Begin, wireVars
<1>4. CASE Connect(c)
  BY <1>1, <1>2, <1>4, Zenon DEF Connect
<1>5. CASE Send(c)
  BY <1>1, <1>2, <1>5, CurrentConn DEF Send, ExchangeTypes
<1>6. CASE Receive(c)
  BY <1>1, <1>2, <1>6, Zenon DEF Receive
<1>7. CASE ClientTimeout(c)
  BY <1>1, <1>2, <1>7, Zenon DEF ClientTimeout
<1>8. CASE Retry(c)
  BY <1>1, <1>8, Zenon DEF Retry, wireVars
<1> QED
  BY <1>3, <1>4, <1>5, <1>6, <1>7, <1>8, Zenon DEF ClientStep

\* A chunk that the client does not send is one of a body it does not allow.
LEMMA TooLong ==
    ASSUME ExchangeTypes, NEW k \in Conns, IsStream(k), sent[k] + 1 < RequestUnits(k),
           ~Within(sent[k], ChunkSize, config.clientStream)
    PROVE  Overlong
<1>1. /\ sent[k] \in Nat /\ Chunks \in Nat /\ config.clientStream \in Nat
      /\ RequestUnits(k) = Chunks + 2
  BY ExchangeAssumption, Zenon DEF ExchangeTypes, UnitTypes, CallTypes, RequestUnits
<1>2. sent[k] <= Chunks
  BY <1>1
<1>3. config.clientStream # 0 /\ ~(sent[k] * 2 <= config.clientStream)
  BY Zenon DEF Within, ChunkSize
<1>4. ~(Chunks * 2 <= config.clientStream)
  BY <1>1, <1>2, <1>3
<1> QED
  BY <1>3, <1>4, Zenon DEF Overlong, Within, ChunkSize

LEMMA EndingClient ==
    ASSUME ExchangeTypes, CallInv, NEW k \in Conns, Refused(k), Ending(k),
           NEW c \in Calls, ClientStep(c)
    PROVE  Ending(k)'
<1>1. config' = config /\ (Overlong' <=> Overlong)
  BY ClientKeeps, Zenon DEF clientRest, Overlong, Within
<1>2. CASE c # k[1]
  BY <1>1, <1>2, OwnCall, ConnParts, Zenon DEF Ending
<1>3. CASE c = k[1]
  <2>1. k = Cur(c) /\ config.kind[c] = "stream" /\ IsStream(k)
    BY <1>3, StreamCall, Zenon DEF Refused, IsStream, Kind
  <2>2. cpc \in [Calls -> ClientPhases]
    BY Zenon DEF ExchangeTypes, CallTypes
  <2>3. CASE Send(c)
    <3>1. \/ /\ sent[k] + 1 < RequestUnits(k) /\ ~Within(sent[k], ChunkSize, config.clientStream)
             /\ Fail(c, "length")
          \/ Fail(c, Classified["ENOTCONN"]) \/ Fail(c, Classified["EPIPE"])
          \/ \E p \in {"send", "receive"} : cpc' = [cpc EXCEPT ![c] = p]
      BY <2>1, <2>2, <2>3, Zenon DEF Send
    <3>2. Fail(c, Classified["ENOTCONN"]) \/ Fail(c, Classified["EPIPE"])
             => cpc'[c] = "done" /\ outcome'[c] = "closed"
      BY <2>1, StreamEnds, Zenon DEF Classified
    <3>3. Fail(c, "length") => cpc'[c] = "done" /\ outcome'[c] = "length"
      BY <2>1, StreamEnds, Zenon
    <3> QED
      BY <1>1, <1>3, <2>1, <2>2, <3>1, <3>2, <3>3, TooLong, Zenon DEF Ending
  <2>4. CASE Receive(c)
    <3>1. got[k] \in Nat /\ wrote[k] = 0
      BY Zenon DEF Refused, ExchangeTypes, UnitTypes
    <3>2. Fail(c, Classified["ECONNRESET"])
      BY <2>1, <2>4, <3>1 DEF Receive
    <3>3. cpc'[c] = "done" /\ outcome'[c] = "closed"
      BY <2>1, <3>2, StreamEnds, Zenon DEF Classified
    <3> QED
      BY <1>3, <3>3, Zenon DEF Ending
  <2>5. CASE ClientTimeout(c)
    <3>1. cpc'[c] = "done" /\ outcome'[c] = "timeout"
      BY <2>1, <2>5, StreamEnds, Zenon DEF ClientTimeout, Classified
    <3> QED
      BY <1>3, <3>1, Zenon DEF Ending
  <2>6. CASE Begin(c) \/ Connect(c) \/ Retry(c)
    BY <1>3, <2>6, Zenon DEF Ending, Begin, Connect, Retry
  <2> QED
    BY <2>3, <2>4, <2>5, <2>6, Zenon DEF ClientStep
<1> QED
  BY <1>2, <1>3, Zenon

\* A refused stream is in no queue and in no worker's hands.
LEMMA RefusedIsNowhere ==
    ASSUME ExchangeTypes, PlaceInv, NEW k \in Conns, Refused(k)
    PROVE  k \notin Queued /\ \A w \in Workers : wpc[w] # "idle" => work[w] # k
<1>1. k \notin Queued
  BY Zenon DEF PlaceInv, Waits, Refused
<1>2. ASSUME NEW w \in Workers, wpc[w] # "idle", work[w] = k PROVE FALSE
  <2>1. wpc[w] \in FixedPhases \/ wpc[w] \in SlotPhases \cup {"rearm"}
    BY <1>2, Zenon DEF ExchangeTypes, WorkTypes
  <2> QED
    BY <1>2, <2>1, Zenon DEF PlaceInv, Holds, Refused
<1> QED
  BY <1>1, <1>2, Zenon

LEMMA EndingKept ==
    ASSUME NEW k, Ending(k), UNCHANGED <<config, cpc, outcome>> PROVE Ending(k)'
BY Zenon DEF Ending, Overlong, Within

LEMMA ExcessClient ==
    ASSUME ExchangeTypes, CallInv, ExcessInv, NEW c \in Calls, ClientStep(c) PROVE ExcessInv'
<1>1. UNCHANGED <<config, execs, used, wrote, srvShut, leased, rejected>> /\ rejected \subseteq Conns
  BY ClientKeeps, Zenon DEF clientRest, workerVars, ExchangeTypes, TableTypes
<1>2. ASSUME NEW k \in rejected PROVE Refused(k)'
  BY <1>1, ConfigDecides, OwnCall, Zenon DEF Refused, ExcessInv
<1>3. ASSUME NEW k \in rejected PROVE Ending(k)'
  BY <1>1, EndingClient, Zenon DEF ExcessInv
<1> QED
  BY <1>1, <1>2, <1>3, Zenon DEF ExcessInv

LEMMA ExcessAside ==
    ASSUME ExcessInv, UNCHANGED <<config, cpc, outcome, sent, execs, used, wrote, leased, rejected>>,
           srvShut \subseteq srvShut'
    PROVE  ExcessInv'
<1>1. ASSUME NEW k \in rejected PROVE Refused(k)'
  BY ConfigDecides, Zenon DEF Refused, ExcessInv
<1>2. ASSUME NEW k \in rejected PROVE Ending(k)'
  BY EndingKept, Zenon DEF ExcessInv
<1> QED
  BY <1>1, <1>2, Zenon DEF ExcessInv

LEMMA ExcessConsume ==
    ASSUME ExchangeTypes, CallInv, PlaceInv, ExcessInv, NEW k, Consume(k) PROVE ExcessInv'
<1>1. /\ k \in Conns /\ k \notin srvShut /\ k \notin cliShut /\ k \notin leased
      /\ wrote[k] = 0 /\ execs[k] = 0 /\ used[k] = 0
      /\ UNCHANGED <<config, cpc, outcome, sent, execs, wrote>> /\ srvShut \subseteq srvShut'
      /\ rejected \subseteq Conns
  BY ConsumeCases, ConsumedIsNew, Zenon DEF clientVars, wireVars, ExchangeTypes, TableTypes
<1>2. ASSUME NEW j \in rejected PROVE Refused(j)' /\ Ending(j)'
  <2>1. j # k /\ Refused(j) /\ Ending(j)
    BY <1>1, Zenon DEF ExcessInv, Refused
  <2>2. used'[j] = used[j] /\ (j \in leased' <=> j \in leased)
    <3>1. \/ used' = used /\ leased' = leased
          \/ used' = [used EXCEPT ![k] = 1] /\ leased' = leased \cup {k}
      BY ConsumeCases, Zenon
    <3> QED
      BY <1>1, <2>1, <3>1, Zenon DEF ExchangeTypes, UnitTypes
  <2> QED
    BY <1>1, <2>1, <2>2, ConfigDecides, EndingKept, Zenon DEF Refused
<1>3. CASE rejected' = rejected
  BY <1>2, <1>3, Zenon DEF ExcessInv
<1>4. CASE rejected' # rejected
  <2>1. /\ IsStream(k) /\ rejected' = rejected \cup {k} /\ k \in srvShut'
        /\ UNCHANGED <<leased, used>> /\ sent[k] > read[k]
    BY <1>4, ConsumeCases, Zenon
  <2>2. sent[k] > 0 /\ cpc[k[1]] \in {"send", "receive"}
    BY <1>1, <2>1 DEF CallInv, SendInv, ExchangeTypes, UnitTypes
  <2>3. Refused(k)' /\ Ending(k)'
    BY <1>1, <2>1, <2>2, ConfigDecides, Zenon DEF Refused, Ending
  <2> QED
    BY <1>2, <2>1, <2>3, Zenon DEF ExcessInv
<1> QED
  BY <1>3, <1>4, Zenon

LEMMA ExcessWorker ==
    ASSUME ExchangeTypes, PlaceInv, ExcessInv, NEW w \in Workers, WorkerStep(w) PROVE ExcessInv'
<1>1. /\ UNCHANGED <<config, cpc, outcome, sent, rejected>> /\ srvShut \subseteq srvShut'
      /\ rejected \subseteq Conns
  BY WorkerKeeps, Zenon DEF workerRest, clientVars, wireVars, ExchangeTypes, TableTypes
<1>2. ASSUME NEW k \in rejected PROVE Refused(k)' /\ Ending(k)'
  <2>1. /\ k \in Conns /\ Refused(k) /\ Ending(k)
        /\ k \notin Queued /\ (wpc[w] # "idle" => work[w] # k)
    BY <1>1, RefusedIsNowhere, Zenon DEF ExcessInv
  <2>2. used'[k] = used[k] /\ execs'[k] = execs[k] /\ wrote'[k] = wrote[k] /\ (k \in leased' <=> k \in leased)
    <3>1. CASE Take(w)
      <4>1. Head(jobs) \in Queued
        <5>1. jobs \in Seq(Conns) /\ jobs # <<>> /\ NoRepeats(jobs)
          BY <3>1, TakeCases, Zenon DEF ExchangeTypes, WorkTypes, PlaceInv, OncePlaced
        <5> QED
          BY <5>1, TailOnce, Zenon DEF Queued
      <4>2. UNCHANGED <<used, wrote, leased>> /\ (execs' = execs \/ Run(Head(jobs)))
        BY <3>1, TakeCases, Zenon DEF ExchangeTypes
      <4> QED
        BY <2>1, <4>1, <4>2, Zenon DEF Run, ExchangeTypes, AnswerTypes
    <3>2. CASE OwnRequest(w)
      BY <2>1, <3>2, Zenon DEF OwnRequest
    <3> QED
      BY <3>1, <3>2, ServesOwn, Zenon
  <2> QED
    BY <1>1, <2>1, <2>2, ConfigDecides, EndingKept, Zenon DEF Refused
<1> QED
  BY <1>1, <1>2, Zenon DEF ExcessInv

LEMMA ExcessStep ==
    ExchangeTypes /\ CallInv /\ PlaceInv /\ ExcessInv /\ [Next]_vars => ExcessInv'
<1>1. SUFFICES ASSUME ExchangeTypes, CallInv, PlaceInv, ExcessInv, [Next]_vars PROVE ExcessInv'
  BY Zenon
<1>2. CASE Aside
  BY <1>1, <1>2, AsideKeeps, ExcessAside, Zenon DEF serverRest, clientVars, wireVars, workerVars
<1>3. CASE UNCHANGED vars
  BY <1>1, <1>3, ExcessAside, Zenon DEF vars, clientVars, wireVars, workerVars
<1> QED
  BY <1>1, <1>2, <1>3, NextSteps, ExcessClient, ExcessConsume, ExcessWorker, Zenon

-----------------------------------------------------------------------------
(* The theorems. *)

IInv == ExchangeTypes /\ CallInv /\ PlaceInv /\ AnswerInv /\ SlotInv /\ ExcessInv

LEMMA ExchangeInvariant == Spec => []IInv
<1>1. Init => IInv
  BY InitTypes, InitCall, InitPlace, InitAnswer, InitSlot, Zenon DEF IInv, ExcessInv, Init
<1>2. IInv /\ [Next]_vars => IInv'
  BY TypesStep, CallStep, PlaceStep, AnswerStep, SlotStep, ExcessStep, Zenon DEF IInv
<1> QED
  BY <1>1, <1>2, PTL DEF Spec

\* active_streams is the number of streams that are queued or served, and within
\* max_concurrent_streams, through every failure, deadline and stop: dispatch_stream
\* takes a slot once, and every way a worker leaves a stream gives it back once.
THEOREM SlotsStayExact == Spec => []SlotsExact
<1>1. IInv => SlotsExact
  BY Zenon DEF IInv, SlotInv
<1> QED
  BY <1>1, ExchangeInvariant, PTL

\* However the retries of a client, the reactor and the workers interleave, a handler
\* runs at most once for a connection, never for a request that was not sent, and for
\* a second attempt only under request_idempotent.
THEOREM ExecutionsStayBounded == Spec => []ExecutionsBounded
<1>1. ASSUME IInv PROVE ExecutionsBounded
  <2>1. SUFFICES ASSUME NEW k \in Conns
                 PROVE  /\ execs[k] <= 1
                        /\ execs[k] = 1 =>
                              /\ IF IsStream(k) THEN sent[k] > 0 ELSE sent[k] = RequestUnits(k)
                              /\ k[2] <= attempt[k[1]]
                              /\ Kind(k) = "idempotent" \/ k[2] = 1
    BY Zenon DEF ExecutionsBounded
  <2>2. execs[k] \in {0, 1}
    BY <1>1, Zenon DEF IInv, AnswerInv, AnswerOf
  <2>3. /\ sent[k] \in Nat /\ read[k] \in Nat /\ used[k] \in Nat /\ RequestUnits(k) \in Nat
        /\ RequestUnits(k) >= 2
        /\ used[k] <= read[k] /\ read[k] <= sent[k] /\ sent[k] <= RequestUnits(k)
    BY <1>1, UnitCounts, Zenon DEF IInv, ExchangeTypes, UnitTypes
  <2>4. ASSUME execs[k] = 1
        PROVE  IF IsStream(k) THEN sent[k] > 0 ELSE sent[k] = RequestUnits(k)
    <3>1. Spent(k) /\ (k \in leased => IsStream(k) /\ used[k] > 0)
      BY <1>1, <2>4 DEF IInv, PlaceInv, Untouched
    <3> QED
      BY <2>3, <3>1 DEF Spent
  <2>5. sent[k] > 0 => k[2] <= attempt[k[1]] /\ (Kind(k) = "idempotent" \/ k[2] = 1)
    <3>1. /\ k[1] \in Calls /\ k[2] \in Nat /\ k[2] >= 1 /\ attempt[k[1]] \in Nat
      BY <1>1, ConnParts, ExchangeAssumption DEF IInv, ExchangeTypes, CallTypes
    <3>2. /\ sent[k] > 0 => k[2] <= attempt[k[1]]
          /\ attempt[k[1]] > 1 => Kind(k) = "idempotent"
      BY <1>1, <3>1, Zenon DEF IInv, CallInv, SendInv, Kind
    <3> QED
      BY <3>1, <3>2
  <2> QED
    BY <2>2, <2>3, <2>4, <2>5
<1> QED
  BY <1>1, ExchangeInvariant, PTL

\* The status as the client decodes it is the one the server put in the header.
LEMMA StatusArrives ==
    ASSUME NEW k, status[k] \in {200, 403, 404, 408, 500} PROVE Returned(k) = status[k]
<1>1. DecodeHeader(ResponseHeader(k, 1)).arg1 = GetU32(PutU32(status[k]))
  BY Zenon DEF DecodeHeader, ResponseHeader, EncodeHeader
<1>2. \A v \in {200, 403, 404, 408, 500} : GetU32(PutU32(v)) = v
  BY DEF GetU32, PutU32
<1> QED
  BY <1>1, <1>2 DEF Returned

\* The status a call returns tells whether the handler ran for its last attempt, and
\* the request of that attempt was read to its end before the answer.
THEOREM AnswersTellExecution == Spec => []AnswerTellsExecution
<1>1. ASSUME IInv PROVE AnswerTellsExecution
  <2>1. ASSUME NEW c \in Calls, outcome[c] = "answered" PROVE Cur(c) \in Conns /\ Settled(Cur(c))
    BY <1>1, <2>1, CurrentConn, Zenon
       DEF IInv, ExchangeTypes, CallInv, ReturnInv, AnswerInv, AnswerOf
  <2> QED
    BY <2>1, StatusArrives DEF AnswerTellsExecution, Settled, Read, Tells
<1> QED
  BY <1>1, ExchangeInvariant, PTL

\* A stream above max_concurrent_streams is never served, and its call ends with the
\* error for a closed connection, its deadline, or its own limit on the body.
THEOREM ExcessStreamsClose == Spec => []ExcessClosed
<1>1. IInv => ExcessClosed
  BY Zenon DEF IInv, ExcessInv, Refused, Ending, Overlong, ExcessClosed
<1> QED
  BY <1>1, ExchangeInvariant, PTL
=============================================================================
