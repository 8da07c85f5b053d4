----------------------------- MODULE FlowControl -----------------------------
(***************************************************************************)
(* Input backpressure of the reactor (flow_control.cpp), with its callers: *)
(* consume and begin_request_payload on the reactor thread, and worker     *)
(* threads that answer requests, close connections and read on.            *)
(*                                                                         *)
(* A request is two halves on the wire, its header and its payload; the    *)
(* parser's position is the number of halves it has consumed.  With        *)
(* max_total_inflight_bytes = 0 the parser reads ahead and pauses after a  *)
(* dispatch, and the worker that ends a connection's last request may read *)
(* the next one itself; otherwise the parser reads half by half and        *)
(* reserves a request's bytes, first per connection and then globally,     *)
(* before its payload.  A size_t that a release takes below zero wraps to  *)
(* more than any limit: here it stays negative, which no comparison with a *)
(* limit takes for room.                                                   *)
(***************************************************************************)
EXTENDS Integers, Sequences, FiniteSetsExt

CONSTANTS Conns,        \* client connections
          PoolWorkers,  \* regular worker threads
          NoRequest,    \* what a worker without a request holds
          Sizes,        \* Sizes[c]: declared bytes of c's successive requests
          MaxMessage,   \* max_message_size
          MaxRequests,  \* max_inflight_requests_per_connection
          MaxBytes,     \* max_inflight_request_bytes_per_connection
          Budgets       \* values of max_total_inflight_bytes, 0 for no aggregate budget

ASSUME LimitsAssumption ==
    /\ MaxRequests \in Nat \ {0} /\ MaxBytes \in Nat \ {0} /\ Budgets \subseteq Nat
    /\ MaxMessage \in Nat /\ IsFiniteSet(PoolWorkers)

\* validate_request_lengths: a route is not empty, and a request not too long.
ASSUME SizesAssumption ==
    \A c \in Conns : Sizes[c] \in Seq(1..MaxMessage) /\ Len(Sizes[c]) > 0

Requests == UNION {{c} \X DOMAIN Sizes[c] : c \in Conns}
SizeOf(r) == Sizes[r[1]][r[2]]

VARIABLES arrived,    \* halves the kernel holds or has delivered, per connection
          read,       \* halves read into ReactorConnection::pending
          consumed,   \* halves the parser has taken
          reserved,   \* reserved_request_bytes # 0
          open,       \* in the connection map and not closing
          paused,     \* read_paused
          resumed,    \* resumed_connections
          leased,     \* worker_owned
          reqs,       \* inflight_requests
          bytes,      \* inflight_request_bytes
          total,      \* total_inflight_request_bytes
          pendingJobs,
          readPc, cur,   \* the reactor's position and connection
          after,      \* where consume goes on once a request is admitted
          poolPc, poolReq,  \* each worker's position and request
          last,       \* workers whose request was its connection's last active one
          unbacked,   \* history: requests dispatched after their reservation was given back
          maxTotal    \* the server's max_total_inflight_bytes, which never changes

Strict == maxTotal # 0

parser == <<arrived, read, consumed, reserved, open>>
counters == <<reqs, bytes, total>>
gates == <<paused, resumed, leased>>
reactor == <<readPc, cur, after>>
pool == <<poolPc, poolReq, last>>
queue == <<pendingJobs, unbacked>>
flowVars == <<parser, counters, gates, reactor, pool, queue, maxTotal>>

FlowTypeOK ==
    /\ \A f \in {arrived, read, consumed} : f \in [Conns -> Nat]
    /\ \A c \in Conns : consumed[c] <= read[c] /\ read[c] <= arrived[c]
    /\ \A f \in {reserved, open, paused} : f \in [Conns -> BOOLEAN]
    /\ resumed \subseteq Conns /\ leased \subseteq Conns
    /\ \A f \in {reqs, bytes} : f \in [Conns -> Int]
    /\ total \in Int
    /\ pendingJobs \in Seq(Requests) /\ unbacked \subseteq Requests
    /\ readPc \in {"idle", "reserve", "global", "rollback", "pause", "read", "parse",
                   "check", "close", "release"}
    /\ cur \in Conns /\ after \in {"read", "parse"}
    /\ poolPc \in [PoolWorkers -> {"idle", "running", "closed", "release", "resume",
                                   "lease", "continue"}]
    /\ poolReq \in [PoolWorkers -> Requests \cup {NoRequest}]
    /\ last \subseteq PoolWorkers
    /\ maxTotal \in Budgets

FlowInit ==
    /\ arrived = [c \in Conns |-> 0] /\ read = arrived /\ consumed = arrived
    /\ reserved = [c \in Conns |-> FALSE] /\ paused = reserved
    /\ open = [c \in Conns |-> TRUE]
    /\ resumed = {} /\ leased = {} /\ pendingJobs = <<>> /\ unbacked = {}
    /\ reqs = [c \in Conns |-> 0] /\ bytes = reqs /\ total = 0
    /\ readPc = "idle" /\ cur \in Conns /\ after = "read"
    /\ poolPc = [w \in PoolWorkers |-> "idle"] /\ poolReq = [w \in PoolWorkers |-> NoRequest]
    /\ last = {}
    /\ maxTotal \in Budgets

-----------------------------------------------------------------------------
\* The watermarks.

\* Comparisons of a size_t with a limit.
AtMost(count, limit) == count \in 0..limit
AtLeast(count, limit) == count < 0 \/ count >= limit

BelowResumeWatermark(c) ==
    /\ ~Strict \/ AtMost(total, maxTotal \div 2)
    /\ AtMost(reqs[c], MaxRequests \div 2)
    /\ AtMost(bytes[c], MaxBytes \div 2)

AbovePauseWatermark(c) ==
    \/ Strict /\ AtLeast(total, maxTotal)
    \/ AtLeast(reqs[c], MaxRequests)
    \/ AtLeast(bytes[c], MaxBytes)

\* resume_paused_connections(released): with an aggregate budget any
\* connection may have become ready.
Resumable(released) ==
    {c \in IF Strict THEN Conns ELSE {released} :
        paused[c] /\ open[c] /\ BelowResumeWatermark(c)}

\* Faulty: does not queue what it resumes.
ResumeUnqueued(released) ==
    /\ paused' = [c \in Conns |-> paused[c] /\ c \notin Resumable(released)]
    /\ UNCHANGED <<resumed, leased>>

ResumePaused(released) ==
    /\ paused' = [c \in Conns |-> paused[c] /\ c \notin Resumable(released)]
    /\ resumed' = resumed \cup Resumable(released)
    /\ UNCHANGED leased

-----------------------------------------------------------------------------
\* The client.

ClientSends(c) ==
    /\ open[c] /\ arrived[c] < 2 * Len(Sizes[c])
    /\ arrived' = [arrived EXCEPT ![c] = @ + 1]
    /\ UNCHANGED <<read, consumed, reserved, open, counters, gates, reactor, pool, queue>>

-----------------------------------------------------------------------------
\* consume on the reactor thread.

Parsed(c) == <<c, (consumed[c] + 1) \div 2>>   \* the request whose payload c awaits
Current == Parsed(cur)

AwaitsBudget(c) == Strict /\ consumed[c] % 2 = 1 /\ ~reserved[c]

Enter(c) ==
    /\ cur' = c /\ after' = "read"
    /\ readPc' = IF AwaitsBudget(c) THEN "reserve" ELSE "read"

\* consume returns; a connection that is closing by now is closed.
Leave == readPc' = IF open[cur] THEN "idle" ELSE "close"

ReadableEvent(c) ==
    /\ readPc = "idle" /\ open[c] /\ ~paused[c] /\ c \notin leased /\ read[c] < arrived[c]
    /\ Enter(c)
    /\ UNCHANGED <<parser, counters, gates, pool, queue>>

\* process_resumed_connections drops an entry that closed, paused again or is leased.
ProcessResumed(c) ==
    /\ readPc = "idle" /\ c \in resumed
    /\ resumed' = resumed \ {c}
    /\ IF open[c] /\ ~paused[c] /\ c \notin leased THEN Enter(c) ELSE UNCHANGED reactor
    /\ UNCHANGED <<parser, paused, leased, counters, pool, queue>>

Read ==
    /\ readPc = "read"
    /\ read' = [read EXCEPT ![cur] =
           IF Strict THEN Min({arrived[cur], consumed[cur] + 1}) ELSE arrived[cur]]
    /\ readPc' = "parse"
    /\ UNCHANGED <<arrived, consumed, reserved, open, counters, gates, cur, after,
                   pool, queue>>

ParseDone ==
    /\ readPc = "parse" /\ consumed[cur] = read[cur]
    /\ Leave
    /\ UNCHANGED <<parser, counters, gates, cur, after, pool, queue>>

ParseHeader ==
    /\ readPc = "parse" /\ consumed[cur] < read[cur] /\ consumed[cur] % 2 = 0
    /\ consumed' = [consumed EXCEPT ![cur] = @ + 1]
    /\ readPc' = IF Strict THEN "reserve" ELSE "parse"
    /\ after' = "parse"
    /\ UNCHANGED <<arrived, read, reserved, open, counters, gates, cur, pool, queue>>

\* try_reserve_connection_request_bytes: the connection's share first, then the
\* aggregate one, giving the first back when the second is refused.
ReserveConnection ==
    /\ readPc = "reserve"
    /\ LET size == SizeOf(Current)
           fits == AtMost(bytes[cur], MaxBytes - size)
       IN  /\ bytes' = [bytes EXCEPT ![cur] = IF fits THEN @ + size ELSE @]
           /\ readPc' = IF fits THEN "global" ELSE "pause"
    /\ UNCHANGED <<parser, reqs, total, gates, cur, after, pool, queue>>

\* Faulty: tests the budget before it adds the request.
ReserveGlobalLate ==
    /\ readPc = "global"
    /\ LET fits == AtMost(total, maxTotal)
       IN  /\ total' = IF fits THEN total + SizeOf(Current) ELSE total
           /\ reserved' = [reserved EXCEPT ![cur] = fits]
           /\ readPc' = IF fits THEN after ELSE "rollback"
    /\ UNCHANGED <<arrived, read, consumed, open, reqs, bytes, gates, cur, after,
                   pool, queue>>

ReserveGlobal ==
    /\ readPc = "global"
    /\ LET size == SizeOf(Current)
           fits == AtMost(total, maxTotal - size)
       IN  /\ total' = IF fits THEN total + size ELSE total
           /\ reserved' = [reserved EXCEPT ![cur] = fits]
           /\ readPc' = IF fits THEN after ELSE "rollback"
    /\ UNCHANGED <<arrived, read, consumed, open, reqs, bytes, gates, cur, after,
                   pool, queue>>

ReserveRollback ==
    /\ readPc = "rollback"
    /\ bytes' = [bytes EXCEPT ![cur] = @ - SizeOf(Current)]
    /\ readPc' = "pause"
    /\ UNCHANGED <<parser, reqs, total, gates, cur, after, pool, queue>>

\* The payload is complete: dispatch_request and enqueue_worker_job.  A
\* reservation passes to the job, whether or not the parser still has it; without a
\* budget the request is accounted for here.
Dispatch ==
    /\ readPc = "parse" /\ consumed[cur] < read[cur] /\ consumed[cur] % 2 = 1
    /\ LET size == IF Strict THEN 0 ELSE SizeOf(Current)
       IN  /\ bytes' = [bytes EXCEPT ![cur] = @ + size]
           /\ total' = total + size
    /\ reqs' = [reqs EXCEPT ![cur] = @ + 1]
    /\ pendingJobs' = Append(pendingJobs, Current)
    /\ unbacked' = IF AwaitsBudget(cur) THEN unbacked \cup {Current} ELSE unbacked
    /\ consumed' = [consumed EXCEPT ![cur] = @ + 1]
    /\ reserved' = [reserved EXCEPT ![cur] = FALSE]
    /\ readPc' = "check"
    /\ UNCHANGED <<arrived, read, open, gates, cur, after, pool>>

\* pause_connection_reads_if_needed decides under one lock ...
PauseIfNeeded ==
    /\ readPc = "check"
    /\ readPc' = IF AbovePauseWatermark(cur) THEN "pause" ELSE "parse"
    /\ UNCHANGED <<parser, counters, gates, cur, after, pool, queue>>

\* ... and pause_connection_reads acts under another; consume then returns.
Pause ==
    /\ readPc = "pause"
    /\ paused' = [paused EXCEPT ![cur] = TRUE]
    /\ Leave
    /\ UNCHANGED <<parser, counters, resumed, leased, cur, after, pool, queue>>

-----------------------------------------------------------------------------
\* close_connection takes the reservation of a partly received request from the
\* parser under the lock, and gives it back after; resume_paused_connections follows.

Closing(c) ==
    /\ open' = [open EXCEPT ![c] = FALSE]
    /\ reserved' = [reserved EXCEPT ![c] = FALSE]
    /\ LET held == IF reserved[c] THEN SizeOf(Parsed(c)) ELSE 0
       IN  /\ bytes' = [bytes EXCEPT ![c] = @ - held]
           /\ total' = total - held

\* The reactor: on hangup or expiry, or because a worker has set closing.
Close(c) ==
    /\ readPc = "idle" /\ (open[c] \/ reserved[c])
    /\ Closing(c)
    /\ readPc' = IF reserved[c] THEN "release" ELSE "idle"
    /\ cur' = c
    /\ UNCHANGED <<arrived, read, consumed, reqs, gates, after, pool, queue>>

\* The reactor, after consume.
CloseConsumed ==
    /\ readPc = "close"
    /\ Closing(cur)
    /\ readPc' = IF reserved[cur] THEN "release" ELSE "idle"
    /\ UNCHANGED <<arrived, read, consumed, reqs, gates, cur, after, pool, queue>>

CloseResume ==
    /\ readPc = "release"
    /\ ResumePaused(cur)
    /\ readPc' = "idle"
    /\ UNCHANGED <<parser, counters, cur, after, pool, queue>>

-----------------------------------------------------------------------------
\* worker_loop: take a request, answer it, release_connection_request.

\* active_regular: the requests of c that are queued or with a worker.
Executing(c) == {w \in PoolWorkers : poolPc[w] \in {"running", "closed"} /\ poolReq[w][1] = c}
QueuedOf(c) == {i \in DOMAIN pendingJobs : pendingJobs[i][1] = c}

TakeJob(w) ==
    /\ poolPc[w] = "idle" /\ pendingJobs # <<>>
    /\ poolReq' = [poolReq EXCEPT ![w] = Head(pendingJobs)]
    /\ pendingJobs' = Tail(pendingJobs)
    /\ poolPc' = [poolPc EXCEPT ![w] = "running"]
    /\ UNCHANGED <<parser, counters, gates, reactor, last, unbacked>>

\* complete_regular_request takes the request off active_regular first.
Completed(w) ==
    LET c == poolReq[w][1] IN
    /\ poolPc' = [poolPc EXCEPT ![w] = "release"]
    /\ last' = IF Executing(c) = {w} /\ QueuedOf(c) = {} THEN last \cup {w} ELSE last

\* The handler has run and its response is written or queued, or the write fails and
\* sets closing.
Respond(w) ==
    /\ poolPc[w] = "running"
    /\ open' \in {open, [open EXCEPT ![poolReq[w][1]] = FALSE]}
    /\ Completed(w)
    /\ UNCHANGED <<arrived, read, consumed, reserved, counters, gates, reactor, poolReq, queue>>

\* The response exceeds the output budget: the worker closes the connection itself,
\* wherever the reactor is.
Overflow(w) ==
    LET c == poolReq[w][1] IN
    /\ poolPc[w] = "running"
    /\ Closing(c)
    /\ IF reserved[c] THEN poolPc' = [poolPc EXCEPT ![w] = "closed"] /\ UNCHANGED last
                      ELSE Completed(w)
    /\ UNCHANGED <<arrived, read, consumed, reqs, gates, reactor, poolReq, queue>>

OverflowResume(w) ==
    /\ poolPc[w] = "closed"
    /\ ResumePaused(poolReq[w][1])
    /\ Completed(w)
    /\ UNCHANGED <<parser, counters, reactor, poolReq, queue>>

\* Faulty: leaves the aggregate count alone.
ReleaseOwn(w) ==
    /\ poolPc[w] = "release"
    /\ bytes' = [bytes EXCEPT ![poolReq[w][1]] = @ - SizeOf(poolReq[w])]
    /\ reqs' = [reqs EXCEPT ![poolReq[w][1]] = @ - 1]
    /\ poolPc' = [poolPc EXCEPT ![w] = "resume"]
    /\ UNCHANGED <<parser, total, gates, reactor, poolReq, last, queue>>

Release(w) ==
    /\ poolPc[w] = "release"
    /\ LET c == poolReq[w][1]
           size == SizeOf(poolReq[w])
       IN  /\ bytes' = [bytes EXCEPT ![c] = @ - size]
           /\ reqs' = [reqs EXCEPT ![c] = @ - 1]
           /\ total' = total - size
    /\ poolPc' = [poolPc EXCEPT ![w] = "resume"]
    /\ UNCHANGED <<parser, gates, reactor, poolReq, last, queue>>

\* The worker of the last request goes on to ask for a continuation lease.
Resume(w) ==
    /\ poolPc[w] = "resume"
    /\ ResumePaused(poolReq[w][1])
    /\ IF w \in last /\ open[poolReq[w][1]] /\ ~Strict
       THEN poolPc' = [poolPc EXCEPT ![w] = "lease"] /\ UNCHANGED poolReq
       ELSE /\ poolPc' = [poolPc EXCEPT ![w] = "idle"]
            /\ poolReq' = [poolReq EXCEPT ![w] = NoRequest]
    /\ last' = last \ {w}
    /\ UNCHANGED <<parser, counters, reactor, queue>>

-----------------------------------------------------------------------------
\* try_acquire_continuation_lease and continue_connection, without a budget.

\* Nothing of c is active, buffered, paused or in the reactor's hands.
Leasable(c) ==
    /\ open[c] /\ c \notin leased /\ ~paused[c]
    /\ Executing(c) = {} /\ QueuedOf(c) = {}
    /\ consumed[c] = read[c] /\ consumed[c] % 2 = 0
    /\ ~(cur = c /\ readPc # "idle")

Idle(w) ==
    /\ poolPc' = [poolPc EXCEPT ![w] = "idle"]
    /\ poolReq' = [poolReq EXCEPT ![w] = NoRequest]

\* The lease is refused, also to a peer that is not session_capable, or granted.
AcquireLease(w) ==
    LET c == poolReq[w][1] IN
    /\ poolPc[w] = "lease"
    /\ \/ Idle(w) /\ UNCHANGED leased
       \/ /\ Leasable(c)
          /\ leased' = leased \cup {c}
          /\ poolPc' = [poolPc EXCEPT ![w] = "continue"] /\ UNCHANGED poolReq
    /\ UNCHANGED <<parser, counters, paused, resumed, reactor, last, queue>>

\* The worker reads one request from the socket, accounts for it without a look at
\* the watermarks, and rearms the connection before it serves the request.
Continue(w) ==
    LET c == poolReq[w][1]
        next == <<c, consumed[c] \div 2 + 1>> IN
    /\ poolPc[w] = "continue" /\ read[c] + 2 <= arrived[c]
    /\ read' = [read EXCEPT ![c] = @ + 2] /\ consumed' = [consumed EXCEPT ![c] = @ + 2]
    /\ reqs' = [reqs EXCEPT ![c] = @ + 1]
    /\ bytes' = [bytes EXCEPT ![c] = @ + SizeOf(next)] /\ total' = total + SizeOf(next)
    /\ leased' = leased \ {c} /\ paused' = [paused EXCEPT ![c] = FALSE]
    /\ poolReq' = [poolReq EXCEPT ![w] = next] /\ poolPc' = [poolPc EXCEPT ![w] = "running"]
    /\ UNCHANGED <<arrived, reserved, open, resumed, reactor, last, queue>>

\* The grace period ends, a stream frame is left to the reactor, or reading fails and
\* closes the connection.
ContinueNothing(w) ==
    LET c == poolReq[w][1] IN
    /\ poolPc[w] = "continue"
    /\ open' \in {open, [open EXCEPT ![c] = FALSE]}
    /\ leased' = leased \ {c} /\ paused' = [paused EXCEPT ![c] = FALSE]
    /\ Idle(w)
    /\ UNCHANGED <<arrived, read, consumed, reserved, counters, resumed, reactor, last, queue>>

FlowReactor ==
    \/ Read \/ ParseDone \/ ParseHeader \/ Dispatch \/ PauseIfNeeded \/ Pause
    \/ ReserveConnection \/ ReserveGlobal \/ ReserveRollback
    \/ CloseConsumed \/ CloseResume
    \/ \E c \in Conns : ReadableEvent(c) \/ ProcessResumed(c)

PoolWorker(w) ==
    \/ TakeJob(w) \/ Respond(w) \/ Overflow(w) \/ OverflowResume(w) \/ Release(w)
    \/ Resume(w) \/ AcquireLease(w) \/ Continue(w) \/ ContinueNothing(w)

FlowNext ==
    /\ \/ \E c \in Conns : ClientSends(c) \/ Close(c)
       \/ FlowReactor
       \/ \E w \in PoolWorkers : PoolWorker(w)
    /\ UNCHANGED maxTotal

FlowSpec == FlowInit /\ [][FlowNext]_flowVars

-----------------------------------------------------------------------------
\* Properties.

\* Requests dispatched and not yet released, by the queue or by a worker.
Outstanding ==
    {pendingJobs[i] : i \in DOMAIN pendingJobs} \cup
    {poolReq[w] : w \in {v \in PoolWorkers : poolPc[v] \in {"running", "closed", "release"}}}

OutstandingOf(c) == {r \in Outstanding : r[1] = c}

\* The request whose bytes the parser holds for c: a reservation, or the connection's
\* half of one that is being made or taken back.
ReservedOf(c) ==
    IF reserved[c] \/ (cur = c /\ readPc \in {"global", "rollback"}) THEN {Parsed(c)} ELSE {}

Admitted == Outstanding \cup {Parsed(c) : c \in {d \in Conns : reserved[d]}}

\* The declared bytes of a set of requests, one by one.
BytesOf(S) == UNION {{r} \X (1..SizeOf(r)) : r \in S}

\* Neither a refused reservation, nor a pause, nor a continuation lease, nor a
\* connection that closes in the middle of a request, by the reactor or by a worker,
\* loses or duplicates a count: the counters of flow_control.cpp are what is queued,
\* running or reserved, less the bytes that were given back before their request was
\* dispatched.  No connection that is still open has such a request.
AccountingExact ==
    /\ \A c \in Conns :
          /\ reqs[c] = Cardinality(OutstandingOf(c))
          /\ bytes[c] = Cardinality(BytesOf(OutstandingOf(c) \cup ReservedOf(c)))
                        - Cardinality(BytesOf({r \in unbacked : r[1] = c}))
          /\ open[c] => {r \in unbacked : r[1] = c} = {}
    /\ total = Cardinality(BytesOf(Admitted)) - Cardinality(BytesOf(unbacked))

Larger(a, b) == IF a > b THEN a ELSE b

RequestCap ==
    IF Strict THEN MaxRequests ELSE Larger(MaxRequests, Cardinality(PoolWorkers) + 1)

ByteCap ==
    IF Strict THEN MaxBytes
              ELSE Larger(MaxBytes - 1, Cardinality(PoolWorkers) * MaxMessage) + MaxMessage

\* Input is bounded per connection and, with a budget, across the server.  Without a
\* budget the parser tests the limits only after a request is dispatched, and a
\* continuation read does not test them: it follows the last active request, when each
\* other worker has at most one request of the connection that is answered and not
\* released yet.
InputBounded ==
    /\ \A c \in Conns : reqs[c] <= RequestCap /\ bytes[c] <= ByteCap
    /\ Strict => total <= maxTotal

\* README: with a budget, "partial, queued, and executing requests share one strict
\* logical-byte budget".
StrictBudget == Strict => Cardinality(BytesOf(Admitted)) <= maxTotal

\* Input that no readiness event will announce again is not forgotten: halves
\* already read, or a header waiting for budget, belong to a connection that is
\* paused, queued in resumed_connections, or in consume now.
BufferedIsQueued ==
    \A c \in Conns :
        open[c] /\ (consumed[c] < read[c] \/ AwaitsBudget(c)) =>
            paused[c] \/ c \in resumed \/ (cur = c /\ readPc # "idle")

\* options.md: the reactor "resumes below the low-water mark".  Only a release
\* resumes a connection, so one that is paused below every mark still has a
\* request to release, or a thread between its release and the resume.
PausedIsResumed ==
    \A c \in Conns :
        open[c] /\ paused[c] /\ BelowResumeWatermark(c) =>
            \/ OutstandingOf(c) # {}
            \/ Strict /\ Outstanding # {}
            \/ \E w \in PoolWorkers : poolPc[w] \in {"closed", "resume"}
            \/ readPc = "release"
=============================================================================
