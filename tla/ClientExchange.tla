---------------------------- MODULE ClientExchange ----------------------------
(***************************************************************************)
(* One-shot calls of several clients against one server, from the connect  *)
(* to the answer: a fixed request, a fixed request repeated when it fails  *)
(* (request_idempotent), a request that carries a descriptor, and a        *)
(* half-duplex stream.                                                     *)
(*                                                                         *)
(* Every attempt of a call has a connection of its own, <<call, attempt>>, *)
(* which the server may still hold, queue or execute after the client gave *)
(* it up.  The bytes of a direction are counted in units: the units of a   *)
(* direction are fixed by the kind of the call, so a counter of the units  *)
(* sent and a counter of the units read stand for what is in the socket.   *)
(* A fixed request has two units, a stream one per frame.                  *)
(*                                                                         *)
(* The server is one reactor (accept, read, dispatch, hang-up), a pool of  *)
(* workers, and the steps of a stop that runs beside them.                 *)
(***************************************************************************)
EXTENDS WireCodec, Sequences, FiniteSets, FiniteSetsExt

CONSTANTS
    Calls,          \* the calls the clients make
    Workers,        \* the threads of the worker pool
    Configs,        \* the configurations of a run: see Init
    MaxAttempts,    \* RetryOptions::max_attempts
    InitialBackoff, MaxBackoff,
    Chunks,         \* data frames of a stream, in each direction
    SocketRoom      \* units one direction of a socket holds

ASSUME ExchangeAssumption ==
    /\ MaxAttempts \in Nat \ {0} /\ Chunks \in Nat /\ SocketRoom \in Nat \ {0}
    /\ InitialBackoff \in Nat /\ MaxBackoff \in Nat /\ InitialBackoff <= MaxBackoff
    /\ IsFiniteSet(Calls)
    /\ \A f \in Configs :
          /\ f.kind \in [Calls -> {"none", "request", "idempotent", "fd", "stream"}]
          /\ f.verdict \in [Calls -> {"ok", "throws", "unknown", "denied", "hookThrows"}]
          /\ f.maxStreams \in Nat /\ f.clientStream \in Nat

VARIABLES
    config,         \* the configuration, chosen in Init
    cpc,            \* where each call is
    attempt,        \* its attempt, from 1
    outcome,        \* what the call returned or threw
    backoff,        \* the pause before its next attempt
    sent, read,     \* units of the request in the socket's past: written, read by the server
    used,           \* units of a stream's request its worker consumed
    wrote, got,     \* units of the response: written, read by the client
    status,         \* the status the server answers
    fds,            \* the units of a request a descriptor was sent with
    cliShut, srvShut, \* the end of a connection that is closed
    unconnected,    \* connections the full backlog turned away
    backlog, entries, closing, leased, active,
    jobs, wpc, work, execs,
    streams, rejected,
    listening, running, stopping, reactor, spc

clientVars == <<cpc, attempt, outcome, backoff>>
wireVars == <<sent, fds, got, cliShut, unconnected>>
workerVars == <<jobs, wpc, work, execs, streams>>
stopVars == <<listening, running, stopping, reactor, spc>>
vars == <<config, clientVars, wireVars, workerVars, stopVars, read, used, wrote, status, srvShut,
          backlog, entries, closing, leased, active, rejected>>

Conns == Calls \X (1..MaxAttempts)
Cur(c) == <<c, attempt[c]>>
Kind(k) == config.kind[k[1]]
IsStream(k) == Kind(k) = "stream"
HasFd(k) == Kind(k) = "fd"

RequestUnits(k) == IF IsStream(k) THEN Chunks + 2 ELSE 2
ResponseUnits(k) == IF ~IsStream(k) THEN 1 ELSE IF status[k] = 200 THEN Chunks + 2 ELSE 2

\* What becomes of a request once a worker has it: its handler returns or throws, it
\* has no handler, or (a fixed request) the authorization hook turns it away or throws.
\* A fixed answer above max_message_size is replaced by an error.
Verdict(k) == config.verdict[k[1]]
Statuses == [ok |-> 200, throws |-> 500, unknown |-> 404, denied |-> 403,
             hookThrows |-> 500]
Status(k) == IF ~IsStream(k) /\ Verdict(k) = "ok" /\ config.answer > config.serverMax
             THEN 500 ELSE Statuses[Verdict(k)]
Handled(k) == Verdict(k) \in {"ok", "throws"}

\* A route and a body have size 1 each, a chunk of a request ChunkSize, and the body of
\* an error 1; a handler answers with config.answer, in a body or in a chunk.  A limit
\* on the total of a stream that is 0 is no limit.
ChunkSize == 2
Length == 2
AnswerSize(k) == IF status[k] = 200 THEN config.answer ELSE 1
Within(chunks, size, limit) == limit = 0 \/ chunks * size <= limit

\* The header that leads a unit of the request, and of the response.
RequestHeader(k, i) ==
    IF ~IsStream(k)
    THEN EncodeHeader(Types.request, 0, 1, 1, IF HasFd(k) THEN CarriesFd ELSE 0, config.version)
    ELSE IF i = 1 THEN EncodeHeader(Types.streamRequest, 0, 1, 0, 0, config.version)
    ELSE IF i < RequestUnits(k)
         THEN EncodeHeader(Types.streamRequestChunk, 0, ChunkSize, 0, 0, config.version)
         ELSE EncodeHeader(Types.streamRequestEnd, 0, 0, 0, 0, config.version)

ResponseHeader(k, i) ==
    IF ~IsStream(k) THEN EncodeHeader(Types.response, 0, status[k], AnswerSize(k), 0, config.version)
    ELSE IF i = 1 THEN EncodeHeader(Types.streamResponse, 0, status[k], 0, 0, config.version)
    ELSE IF i < ResponseUnits(k)
         THEN EncodeHeader(Types.streamResponseChunk, 0, AnswerSize(k), 0, 0, config.version)
         ELSE EncodeHeader(Types.streamResponseEnd, 0, 0, 0, 0, config.version)

\* A frame of a stream after its first: a chunk with bytes, or the end.
StreamFrame(h, chunk, end) ==
    /\ Accepts(h)
    /\ \E d \in {DecodeHeader(h)} :
          /\ d.id = 0 /\ d.arg2 = 0
          /\ \/ d.type = end /\ d.arg1 = 0
             \/ d.type = chunk /\ d.arg1 # 0

Init ==
    /\ config \in Configs
    /\ cpc = [c \in Calls |-> "idle"]
    /\ attempt = [c \in Calls |-> 1]
    /\ outcome = [c \in Calls |-> "none"]
    /\ backoff = [c \in Calls |-> InitialBackoff]
    /\ sent = [k \in Conns |-> 0] /\ read = [k \in Conns |-> 0] /\ used = [k \in Conns |-> 0]
    /\ wrote = [k \in Conns |-> 0] /\ got = [k \in Conns |-> 0]
    /\ status = [k \in Conns |-> 0]
    /\ fds = [k \in Conns |-> {}]
    /\ cliShut = {} /\ srvShut = {} /\ unconnected = {} /\ rejected = {}
    /\ backlog = <<>> /\ entries = {} /\ closing = {} /\ leased = {} /\ active = {}
    /\ jobs = <<>>
    /\ wpc = [w \in Workers |-> "idle"]
    /\ work = [w \in Workers |-> <<>>]
    /\ execs = [k \in Conns |-> 0]
    /\ streams = 0
    /\ listening = FALSE /\ running = FALSE /\ stopping = FALSE
    /\ reactor = "off" /\ spc = "absent"

-----------------------------------------------------------------------------
(* The client. *)

\* How an error of the system is reported, for the errors a one-shot call meets.
Classified == [ETIMEDOUT |-> "timeout", EPIPE |-> "closed", ENOTCONN |-> "closed",
               ECONNRESET |-> "closed", ENOENT |-> "unavailable", ECONNREFUSED |-> "unavailable"]

Retryable == {"timeout", "closed", "unavailable"}

\* Faulty: every failed call is repeated.
FailRepeats(c, why) ==
    /\ cliShut' = cliShut \cup {Cur(c)}
    /\ IF why \in Retryable /\ attempt[c] < MaxAttempts
       THEN cpc' = [cpc EXCEPT ![c] = "backoff"] /\ UNCHANGED outcome
       ELSE cpc' = [cpc EXCEPT ![c] = "done"] /\ outcome' = [outcome EXCEPT ![c] = why]

\* The exception that ends an attempt: the socket is closed on the way out, and
\* request_idempotent decides whether there is another attempt.
Fail(c, why) ==
    /\ cliShut' = cliShut \cup {Cur(c)}
    /\ IF config.kind[c] = "idempotent" /\ why \in Retryable /\ attempt[c] < MaxAttempts
       THEN cpc' = [cpc EXCEPT ![c] = "backoff"] /\ UNCHANGED outcome
       ELSE cpc' = [cpc EXCEPT ![c] = "done"] /\ outcome' = [outcome EXCEPT ![c] = why]

\* The lengths are checked before there is a socket.
Begin(c) ==
    /\ cpc[c] = "idle" /\ config.kind[c] # "none"
    /\ IF (IF config.kind[c] = "stream" THEN 1 ELSE Length) > config.clientMax
       THEN cpc' = [cpc EXCEPT ![c] = "done"] /\ outcome' = [outcome EXCEPT ![c] = "length"]
       ELSE cpc' = [cpc EXCEPT ![c] = "connect"] /\ UNCHANGED outcome
    /\ UNCHANGED <<config, attempt, backoff, wireVars, workerVars, stopVars, read, used,
                   wrote, status, srvShut, backlog, entries, closing, leased, active, rejected>>

\* connect_nonblocking returns at once: refused without a listener, queued in the
\* backlog, or, with the backlog full, on a socket that is not connected.
Connect(c) ==
    /\ cpc[c] = "connect"
    /\ \/ /\ ~listening
          /\ \E error \in {"ENOENT", "ECONNREFUSED"} : Fail(c, Classified[error])
          /\ UNCHANGED <<backlog, unconnected>>
       \/ /\ listening
          /\ cpc' = [cpc EXCEPT ![c] = "send"]
          /\ IF Len(backlog) < config.backlog
             THEN backlog' = Append(backlog, Cur(c)) /\ UNCHANGED unconnected
             ELSE unconnected' = unconnected \cup {Cur(c)} /\ UNCHANGED backlog
          /\ UNCHANGED <<outcome, cliShut>>
    /\ UNCHANGED <<config, attempt, backoff, sent, fds, got, workerVars, stopVars, read, used,
                   wrote, status, srvShut, entries, closing, leased, active, rejected>>

\* The descriptor goes with the first part of the request the socket takes.
Attach(k) ==
    fds' = IF HasFd(k) /\ sent[k] = 0 THEN [fds EXCEPT ![k] = {1}] ELSE fds

\* One write: what the socket takes of a fixed request, or one frame of a stream.  A
\* chunk that takes a stream past the client's own limit is not sent.
Send(c) ==
    LET k == Cur(c)
        tooLong == /\ IsStream(k) /\ 0 < sent[k] /\ sent[k] + 1 < RequestUnits(k)
                   /\ ~Within(sent[k], ChunkSize, config.clientStream)
    IN  /\ cpc[c] = "send"
        /\ \/ tooLong /\ Fail(c, "length") /\ UNCHANGED <<sent, fds>>
           \/ /\ ~tooLong /\ k \in unconnected \cup srvShut
              /\ Fail(c, Classified[IF k \in unconnected THEN "ENOTCONN" ELSE "EPIPE"])
              /\ UNCHANGED <<sent, fds>>
           \/ /\ ~tooLong /\ k \notin unconnected \cup srvShut
              /\ \E n \in 1..(IF IsStream(k) THEN 1 ELSE 2) :
                    /\ sent[k] + n <= RequestUnits(k)
                    /\ sent[k] + n - read[k] <= SocketRoom
                    /\ sent' = [sent EXCEPT ![k] = @ + n]
                    /\ Attach(k)
                    /\ cpc' = [cpc EXCEPT ![c] =
                                  IF sent[k] + n = RequestUnits(k) THEN "receive" ELSE @]
              /\ UNCHANGED <<outcome, cliShut>>
        /\ UNCHANGED <<config, attempt, backoff, got, unconnected, workerVars, stopVars, read, used,
                       wrote, status, srvShut, backlog, entries, closing, leased, active,
                       rejected>>

\* What the client finds wrong with unit i of the response.
ResponseFault(k, i) ==
    LET first == IF IsStream(k) THEN Types.streamResponse ELSE Types.response
        valid == \E h \in {ResponseHeader(k, i)} :
                    IF i = 1
                    THEN Accepts(h) /\ \E d \in {DecodeHeader(h)} : d.type = first /\ d.id = 0
                    ELSE StreamFrame(h, Types.streamResponseChunk, Types.streamResponseEnd)
        fits == \E h \in {ResponseHeader(k, i)} : \E d \in {DecodeHeader(h)} :
                    IF ~IsStream(k) THEN d.arg2 <= config.clientMax
                    ELSE d.type = Types.streamResponseChunk
                            => Within(i - 1, AnswerSize(k), config.clientStream)
    IN  IF ~valid THEN "protocol" ELSE IF ~fits THEN "too_large" ELSE "none"

Receive(c) ==
    LET k == Cur(c)
        fault == ResponseFault(k, got[k] + 1)
    IN  /\ cpc[c] = "receive"
        /\ \/ /\ got[k] < wrote[k]
              /\ got' = [got EXCEPT ![k] = @ + 1]
              /\ \/ fault # "none" /\ Fail(c, fault)
                 \/ fault = "none" /\ got[k] + 1 < ResponseUnits(k)
                    /\ UNCHANGED <<cpc, outcome, cliShut>>
                 \/ /\ fault = "none" /\ got[k] + 1 = ResponseUnits(k)
                    /\ cpc' = [cpc EXCEPT ![c] = "done"]
                    /\ outcome' = [outcome EXCEPT ![c] = "answered"]
                    /\ cliShut' = cliShut \cup {k}
           \/ got[k] = wrote[k] /\ k \in srvShut /\ Fail(c, Classified.ECONNRESET) /\ UNCHANGED got
        /\ UNCHANGED <<config, attempt, backoff, sent, fds, unconnected, workerVars, stopVars, read,
                       used, wrote, status, srvShut, backlog, entries, closing, leased, active,
                       rejected>>

\* An I/O or request deadline passes while the client waits in a send or a receive.
ClientTimeout(c) ==
    /\ config.timeouts /\ cpc[c] \in {"send", "receive"}
    /\ Fail(c, Classified.ETIMEDOUT)
    /\ UNCHANGED <<config, attempt, backoff, sent, fds, got, unconnected, workerVars, stopVars, read,
                   used, wrote, status, srvShut, backlog, entries, closing, leased, active,
                   rejected>>

NextBackoff(b) == IF b < MaxBackoff THEN b + Min({b, MaxBackoff - b}) ELSE b

Retry(c) ==
    /\ cpc[c] = "backoff"
    /\ cpc' = [cpc EXCEPT ![c] = "connect"]
    /\ attempt' = [attempt EXCEPT ![c] = @ + 1]
    /\ backoff' = [backoff EXCEPT ![c] = NextBackoff(@)]
    /\ UNCHANGED <<config, outcome, wireVars, workerVars, stopVars, read, used, wrote, status,
                   srvShut, backlog, entries, closing, leased, active, rejected>>

Client(c) == Connect(c) \/ Send(c) \/ Receive(c) \/ Retry(c)


-----------------------------------------------------------------------------
(* The reactor. *)

\* What close_connection leaves of the connections: one that is still executing
\* keeps its entry, and so its place under max_connections.
Closed(k) ==
    /\ closing' = closing \cup {k}
    /\ srvShut' = srvShut \cup {k}
    /\ entries' = IF k \in active THEN entries ELSE entries \ {k}

Accept ==
    /\ reactor = "on" /\ backlog # <<>>
    /\ backlog' = Tail(backlog)
    /\ IF Cardinality(entries) >= config.maxConnections
       THEN srvShut' = srvShut \cup {Head(backlog)} /\ UNCHANGED entries
       ELSE entries' = entries \cup {Head(backlog)} /\ UNCHANGED srvShut
    /\ UNCHANGED <<config, clientVars, wireVars, workerVars, stopVars, read, used, wrote, status,
                   closing, leased, active, rejected>>

\* The reactor looks at a connection that no stream worker has.
Polled(k) == reactor = "on" /\ k \in entries \ leased

\* A hang-up closes the connection before anything is read; so does the closing
\* flag a worker left, and the inactivity of a connection with no request in execution.
ReactorCloses(k) ==
    /\ Polled(k)
    /\ \/ k \in cliShut \cup srvShut
       \/ k \in closing
       \/ config.timeouts /\ k \notin active
    /\ k \in active => k \notin closing
    /\ Closed(k)
    /\ UNCHANGED <<config, clientVars, wireVars, workerVars, stopVars, read, used, wrote, status,
                   backlog, leased, active, rejected>>

\* The first header of a connection as the parser takes it.
RequestAccepted(k) ==
    \E h \in {RequestHeader(k, 1)} : \E d \in {DecodeHeader(h)} :
        /\ Accepts(h)
        /\ \/ /\ d.type = Types.request
              /\ d.flags = CarriesFd => fds[k] # {}
           \/ /\ d.type = Types.streamRequest
              /\ d.arg1 # 0 /\ d.arg2 = 0
        /\ d.arg1 + d.arg2 <= config.serverMax

\* dispatch_request, once the request is complete.
DispatchFixed(k) ==
    IF stopping
    THEN Closed(k) /\ UNCHANGED <<jobs, active>>
    ELSE /\ jobs' = Append(jobs, k)
         /\ active' = active \cup {k}
         /\ UNCHANGED <<closing, srvShut, entries>>

\* The stream has its slot: the worker that takes the job takes the connection and
\* every unit the reactor read ahead.  A pool that stops keeps the slot.
Leased(k) ==
    /\ streams' = streams + 1
    /\ leased' = leased \cup {k}
    /\ used' = [used EXCEPT ![k] = 1]
    /\ IF stopping
       THEN Closed(k) /\ UNCHANGED jobs
       ELSE jobs' = Append(jobs, k) /\ UNCHANGED <<closing, srvShut, entries>>

\* Faulty: the stream is counted as rejected and served.
DispatchRejected(k) ==
    /\ rejected' = IF streams >= config.maxStreams THEN rejected \cup {k} ELSE rejected
    /\ Leased(k)

\* dispatch_stream, once the route is there: without a slot the connection closes.
DispatchStream(k) ==
    IF streams >= config.maxStreams
    THEN rejected' = rejected \cup {k} /\ Closed(k) /\ UNCHANGED <<streams, leased, used, jobs>>
    ELSE Leased(k) /\ UNCHANGED rejected

Dispatches(k) == IsStream(k) \/ sent[k] = RequestUnits(k)

Consume(k) ==
    LET accepted == RequestAccepted(k)
    IN  /\ Polled(k) /\ k \notin closing \cup cliShut \cup srvShut
        /\ sent[k] > read[k]
        /\ read' = [read EXCEPT ![k] = sent[k]]
        /\ \/ /\ ~accepted
              /\ Closed(k)
              /\ UNCHANGED <<streams, leased, used, jobs, active, rejected>>
           \/ /\ accepted /\ ~Dispatches(k)
              /\ UNCHANGED <<closing, srvShut, entries, streams, leased, used, jobs, active,
                             rejected>>
           \/ /\ accepted /\ Dispatches(k) /\ ~IsStream(k)
              /\ DispatchFixed(k)
              /\ UNCHANGED <<streams, leased, used, rejected>>
           \/ /\ accepted /\ IsStream(k)
              /\ DispatchStream(k)
              /\ UNCHANGED active
        /\ UNCHANGED <<config, clientVars, wireVars, stopVars, wpc, work, execs, wrote, status,
                       backlog>>

Reactor == Accept \/ \E k \in entries : ReactorCloses(k) \/ Consume(k)

-----------------------------------------------------------------------------
(* The workers. *)

Run(k) == execs' = IF Handled(k) THEN [execs EXCEPT ![k] = @ + 1] ELSE execs

\* Faulty: the answer is written before the rest of the request is read.
RunStreamUndrained(w, k) ==
    /\ wpc' = [wpc EXCEPT ![w] = "respond"]
    /\ status' = [status EXCEPT ![k] = Status(k)]
    /\ Run(k)

\* The handler of a stream starts; what it does not read of the request is drained
\* after it, so every frame is read whatever it does.
RunStream(w, k) ==
    /\ wpc' = [wpc EXCEPT ![w] = "read"]
    /\ Run(k)
    /\ UNCHANGED status

\* Faulty: looks at the deadline only after the handler.
RunFixedLate(w, k) ==
    \E code \in {Status(k)} \cup (IF config.timeouts THEN {408} ELSE {}) :
        /\ running /\ Run(k)
        /\ status' = [status EXCEPT ![k] = code]
        /\ wpc' = [wpc EXCEPT ![w] = "write"]

\* A fixed request: 408 when its deadline passed in the queue, its handler, or, in
\* a server that stops, neither.
RunFixed(w, k) ==
    \/ /\ config.timeouts
       /\ status' = [status EXCEPT ![k] = 408]
       /\ wpc' = [wpc EXCEPT ![w] = "write"]
       /\ UNCHANGED execs
    \/ /\ running
       /\ Run(k)
       /\ status' = [status EXCEPT ![k] = Status(k)]
       /\ wpc' = [wpc EXCEPT ![w] = "write"]
    \/ /\ ~running
       /\ wpc' = [wpc EXCEPT ![w] = "complete"]
       /\ UNCHANGED <<execs, status>>

Take(w) ==
    /\ wpc[w] = "idle" /\ jobs # <<>>
    /\ jobs' = Tail(jobs)
    /\ work' = [work EXCEPT ![w] = Head(jobs)]
    /\ IF IsStream(Head(jobs)) THEN RunStream(w, Head(jobs)) ELSE RunFixed(w, Head(jobs))
    /\ UNCHANGED <<config, clientVars, wireVars, stopVars, streams, read, used, wrote, srvShut,
                   backlog, entries, closing, leased, active, rejected>>

Gone(k) == k \in cliShut \cup srvShut

\* The answer to a fixed request: a peer that is gone, or a deadline that passed while
\* the handler ran, only marks the connection.
WriteFixed(w) ==
    LET k == work[w]
    IN  /\ wpc[w] = "write"
        /\ wpc' = [wpc EXCEPT ![w] = "complete"]
        /\ \/ /\ Gone(k) \/ (config.timeouts /\ status[k] # 408)
              /\ closing' = closing \cup {k} /\ UNCHANGED wrote
           \/ ~Gone(k) /\ wrote' = [wrote EXCEPT ![k] = 1] /\ UNCHANGED closing
        /\ UNCHANGED <<config, clientVars, wireVars, stopVars, jobs, work, execs, streams, read,
                       used, status, srvShut, backlog, entries, leased, active, rejected>>

\* complete_regular_request: a one-shot connection stays with the reactor.
Complete(w) ==
    /\ wpc[w] = "complete"
    /\ wpc' = [wpc EXCEPT ![w] = "idle"]
    /\ active' = active \ {work[w]}
    /\ UNCHANGED <<config, clientVars, wireVars, stopVars, jobs, work, execs, streams, read, used,
                   wrote, status, srvShut, backlog, entries, closing, leased, rejected>>

\* An exception in the exchange of a stream.
StreamFails(w) ==
    /\ wpc' = [wpc EXCEPT ![w] = "failed"]
    /\ closing' = closing \cup {work[w]}

\* The next frame of the request, from what the reactor read ahead or the socket:
\* a chunk within max_stream_size, or the end, after which the answer begins.
StreamRead(w) ==
    LET k == work[w]
        i == used[k] + 1
        end == \E h \in {RequestHeader(k, i)} : DecodeHeader(h).type = Types.streamRequestEnd
        valid == \E h \in {RequestHeader(k, i)} :
                    StreamFrame(h, Types.streamRequestChunk, Types.streamRequestEnd)
    IN  /\ wpc[w] = "read"
        /\ \/ /\ used[k] < sent[k]
              /\ used' = [used EXCEPT ![k] = i]
              /\ read' = [read EXCEPT ![k] = Max({@, i})]
              /\ IF valid /\ (end \/ Within(i - 1, ChunkSize, config.maxStreamSize))
                 THEN /\ wpc' = [wpc EXCEPT ![w] = IF end THEN "respond" ELSE "read"]
                      /\ status' = IF end THEN [status EXCEPT ![k] = Status(k)]
                                   ELSE status
                      /\ UNCHANGED closing
                 ELSE StreamFails(w) /\ UNCHANGED status
           \/ /\ used[k] = sent[k] /\ Gone(k)
              /\ StreamFails(w) /\ UNCHANGED <<used, read, status>>
        /\ UNCHANGED <<config, clientVars, wireVars, stopVars, jobs, work, execs, streams, wrote,
                       srvShut, backlog, entries, leased, active, rejected>>

\* One frame of the answer; a chunk past max_stream_size ends the exchange.
StreamWrite(w) ==
    LET k == work[w]
        tooLong == /\ 0 < wrote[k] /\ wrote[k] + 1 < ResponseUnits(k)
                   /\ ~Within(wrote[k], AnswerSize(k), config.maxStreamSize)
    IN  /\ wpc[w] = "respond"
        /\ \/ (Gone(k) \/ tooLong) /\ StreamFails(w) /\ UNCHANGED wrote
           \/ /\ ~Gone(k) /\ ~tooLong /\ wrote[k] - got[k] < SocketRoom
              /\ wrote' = [wrote EXCEPT ![k] = @ + 1]
              /\ wpc' = [wpc EXCEPT ![w] =
                            IF wrote[k] + 1 = ResponseUnits(k) THEN "release" ELSE @]
              /\ UNCHANGED closing
        /\ UNCHANGED <<config, clientVars, wireVars, stopVars, jobs, work, execs, streams, read,
                       used, status, srvShut, backlog, entries, leased, active, rejected>>

StreamTimeout(w) ==
    /\ config.timeouts /\ wpc[w] \in {"read", "respond"}
    /\ StreamFails(w)
    /\ UNCHANGED <<config, clientVars, wireVars, stopVars, jobs, work, execs, streams, read, used,
                   wrote, status, srvShut, backlog, entries, leased, active, rejected>>

\* Faulty: the slot of a stream that failed is never given back.
ReleaseAnswered(w) ==
    /\ wpc[w] \in {"release", "unslot"}
    /\ streams' = IF wpc[w] = "release" THEN streams - 1 ELSE streams
    /\ wpc' = [wpc EXCEPT ![w] = IF @ = "release" THEN "rearm" ELSE "idle"]
    /\ UNCHANGED <<config, clientVars, wireVars, stopVars, jobs, work, execs, read, used, wrote,
                   status, srvShut, backlog, entries, closing, leased, active, rejected>>

\* The slot goes back after the last frame of an answer and before the connection
\* is rearmed; after a failure, the guard gives it back at the end.
ReleaseSlot(w) ==
    /\ wpc[w] \in {"release", "unslot"}
    /\ streams' = streams - 1
    /\ wpc' = [wpc EXCEPT ![w] = IF @ = "release" THEN "rearm" ELSE "idle"]
    /\ UNCHANGED <<config, clientVars, wireVars, stopVars, jobs, work, execs, read, used, wrote,
                   status, srvShut, backlog, entries, closing, leased, active, rejected>>

Rearm(w) ==
    LET k == work[w]
    IN  /\ wpc[w] \in {"rearm", "failed"}
        /\ wpc' = [wpc EXCEPT ![w] = IF @ = "rearm" THEN "idle" ELSE "unslot"]
        /\ IF k \in closing
           THEN Closed(k) /\ UNCHANGED leased
           ELSE /\ leased' = IF running THEN leased \ {k} ELSE leased
                /\ UNCHANGED <<closing, srvShut, entries>>
        /\ UNCHANGED <<config, clientVars, wireVars, stopVars, jobs, work, execs, streams, read,
                       used, wrote, status, backlog, active, rejected>>

Worker(w) == \/ Take(w) \/ WriteFixed(w) \/ Complete(w)
             \/ StreamRead(w) \/ StreamWrite(w) \/ ReleaseSlot(w) \/ Rearm(w)

-----------------------------------------------------------------------------
(* The server's life: see ServerLifecycle for its races. *)

serverRest == <<config, clientVars, wireVars, workerVars, read, used, wrote, status, leased, active,
                rejected>>

\* The constructor listens; clients queue up before run() starts the threads.
Listen ==
    /\ spc = "absent"
    /\ spc' = "bound" /\ listening' = TRUE
    /\ UNCHANGED <<serverRest, running, stopping, reactor, srvShut, backlog, entries, closing>>

StartRun ==
    /\ spc = "bound"
    /\ spc' = "up" /\ running' = TRUE /\ reactor' = "on"
    /\ UNCHANGED <<serverRest, listening, stopping, srvShut, backlog, entries, closing>>

\* stop_state in the thread that calls stop(): the flag, the path, the connections,
\* the pool.
StopFlag ==
    /\ config.stops /\ spc = "up"
    /\ spc' = "unlink" /\ running' = FALSE
    /\ UNCHANGED <<serverRest, listening, stopping, reactor, srvShut, backlog, entries, closing>>

StopUnlink ==
    /\ spc = "unlink"
    /\ spc' = "shutdown" /\ listening' = FALSE
    /\ UNCHANGED <<serverRest, running, stopping, reactor, srvShut, backlog, entries, closing>>

StopConnections ==
    /\ spc = "shutdown"
    /\ spc' = "pool" /\ srvShut' = srvShut \cup entries
    /\ UNCHANGED <<serverRest, listening, running, stopping, reactor, backlog, entries, closing>>

StopPool ==
    /\ spc = "pool"
    /\ spc' = "stopped" /\ stopping' = TRUE
    /\ UNCHANGED <<serverRest, listening, running, reactor, srvShut, backlog, entries, closing>>

ReactorExit ==
    /\ reactor = "on" /\ ~running
    /\ reactor' = "exited"
    /\ UNCHANGED <<serverRest, listening, running, stopping, spc, srvShut, backlog, entries, closing>>

\* Faulty: run() only stops the pool.
RunStopsPool ==
    /\ reactor = "exited"
    /\ reactor' = "join" /\ listening' = FALSE /\ stopping' = TRUE
    /\ UNCHANGED <<serverRest, running, spc, srvShut, backlog, entries, closing>>

\* run() after the reactor: stop_state again, for what was accepted meanwhile.
RunStops ==
    /\ reactor = "exited"
    /\ reactor' = "join" /\ listening' = FALSE /\ stopping' = TRUE
    /\ srvShut' = srvShut \cup entries
    /\ UNCHANGED <<serverRest, running, spc, backlog, entries, closing>>

\* Once the workers are gone every connection closes, and the listener with its
\* backlog.
RunCloses ==
    /\ reactor = "join" /\ jobs = <<>>
    /\ \A w \in Workers : wpc[w] = "idle"
    /\ reactor' = "closed"
    /\ closing' = closing \cup entries
    /\ srvShut' = srvShut \cup entries \cup {backlog[i] : i \in DOMAIN backlog}
    /\ entries' = {} /\ backlog' = <<>>
    /\ UNCHANGED <<serverRest, listening, running, stopping, spc>>

Lifecycle == \/ StartRun \/ StopUnlink \/ StopConnections \/ StopPool
             \/ ReactorExit \/ RunStops \/ RunCloses

\* A client that is suspended after its first write, with its socket open.
Stalled(c) == c \in config.stalled /\ sent[Cur(c)] > 0

\* The steps of threads that are not blocked.
Progress == \/ \E c \in Calls : ~Stalled(c) /\ Client(c)
            \/ Reactor
            \/ \E w \in Workers : Worker(w)
            \/ Lifecycle

Next == \/ Progress
        \/ \E c \in Calls : Begin(c) \/ ClientTimeout(c)
        \/ \E w \in Workers : StreamTimeout(w)
        \/ Listen \/ StopFlag

\* While some thread of a client or of the server can go on, one does.  No deadline
\* need pass, and nobody need call, start a server or stop it.  Every step uses up
\* an attempt, a unit or a phase of the stop, so that no thread can be kept from
\* its turn for ever by the others.
Fairness == WF_vars(Progress)

Spec == Init /\ [][Next]_vars
FairSpec == Spec /\ Fairness

-----------------------------------------------------------------------------
(* Properties. *)

\* Every variable has its type.
TypeOK ==
    /\ config \in Configs
    /\ \A c \in Calls : /\ cpc[c] \in {"idle", "connect", "send", "receive", "backoff", "done"}
                        /\ attempt[c] \in 1..MaxAttempts
    /\ \A k \in Conns : /\ {sent[k], read[k], used[k]} \subseteq 0..RequestUnits(k)
                        /\ got[k] \in 0..wrote[k] /\ wrote[k] \in 0..(Chunks + 2)
                        /\ used[k] <= read[k] /\ read[k] <= sent[k]
    /\ cliShut \cup srvShut \cup unconnected \cup rejected \cup closing \cup leased \subseteq Conns
    /\ active \subseteq entries /\ entries \subseteq Conns
    /\ streams \in 0..Cardinality(Conns)

\* The streams that a job or a worker stands for.
SlotHolders ==
    {jobs[i] : i \in {j \in DOMAIN jobs : IsStream(jobs[j])}} \cup
    {work[w] : w \in {v \in Workers : wpc[v] \in {"read", "respond", "release", "failed", "unslot"}}}

\* active_streams counts the streams that are queued or served, whatever way they
\* end, and keeps within max_concurrent_streams; a slot is lost only in a pool that
\* is already stopping.
SlotsExact ==
    /\ streams <= config.maxStreams
    /\ streams >= Cardinality(SlotHolders)
    /\ ~stopping => streams = Cardinality(SlotHolders)

\* A handler runs at most once for a connection, only for a request that was sent
\* whole (a stream: begun), and more than once for a call only under
\* request_idempotent, never more often than it has made attempts.
ExecutionsBounded ==
    \A k \in Conns :
        /\ execs[k] <= 1
        /\ execs[k] = 1 =>
              /\ IF IsStream(k) THEN sent[k] > 0 ELSE sent[k] = RequestUnits(k)
              /\ k[2] <= attempt[k[1]]
              /\ Kind(k) = "idempotent" \/ k[2] = 1

\* The status the client takes from the first header of the response.
Returned(k) == DecodeHeader(ResponseHeader(k, 1)).arg1

\* The status a call returns tells whether its handler ran: it did for a 200, it did not
\* when the request was refused or late, and a 500 is the handler's unless the
\* authorization hook threw.  And an answer comes after the whole request, also when the
\* handler of a stream left the rest of it unread, so that nothing of it is left to be
\* taken for the next request.
AnswerTellsExecution ==
    \A c \in Calls :
        LET k == Cur(c)
        IN  outcome[c] = "answered" =>
               /\ Returned(k) = 200 => execs[k] = 1
               /\ Returned(k) \in {403, 404, 408} => execs[k] = 0
               /\ Returned(k) = 500 => execs[k] = 1 \/ Verdict(k) = "hookThrows"
               /\ read[k] = RequestUnits(k)
               /\ IsStream(k) => used[k] = RequestUnits(k)

\* README.md: a stream above the limit is closed before its body is read, and the
\* client gets an Error classified as closed (or the timeout that passed first, or
\* the refusal of a body that its own max_stream_size does not allow).
ExcessClosed ==
    \A k \in rejected :
        /\ execs[k] = 0 /\ used[k] = 0
        /\ cpc[k[1]] = "done" =>
              \/ outcome[k[1]] \in {"closed", "timeout"}
              \/ outcome[k[1]] = "length" /\ ~Within(Chunks, ChunkSize, config.clientStream)

\* The calls that have begun and not ended.
Underway == {c \in Calls \ config.stalled : cpc[c] \notin {"idle", "done"}}

\* Every call returns or throws, with or without deadlines, whether the server is
\* there, full, or stopping: nobody waits for a peer that waits for it.  (A suspended
\* client is not asked to.)
CallReturns == Underway # {} ~> Underway = {}

\* A stop that has begun ends run(), in the middle of any exchange, without the help
\* of a deadline or of the client: no worker stays in a read or a write.
ServerDrains == spc = "unlink" ~> reactor = "closed"
=============================================================================
