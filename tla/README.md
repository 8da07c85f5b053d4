# easy-uds: TLA+ specifications

TLA+ models of easy-uds, a C++ RPC library over Unix-domain sockets, with the TLC
configurations that check them on small instances and TLAPS proofs of the
properties that matter most. Paths below are relative to the repository's `src/`
directory unless they start with `docs/`, `tests/`, `experiments/` or `README.md`.

## The system

A server has one **reactor** thread (`system/reactor/event_loop.cpp`), which
accepts connections, parses frames (`parser.cpp`), dispatches requests
(`dispatch.cpp`) and flushes queued output (`output.cpp`); a fixed pool of
**regular workers** and a lazily grown pool of **serialized workers**
(`workers.cpp`); and the constructor, `run`, `stop` and destructor of `Server`
(`system/runtime/server.cpp`). A client makes **one-shot** calls
(`user/cpp/core/client.cpp`, `system/runtime/client_engine.cpp`,
`system/transport/`) or multiplexes the calls of many threads over one connection
with a **Session** (`user/cpp/core/session.cpp`,
`system/runtime/session_engine.cpp`), which has a reader thread of its own.

| Part | Modules | What makes it hard |
| --- | --- | --- |
| serialized executor | SerializedExecutor, DomainQueues | policies decided on counts that other threads change, work finished outside the mutex, pool growth against a stop |
| reactor wakeup | ReactorWakeup | a flag and a counter that are cleared in two steps |
| input flow control | FlowControl | decisions and effects under different locks, a two-level reservation with rollback, connections that a worker closes while the reactor parses them |
| connection lifecycle | ConnectionLease | one descriptor handed between reactor, workers and streams |
| output queue | OutputQueue | workers that send and queue beside the reactor that flushes, two budgets, interest in writable events across a lease |
| server lifecycle, socket path | ServerLifecycle | `stop` and destructor at any point of `run`, a path shared with other and with dead servers |
| client session | ClientSession | slots on callers' stacks, ids that wrap, breaking while calls are inserted |
| one-shot calls, retry, streams | ClientExchange, WireCodec | a server that goes on with what the client gave up, slots, deadlines, a stop in the middle of an exchange |
| byte transport | ByteStream, Deadlines | partial sends, read-ahead, the ends of numeric ranges |
| routes | RouteRegistry | registration by several threads while requests are looked up |
| shared-memory probes | ShmTransport | stores that reach memory late |

`PROJECT.json` lists every component with its status, every hazard at its line, and
the source lines of every definition.

## Modules

A module `MCx` gives the constants of `x` for TLC, a module `xProofs` holds its
theorems. `MCReactor` and `MCClientSession` check several models in one run: their
models share no state, and a behaviour is of one of them. Definitions commented "Faulty" are variants of the definition that follows
them, each with one plausible mistake; no specification uses them.

**SerializedExecutor** models `enqueue_serialized_job`, `serialized_worker_loop`,
their guards, and the parts of `stop_state` and `join_serialized_workers` that
concern them. A step is what a thread does while it holds `serialized_mutex`, or one
effect outside of it. An enqueuer has two steps under the mutex (`mutex` holds its
job in between), because `running` is cleared without the mutex. The deque is the
set of jobs whose `stage` is `"queued"`, ordered by `stamp`. The condition variable
is the set of workers at `"waiting"`; spurious wakeups add nothing, since a woken
worker tests its predicate again. A deadline that passes in the queue is a choice
(`WorkerDiscard`), and so is a failed thread start (`EnqueueRefused`).
**DomainQueues** is the abstract promise: one first-in-first-out queue per domain,
on which latest_wins and reject_if_busy act, one job current at a time.
`Abstract` in SerializedExecutor is the refinement mapping.

**ReactorWakeup**: producers, the reactor's loop and `stop_state`'s direct signal.
Every atomic access to `wake_pending` and every system call on the counter is a step.
`MaxBatch` stands for `max_batch` (64 in the code), `MaxResumed` bounds the queue.

**FlowControl** is `flow_control.cpp` with its callers: `consume` and
`begin_request_payload` on the reactor; workers that answer and release requests, take
a continuation lease (`try_acquire_continuation_lease`, `continue_connection`) and
account for the request they read themselves; and `close_connection`, by the reactor
and by a worker whose response overflows the output budget while the reactor may be
anywhere in `consume`. A request is two halves on the wire, header and payload.
`maxTotal` is the server's option, fixed in the initial state: 0 is the default
read-ahead mode, any other value the strict aggregate budget. `unbacked` is a history
variable: the requests that were dispatched after a worker's close had given their
reservation back, whose release takes the same bytes a second time. A counter that
would wrap below zero is kept negative and compares as a huge `size_t` does. Wakeups
are reliable here; `resumed_connections` is a set; the three subtractions of one
release are one step, as no property looks in between. The table entry of a connection
is not erased while the reactor consumes from it: the closing worker's own request is
still counted in `active_regular`. Streams are left out.

**ConnectionLease**: one connection on a running server, with the reactor, the
workers and one serialized worker. A frame is abstracted to its kind, `partial` says
that the parser holds part of one, `current` whether a fetched event still has the
entry's generation. Wakeups are reliable here. `leaked` is a history variable that
counts the requests a failed busy reply drops.

**OutputQueue**: `write_fixed_response` with its direct send and its reservation of
both budgets, `flush_connection_output`, `refresh_connection_events`, the output
deadline, `close_connection`, and the lease and rearm of the same descriptor. A
response is a sequence of numbered units; a queue of frames with offsets is the
sequence of their unsent units. Streams and serialized workers do not write here.

**ServerLifecycle**: `Server` objects of one socket path. Each has five threads, its
constructor, the caller of `run`, the reactor, a caller of `stop` and the destructor.
Every system call on the path and every critical section is a step, any of the calls
may fail, and a process may die anywhere (`MaxCrashes`), which gives up its lock and
leaves its socket. The socket of a server stands for its device and inode.
`unlink_owned_socket` is two steps, the comparison and the unlink.

**ClientSession**: callers in `request_impl`, the reader thread, the destructor and
the peer. A configuration says whether there is a deadline and how many ids there are
(2^32 in the code), so that wrap-around happens. A call's number is its ghost
identity, which lets `OwnResponse` compare a response with the call it was sent for.

**ClientExchange** composes one-shot clients with a server: fixed requests, requests
that are retried, requests with a descriptor and half-duplex streams, from the connect
to the answer; an authorization hook may refuse a request or throw. Every attempt has a connection of its own, which the server may still
hold, queue or execute after the client gave it up. The bytes of a direction are
counted in units. The server is a reactor, a pool of workers with stream slots, and
the steps of a stop beside them. Headers are encoded and decoded with **WireCodec**,
which is `encode_header` and `decode_header` (`protocol/codec.hpp`) over bytes.

**Deadlines** is `wait_for_io` of `transport/io.hpp` with a clock that ends:
`deadline_from_now`, the rounding up to milliseconds, the clamp of a poll timeout, and
a loop that polls again after a signal while time passes between its readings of the
clock.
**ByteStream** is one direction of a socket: a gathered write of several parts that
the socket takes in pieces, and exact reads, through the read-ahead buffer of a client
or, for a worker that leased the connection, first from the bytes the reactor had
read. **RouteRegistry** is the copy-on-write table of handlers: registration under
its mutex, publication, and lookups in the table that was published last.

**ShmTransport**: the transports of the three probes
`experiments/0.6/easy_uds_shm_*_probe.cpp`. Each thread has a buffer of stores that
are not visible yet; an atomic exchange empties it. A frame is two halves that are
stored and loaded one after the other.

## Runs

| Run | Distinct states | Shows |
| --- | --- | --- |
| `serialized` | 177,188 | exclusion per domain, exact counters and connection counts, a pool large enough; the executor implements `DomainQueues`; every admitted job is resolved and a stop terminates |
| `reactor` | 709,376 | ReactorWakeup: a stop always reaches the reactor. Deadlines: a wait keeps its timeout and its deadline, interrupted or not. RouteRegistry: with concurrent registration the exact route or the longest prefix wins. ByteStream: bytes arrive once and in order. FlowControl: exact accounting, bounded input, no buffered request forgotten, with and without an aggregate budget. ConnectionLease: never two readers of one descriptor; `active_regular` is exact but for requests a failed busy reply drops; closing connections are removed |
| `output` | 181,741 | both output budgets hold, responses do not interleave, nothing is queued for a forgotten connection, and without leases a queued response reaches a reading client |
| `lifecycle` | 226,151 | a constructor removes only the socket of a server that is over, and recovers it; descriptors stay open while used; `run` and the destructor end |
| `session` | 406,299 | ClientSession: correlation, slot lifetime, sweep, statistics; every call returns. ShmTransport: no frame is torn or overwritten, no wakeup is lost, both sides finish |
| `exchange` | 165,563 | executions match what the call allows, a status tells whether the handler ran, stream slots are exact, an excess stream is closed, every call returns, a stop ends in the middle of any exchange |
| `flow_resume`, `strict_budget`, `lost_wakeup`, `lost_stop`, `stray_unlink`, `output_stuck` | | disagreements between code and documentation, below |

Every property of a passing run has a mutant: a faulty variant of a mapped definition
under which TLC finds the property violated.

### Where code and documentation disagree

* `flow_resume`: the last release can fall between the decision to pause and the
  pause (`flow_control.cpp:192-193`); the peer then stays paused with nothing in
  flight, where `docs/api/options.md:36` says it resumes below the low-water mark.
  `parser.cpp:47-48` and `65-66` have the same shape in strict mode.
* `strict_budget`: `close_connection` takes the parser's reservation and gives it back
  (`dispatch.cpp:122-123`). When a worker calls it, because a response overflowed
  (`output.cpp:218-220`), while the reactor is completing the request the reservation is
  for, that request is dispatched as already accounted and its release gives the bytes
  back again. The aggregate count is then too small and requests of other connections
  are admitted beyond it, or it wraps and nothing is admitted; by `README.md:290` partial,
  queued and executing requests share one strict budget.
* `lost_wakeup`: `event_loop.cpp:185` clears `wake_pending` and then drains the counter.
  A producer in between sets the flag again and its count is drained; later producers
  find the flag set and do not signal, and the reactor sleeps on the connections they
  resumed. The comment at `event_loop.cpp:182-184` says that both kinds of producers are
  covered, and `docs/api/options.md:36` that a paused peer resumes. A stop signals past
  the flag and is not affected (`StopIsSeen`).
* `lost_stop`: `stop_state` clears `running` (`server.cpp:165`) before it takes the
  lock under which it sets `stopped`. If `run` tests `stopped` and sets `running` in
  between, the reactor is woken once, finds `running` set and goes on; `run` does not
  return until another `stop`. `docs/api/core.md:15` calls `stop` thread-safe, and by
  `README.md:330` it may be called concurrently. Clearing `running` under the lock would
  close the window.
* `stray_unlink`: `unlink_owned_socket` compares the path's identity and then unlinks the
  path (`server.cpp:139-142`), and both a caller of `stop` and `run`'s `RunActiveGuard`
  do so. One of them compares; the other unlinks and gives up the instance lock; the next
  server binds; the first unlinks that server's socket, which then serves without a path.
  By `README.md:335` the pathname is removed only if its device and inode still match, and
  `CHANGELOG.md:460` and `:533` say the same of shutdown and of replacement races.
* `output_stuck`: the continuation lease takes the descriptor out of the poller, and
  `rearm_connection` registers it for reading only (`workers.cpp:439`), also when
  output is queued. The rest of the response then waits for another write on the
  connection, while `README.md:292` hands it to a writable queue.

### What the passing properties leave out

Some properties are stated with an exception, where the code has a gap.

* `AccountedIsHeld` counts `leaked`: the busy reply at `workers.cpp:178-184` is not in
  a try block, and when it throws its request stays counted.
* `ClosingIsRemoved` excepts `leaked`, and an entry with `worker_owned` set and no
  worker, which an expiry decided under the lock and carried out after it
  (`event_loop.cpp:97-99`) can leave behind.
* `FramesWhole` excepts the responses in `cut`: one that overflows after a part of it
  was sent gives up `output_mutex` before its connection is closed, and another worker
  may write behind the part.
* `AccountingExact` counts `unbacked` apart: in strict mode the counters are too small by
  the bytes of those requests. It says that only connections that were closed have any.
* `InputBounded` without a budget allows what the code admits: the parser tests the
  limits after a dispatch, and a continuation read does not test them at all. With a
  budget it speaks of the server's count; `StrictBudget`, about what that count stands
  for, is violated (`strict_budget`).
* `AnswerTellsExecution` leaves a 500 of an authorization hook that throws
  (`workers.cpp:68-78`) apart from one of the handler.
* `WaitKept` excepts the longest wait that one poll can express (24.8 days):
  `wait_for_io` takes the end of a clamped poll for the deadline (`io.hpp:242`).

The runs check the properties that take several steps or threads to violate. Other
parts of the models have no property of their own: the backoff of retries, the
descriptor of a request (sent with its first part), the acceptance of frames by both
ends of `exchange` (for headers, see the theorems about WireCodec), the end of a
stream of bytes, what a leased stream leaves in the socket, the destructor of a
`Session`. Where a module has a `TypeOK` it describes the variables; it holds on
the instances of the runs and is proved for SerializedExecutor.

### Bounds

* `serialized`: any three of four jobs of all three policies (`ThreeSubmitted`), two
  domains, two workers. Two domains and a pool of two give every combination of busy,
  active and idle; a third job of a domain only repeats a queue of two.
* `reactor`, ReactorWakeup: two producers, one that signals and one that is suppressed,
  and a queue of three that takes two batches. Deadlines: a clock of 13 ticks, three to
  the millisecond, and an int of at most three, so that rounding, clamping and the end
  of the clock all occur. RouteRegistry: two registering threads and ten registrations,
  prefixes in both orders among them. ByteStream: four plans of writes and reads, below,
  at and above a read-ahead buffer and a socket of three bytes. FlowControl: without a
  budget a connection that pipelines four requests, enough for a continuation to read
  past the limits; with a budget of three bytes one that sends two and one that sends
  one (`FlowBound`); two workers; limits of two requests and three bytes, so that each
  limit is the binding one in some state. ConnectionLease: two workers, one serialized
  worker, three frames: one in a worker's hands, one that the continuation reads, one
  that reaches the reactor meanwhile; with and without deadlines.
* `output`: two pipelined requests and a third on another connection, responses of two
  and three units, a socket that holds one, budgets of three per connection and two in
  total, so that direct sends, queueing and both overflows occur; with leases and
  timeouts or with neither.
* `lifecycle`: two servers, so that the owner of the path and the holder of the lock can
  differ, and one process that dies. `lost_stop` has one server, `stray_unlink` two and
  no crash. `lost_wakeup` has a batch that takes the whole queue, so that the counter
  alone is at fault.
* `session`: two callers, two shards, four calls; with deadlines and eight ids, which
  do not wrap, or without deadlines and three, which do. ShmTransport: a ring of two slots
  and four rounds, so that every slot is used again; a socket that holds a frame and a
  half.
* `exchange`: two clients, one worker, two attempts, streams of two chunks each way, a
  socket of two units, which a stream's header and body overfill so that both sides could
  be left sending, and fourteen configurations that put each limit, each kind of
  call, deadlines, a stop and a suspended client against each other.

Deadlock is checked for `serialized`, and for `reactor` where its model never rests
(wakeups, routes, bytes, waits). The other systems may rest: a client need not send or
call again, and a server need not be started.

### Fairness

Weak fairness of each thread: a thread that can run does, handlers and system calls
return. Nothing is assumed of `stop` being called, of jobs being submitted, of deadlines
passing or of processes dying. Beyond that:

* `session` assumes, through the fairness of the reader, that the server answers or the
  connection fails; `CallReturns` has no deadline to fall back on there.
* `output` has strong fairness of the flush of each connection: readiness is
  level-triggered, so the reactor meets a writable descriptor that is registered for it
  again and again. Clients that are there keep reading, as the property asks.
* `exchange` has weak fairness of all threads together. Every step uses up an attempt,
  a unit or a phase of the stop, so none can be kept from its turn for ever. A
  suspended client is exempt, and a stop must end without it.
* ShmTransport in `session`: a store does not stay in a store buffer for ever.

## Proofs

Each theorem holds for every value of the constants that satisfies the `ASSUME`s of
its module. Those about single operators (the words of a frame, two about deadlines)
are proved directly; the others follow from an inductive invariant, since the property
alone is not inductive.

| Module | Theorems (property) | Invariant and why it is needed |
| --- | --- | --- |
| SerializedExecutorProofs | `TypeCorrect`, `Exclusive` (`OneAtATime`), `PoolLargeEnough` (`EnoughWorkers`) | `IInv`. A pick is safe because it takes a job of an inactive domain, so a worker holding a job keeps its domain active (`HoldersActive`). An enqueuer that holds the mutex has made room for its domain (`RoomForAdmission`), and none holds it once `serialized_stopping` is set (`MutexBeforeStop`). |
| | `PendingSerializedExact` (`ConnPendingAgrees`), `BookkeepingExact` (`CountersAgree`) | `StageInv`: a job is in one place, so that a count changes by one where a job moves. |
| | `DomainsAreQueues` (`ImplementsDomainQueues`) | `StampInv`: a new job is stamped behind every queued one, so the deque restricted to a domain is the abstract queue. Each step is a step of DomainQueues or a stutter. |
| FlowControlProofs | `BufferedInputIsKept` (`BufferedIsQueued`) | `FlowInv`: a reservation belongs to a header whose payload is outstanding, a connection being consumed is not paused (`Parsing`), and a leased one has one owner and nothing buffered or active (`Leases`). `QueuedInv` adds what an open connection in `consume` waits for. |
| | `AccountsStayExact` (`AccountingExact`) | `CountInv`: a dispatched request is in the queue or with one worker, and its parser is past it, so the sets behind the counters grow and shrink by one request. |
| | `InputWithinLimits` (`InputBounded`) | `BoundInv`: a connection that is not paused, or about to be looked at, has room for one more request; the bound of a continuation read follows from the accounts and the number of workers. |
| ReactorProofs | `HeaderRoundTrip`, `SentIsAccepted` | The round trip of a 32-bit word and of the flags. |
| | `DeadlineIsKept`, `PollIsCovered`, `WaitIsKept` (`WaitKept`) | Division and rounding, by cases of the clamp. `WaitInv`: the deadline is still the one computed from the limits, and a poll lasts as long as the remaining time or the longest possible. |
| | `OneReader` (`ExclusiveReader`), `AccountsAreHeld` (`AccountedIsHeld`) | The flags say that the descriptor is handed out (`Flagged`), it is handed to one owner or one queued stream (`OneOwner`), and the reactor parses only a connection that is not handed out and marks it busy (`ConsumeAlone`). The count is inductive with the type of `leaked` (`AccountInv`). |
| RouteRegistryProofs | `LongestPrefixServes` (`LongestPrefixWins`) | `RegistryInv`: a thread that prepares a table holds the mutex, so its copy is the published one, and the published table lists the registrations that returned, once each, the longest prefix first. |
| ClientExchangeProofs | `ExecutionsStayBounded`, `AnswersTellExecution` (`AnswerTellsExecution`), `SlotsStayExact`, `ExcessStreamsClose` (`ExcessClosed`) | Only `request_idempotent` tries again, and what was given up is closed (`CallInv`); a request is queued once or with one worker, and one that may still be dispatched is untouched (`PlaceInv`); a status is settled before its first frame (`AnswerInv`); a refused stream stays untouched and its call ends (`ExcessInv`). |
| OutputQueueProofs | `BudgetsHold` (`OutputBounded`), `QueuedOutputReachable` (`QueuedIsReachable`), `FramesStayWhole` (`FramesWhole`) | A counter is the length of its queue (`Counted`). A request being served keeps its connection in the table (`ServedHasEntry`), because `active_regular` counts it; a lease belongs to such a request (`Leased`). What the client has, the socket holds and the queue holds is one stream of whole frames (`FrameInv`). |
| ClientSessionProofs | `SweptCallsAreDone`, `SlotsOutliveReader` (`SlotAlive`), `StatisticsAddUp` (`StatsConserved`) | A slot is in the table exactly while its call is in flight (`TableIsInFlight`), a sweep begins after the session is broken (`SweepIsBroken`), and the reader delivers under the shard's lock (`DeliverLocks`). |
| | `ResponsesAreOwn` (`OwnResponse`, where `TellsApart`) | Without deadlines every response on its way has its call waiting (`WaitingInv`); with them ids that have not wrapped are distinct (`IdInv`). With deadlines and ids that wrap the claim is not made: a late response could meet a reused id. |
| ServerLifecycleProofs | `OpenWhileUsed` (`OpenWhileRunning`) | The lock is held from its acquisition to the closing of the descriptors, `run_active` is set while `run` is under way, and `run` waits for the reactor (`Held`). |
| | `StaleRemovalIsSafe` (`OnlyStaleRemoved`), `StaleSocketsAreRecovered` (`StaleIsRecovered`) | `PathInv`: while a constructor holds the lock the path holds what it saw there or nothing, and never the socket of a server that has yet to bind; a server that listens and is open holds the lock itself. |

Only model-checked: all liveness (`AdmittedIsResolved`, `StopTerminates`, `StopIsSeen`,
`ClosingIsRemoved`, `DeliveredWithoutLease`, `ClearedEndsRun`, `DestructorReturns`,
`CallReturns`, `ServerDrains`, `RunEnds`), as fairness and ENABLED are out of the prover's
reach; and two invariants, `BytesInOrder` and `FramesIntact`. The first is about sequences
built step by step and would need induction over data, which the prover cannot do either;
the second is about the probes and their store buffers.

## Not modelled

* The Windows and kqueue backends: the runs take the behaviour of epoll and eventfd.
* The C and Python bindings and `simple.hpp`: conversions on top of the modelled API.
* The statistics of the server, apart from the counters that decide something, and the
  trace output.
* The other probes in `experiments/` (io_uring, zero-copy sends, descriptor passing,
  false sharing): benchmarks outside the library. A failing child of the shared-memory
  probes.
* Bytes that follow a stream on its connection (`workers.cpp:456`): the library's
  clients send none before the response has ended.
* A timed-out call of a `Session` erases its slot before it marks the session broken
  (`session.cpp:230`); an id that comes round again in between takes 2^32 calls, and
  the runs combine deadlines only with ids that do not wrap.
* A stream can be refused although it is not in excess: the slot is given back after
  the last frame is sent (`stream.cpp:192-200`). `exchange` has this step, and its
  properties say how a refused stream ends, not that a refusal is due.
* A header that has arrived in part: FlowControl takes a header whole, so that the lease's
  test for buffered bytes (`workers.cpp:223`) meets only whole halves.
* The composition of ReactorWakeup with FlowControl and ConnectionLease, which take
  wakeups as reliable.

## Running

In this directory, `tlc -config <cfg> <module>` for a run of `PROJECT.json`, and
`tlapm <module>Proofs.tla` for the proofs of a module. The longest runs, `lifecycle` and
`reactor`, take about two minutes on four cores, the others less; the proofs of
FlowControl take about ten minutes.
