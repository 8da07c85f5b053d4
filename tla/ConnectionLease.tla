--------------------------- MODULE ConnectionLease ---------------------------
(***************************************************************************)
(* Who may read one client connection, and when its table entry goes away. *)
(*                                                                         *)
(* The reactor, a stream worker (stream_active) and a regular worker that  *)
(* waits for a follow-up request (worker_owned) hand the descriptor to     *)
(* each other through close_connection, rearm_connection and               *)
(* try_acquire_continuation_lease.  Wakeups are taken as reliable here,    *)
(* and the server is running: ReactorWakeup is about the former.           *)
(***************************************************************************)
EXTENDS Integers, Sequences, FiniteSets

CONSTANTS Workers,      \* regular worker threads
          Kinds,        \* frames the client may send, a subset of AllKinds
          Timeouts,     \* whether io_timeout or request_timeout is set: a subset of BOOLEAN
          MaxFrames     \* bound: frames the client sends

AllKinds == {"fixed",        \* request for a regular route
             "serialized",   \* request admitted by the serialized executor
             "busy",         \* request its busy domain rejects
             "stream", "bad"}

ASSUME KindsAssumption ==
    Kinds \subseteq AllKinds /\ Timeouts \subseteq BOOLEAN /\ IsFiniteSet(Workers)

VARIABLES hasTimeout,   \* the member of Timeouts, fixed for a behaviour
          leaked,    \* history: accounted requests that a failed busy reply has dropped
          entry,     \* the connection is in ServerState::connections
          closing, streamActive, workerOwned, sessionCapable,
          busy,      \* reactor_busy
          partial,   \* the parser holds part of a frame
          armed,     \* the descriptor is in the readiness set
          active,    \* active_regular
          serial,    \* pending_serialized
          jobs,      \* pending_jobs: "fixed" or "stream"
          sent, avail, gone,   \* the client: frames sent, frames unread, hung up
          shut,      \* close_connection has shut the socket down
          wake,      \* a wakeup the reactor has not consumed
          current,   \* the fetched event carries the current generation
          rpc,       \* where the reactor is
          wpc,       \* where each regular worker is
          then,      \* what a worker does after rearm_connection
          spc        \* where the serialized worker is

conn == <<closing, streamActive, workerOwned, sessionCapable, active, serial>>
table == <<entry, busy, partial, armed, shut>>
client == <<sent, avail, gone>>
extra == <<hasTimeout, leaked>>
threads == <<rpc, wpc, then, spc, extra>>
leaseVars == <<conn, table, client, jobs, wake, current, threads>>

LeaseTypeOK ==
    /\ hasTimeout \in Timeouts /\ leaked \in 0..MaxFrames
    /\ {entry, closing, streamActive, workerOwned, sessionCapable, busy, partial, armed,
        gone, shut, wake, current} \subseteq BOOLEAN
    /\ active \in 0..MaxFrames /\ serial \in 0..MaxFrames
    /\ jobs \in Seq({"fixed", "stream"})
    /\ sent \in 0..MaxFrames /\ avail \in 0..sent
    /\ rpc \in {"top", "expired", "wait", "fetched", "close", "consume"}
    /\ wpc \in [Workers -> {"idle", "write", "stream", "complete", "last", "lease",
                            "reading", "rearm", "insert", "serialized", "busy"}]
    /\ then \in [Workers -> {"idle", "write", "serialized", "busy"}]
    /\ spc \in {"idle", "write", "done", "wake"}

LeaseInit ==
    /\ hasTimeout \in Timeouts /\ leaked = 0
    /\ entry = TRUE /\ armed = TRUE
    /\ closing = FALSE /\ streamActive = FALSE /\ workerOwned = FALSE
    /\ sessionCapable = FALSE /\ busy = FALSE /\ partial = FALSE
    /\ active = 0 /\ serial = 0 /\ jobs = <<>>
    /\ sent = 0 /\ avail = 0 /\ gone = FALSE /\ shut = FALSE
    /\ wake = FALSE /\ current = TRUE
    /\ rpc = "top" /\ spc = "idle"
    /\ wpc = [w \in Workers |-> "idle"] /\ then = wpc

-----------------------------------------------------------------------------
\* The client and the kernel.

ClientSend ==
    /\ ~gone /\ sent < MaxFrames
    /\ sent' = sent + 1 /\ avail' = avail + 1
    /\ UNCHANGED <<conn, table, gone, jobs, wake, current, threads>>

ClientHangup ==
    /\ ~gone /\ gone' = TRUE
    /\ UNCHANGED <<conn, table, sent, avail, jobs, wake, current, threads>>

\* A response write succeeds, or throws once the peer is gone or the
\* connection was shut down.
WriteFails == (gone \/ closing) /\ closing' = TRUE
WriteSucceeds == ~closing /\ UNCHANGED closing

\* close_connection: the entry stays while dispatched work refers to it.
CloseConnection ==
    /\ closing' = (closing \/ entry)
    /\ shut' = (shut \/ entry)
    /\ armed' = (armed /\ ~entry)
    /\ entry' = (entry /\ (active # 0 \/ serial # 0))
    /\ UNCHANGED <<busy, partial, streamActive, workerOwned, sessionCapable, active, serial>>

-----------------------------------------------------------------------------
\* run_reactor.

\* expire_reactor_connections collects under the lock; a deadline counts for a
\* partly received request, or when no response is pending.
Expire ==
    /\ rpc = "top"
    /\ \/ /\ entry /\ ~streamActive /\ ~workerOwned
          /\ closing \/ (hasTimeout /\ (partial \/ (active = 0 /\ serial = 0)))
          /\ rpc' = "expired"
       \/ /\ ~(entry /\ ~streamActive /\ ~workerOwned /\ closing)
          /\ rpc' = "wait"
    /\ UNCHANGED <<conn, table, client, jobs, wake, current, wpc, then, spc, extra>>

\* ... and closes after it has released it.
ExpireClose ==
    /\ rpc = "expired"
    /\ CloseConnection
    /\ rpc' = "wait"
    /\ UNCHANGED <<client, jobs, wake, current, wpc, then, spc, extra>>

Woken ==
    /\ rpc = "wait" /\ wake
    /\ wake' = FALSE /\ rpc' = "top"
    /\ UNCHANGED <<conn, table, client, jobs, current, wpc, then, spc, extra>>

Timeout ==
    /\ rpc = "wait" /\ hasTimeout
    /\ rpc' = "top"
    /\ UNCHANGED <<conn, table, client, jobs, wake, current, wpc, then, spc, extra>>

Fetch ==
    /\ rpc = "wait" /\ armed /\ (avail > 0 \/ gone \/ shut)
    /\ rpc' = "fetched" /\ current' = TRUE
    /\ UNCHANGED <<conn, table, client, jobs, wake, wpc, then, spc, extra>>

\* Faulty: takes an event of a leased descriptor.
HandleLeased ==
    /\ rpc = "fetched"
    /\ busy' = (busy \/ (entry /\ ~closing))
    /\ rpc' = IF ~entry THEN "top" ELSE IF closing \/ gone THEN "close" ELSE "consume"
    /\ UNCHANGED <<conn, entry, partial, armed, shut, client, jobs, wake, current, wpc, then, spc, extra>>

\* The event is matched with the entry under connections_mutex.
HandleEvent ==
    /\ rpc = "fetched"
    /\ LET skip == ~entry \/ ~current \/ (~closing /\ (streamActive \/ workerOwned))
       IN  /\ busy' = (busy \/ (~skip /\ ~closing))
           /\ rpc' = IF skip THEN "top" ELSE IF closing \/ gone THEN "close" ELSE "consume"
    /\ UNCHANGED <<conn, entry, partial, armed, shut, client, jobs, wake, current, wpc, then, spc, extra>>

EventClose ==
    /\ rpc = "close"
    /\ CloseConnection
    /\ rpc' = "top"
    /\ UNCHANGED <<client, jobs, wake, current, wpc, then, spc, extra>>

\* One frame of consume, with dispatch_request or dispatch_stream.
ParseFrame(kind) ==
    /\ rpc = "consume" /\ avail > 0 /\ kind \in Kinds
    /\ avail' = avail - 1 /\ partial' = FALSE

ConsumeFixed ==
    /\ ParseFrame("fixed")
    /\ jobs' = Append(jobs, "fixed") /\ active' = active + 1
    /\ sessionCapable' = TRUE
    /\ UNCHANGED <<closing, streamActive, workerOwned, serial, entry, busy, armed, shut, sent,
                   gone, wake, current, threads>>

ConsumeSerialized ==
    /\ ParseFrame("serialized")
    /\ serial' = serial + 1
    /\ UNCHANGED <<closing, streamActive, workerOwned, sessionCapable, active, entry, busy,
                   armed, shut, sent, gone, jobs, wake, current, threads>>

ConsumeBusy ==
    /\ ParseFrame("busy")
    /\ \/ WriteSucceeds /\ UNCHANGED rpc
       \/ WriteFails /\ rpc' = "close"
    /\ UNCHANGED <<streamActive, workerOwned, sessionCapable, active, serial, entry,
                   busy, armed, shut, sent, gone, jobs, wake, current, wpc, then, spc, extra>>

\* A stream needs an idle connection and a free slot; its worker then owns the
\* descriptor.
ConsumeStream ==
    /\ ParseFrame("stream")
    /\ \/ /\ closing' = TRUE /\ rpc' = "close"
          /\ UNCHANGED <<streamActive, busy, armed, jobs>>
       \/ /\ active = 0 /\ serial = 0
          /\ armed' = FALSE /\ streamActive' = TRUE /\ busy' = FALSE
          /\ jobs' = Append(jobs, "stream")
          /\ rpc' = "top"
          /\ UNCHANGED closing
    /\ UNCHANGED <<workerOwned, sessionCapable, active, serial, entry, shut, sent, gone, wake,
                   current, wpc, then, spc, extra>>

ConsumeBad ==
    /\ ParseFrame("bad")
    /\ closing' = TRUE /\ rpc' = "close"
    /\ UNCHANGED <<streamActive, workerOwned, sessionCapable, active, serial, entry,
                   busy, armed, shut, sent, gone, jobs, wake, current, wpc, then, spc, extra>>

\* Nothing more to parse, or only part of a frame.
ConsumeEnd ==
    /\ rpc = "consume"
    /\ partial' \in {partial, TRUE}
    /\ rpc' = IF closing THEN "close" ELSE "top"
    /\ busy' = (busy /\ closing)
    /\ UNCHANGED <<conn, entry, armed, shut, client, jobs, wake, current, wpc, then, spc, extra>>

-----------------------------------------------------------------------------
\* worker_loop and continue_connection.

Goto(w, pc) == wpc' = [wpc EXCEPT ![w] = pc]

Take(w) ==
    /\ wpc[w] = "idle" /\ jobs # <<>>
    /\ jobs' = Tail(jobs)
    /\ Goto(w, IF Head(jobs) = "stream" THEN "stream" ELSE "write")
    /\ UNCHANGED <<conn, table, client, wake, current, rpc, then, spc, extra>>

\* The handler has run: write_fixed_response, whose failure is caught.  A full
\* output queue closes the connection on the spot.
Write(w) ==
    /\ wpc[w] = "write"
    /\ \/ /\ WriteFails \/ WriteSucceeds
          /\ UNCHANGED <<table, streamActive, workerOwned, sessionCapable, active, serial>>
       \/ CloseConnection
    /\ Goto(w, "complete")
    /\ UNCHANGED <<client, jobs, wake, current, rpc, then, spc, extra>>

\* complete_regular_request
Complete(w) ==
    /\ wpc[w] = "complete"
    /\ active' = active - 1
    /\ Goto(w, IF active = 1 THEN "last" ELSE "idle")
    /\ UNCHANGED <<closing, streamActive, workerOwned, sessionCapable, serial, table,
                   client, jobs, wake, current, rpc, then, spc, extra>>

\* Faulty: the last worker of a closing connection does not wake the reactor.
LastSilently(w) ==
    /\ wpc[w] = "last"
    /\ Goto(w, IF closing THEN "idle" ELSE "lease")
    /\ UNCHANGED <<conn, table, client, jobs, wake, current, rpc, then, spc, extra>>

LastDone(w) ==
    /\ wpc[w] = "last"
    /\ wake' = (wake \/ closing)
    /\ Goto(w, IF closing THEN "idle" ELSE "lease")
    /\ UNCHANGED <<conn, table, client, jobs, current, rpc, then, spc, extra>>

\* try_acquire_continuation_lease; paused reads also refuse it.
Lease(w) ==
    /\ wpc[w] = "lease"
    /\ \/ /\ entry /\ ~busy /\ sessionCapable /\ ~closing /\ active = 0 /\ serial = 0
          /\ ~partial /\ ~streamActive /\ ~workerOwned
          /\ armed' = FALSE /\ workerOwned' = TRUE
          /\ Goto(w, "reading")
       \/ Goto(w, "idle") /\ UNCHANGED <<armed, workerOwned>>
    /\ UNCHANGED <<entry, busy, partial, shut, closing, streamActive, sessionCapable, active,
                   serial, client, jobs, wake, current, rpc, then, spc, extra>>

\* The worker reads one request itself, and accounts for it ...
ReadRequest(w) ==
    /\ wpc[w] = "reading" /\ avail > 0
    /\ \E kind \in Kinds \cap {"fixed", "serialized", "busy"} :
          then' = [then EXCEPT ![w] = IF kind = "fixed" THEN "write" ELSE kind]
    /\ avail' = avail - 1 /\ active' = active + 1
    /\ Goto(w, "rearm")
    /\ UNCHANGED <<closing, streamActive, workerOwned, sessionCapable, serial, table,
                   sent, gone, jobs, wake, current, rpc, spc, extra>>

\* ... or finds nothing within the grace period, a stream frame (left to the
\* reactor), or an error, which closes.
ReadNothing(w) ==
    /\ wpc[w] = "reading"
    /\ \/ UNCHANGED <<closing, avail>>
       \/ (gone \/ closing) /\ closing' = TRUE /\ UNCHANGED avail
       \/ avail > 0 /\ "bad" \in Kinds /\ closing' = TRUE /\ avail' = avail - 1
    /\ then' = [then EXCEPT ![w] = "idle"]
    /\ Goto(w, "rearm")
    /\ UNCHANGED <<streamActive, workerOwned, sessionCapable, active, serial, table,
                   sent, gone, jobs, wake, current, rpc, spc, extra>>

\* run_stream_exchange ends, well or with closing set.
StreamExchange(w) ==
    /\ wpc[w] = "stream"
    /\ closing' \in {closing, TRUE}
    /\ then' = [then EXCEPT ![w] = "idle"]
    /\ Goto(w, "rearm")
    /\ UNCHANGED <<streamActive, workerOwned, sessionCapable, active, serial, table,
                   client, jobs, wake, current, rpc, spc, extra>>

\* rearm_connection: closing is tested before connections_mutex is taken.
Rearm(w) ==
    /\ wpc[w] = "rearm"
    /\ \/ closing /\ CloseConnection /\ Goto(w, then[w])
       \/ ~closing /\ Goto(w, "insert") /\ UNCHANGED <<conn, table>>
    /\ UNCHANGED <<client, jobs, wake, current, rpc, then, spc, extra>>

Insert(w) ==
    /\ wpc[w] = "insert"
    /\ entry' = TRUE /\ armed' = TRUE /\ busy' = FALSE /\ partial' = FALSE
    /\ streamActive' = FALSE /\ workerOwned' = FALSE
    /\ current' = FALSE
    /\ Goto(w, then[w])
    /\ UNCHANGED <<closing, shut, sessionCapable, active, serial, client, jobs, wake, rpc,
                   then, spc, extra>>

\* Faulty: returns without complete_regular_request.
ServeUncompleted(w) ==
    /\ wpc[w] = "serialized"
    /\ serial' = serial + 1
    /\ Goto(w, "idle")
    /\ UNCHANGED <<closing, streamActive, workerOwned, sessionCapable, active, table,
                   client, jobs, wake, current, rpc, then, spc, extra>>

\* serve_fixed_request: the serialized job now carries the accounting ...
ServeSerialized(w) ==
    /\ wpc[w] = "serialized"
    /\ serial' = serial + 1
    /\ Goto(w, "complete")
    /\ UNCHANGED <<closing, streamActive, workerOwned, sessionCapable, active, table,
                   client, jobs, wake, current, rpc, then, spc, extra>>

\* ... or the domain is busy.  The reply is not in a try block: when it throws,
\* continue_connection's handler closes and rearms, and returns.
ServeBusy(w) ==
    /\ wpc[w] = "busy"
    /\ \/ WriteSucceeds /\ Goto(w, "complete") /\ UNCHANGED <<then, leaked>>
       \/ /\ WriteFails /\ Goto(w, "rearm")
          /\ then' = [then EXCEPT ![w] = "idle"] /\ leaked' = leaked + 1
    /\ UNCHANGED <<streamActive, workerOwned, sessionCapable, active, serial, table,
                   client, jobs, wake, current, rpc, spc, hasTimeout>>

-----------------------------------------------------------------------------
\* A serialized worker, as far as this connection sees it.

SerialTake ==
    /\ spc = "idle" /\ serial > 0
    /\ spc' = "write"
    /\ UNCHANGED <<conn, table, client, jobs, wake, current, rpc, wpc, then, extra>>

SerialWrite ==
    /\ spc = "write"
    /\ \/ /\ WriteFails \/ WriteSucceeds
          /\ UNCHANGED <<table, streamActive, workerOwned, sessionCapable, active, serial>>
       \/ CloseConnection
    /\ spc' = "done"
    /\ UNCHANGED <<client, jobs, wake, current, rpc, wpc, then, extra>>

SerialDone ==
    /\ spc = "done"
    /\ serial' = serial - 1 /\ spc' = "wake"
    /\ UNCHANGED <<closing, streamActive, workerOwned, sessionCapable, active, table,
                   client, jobs, wake, current, rpc, wpc, then, extra>>

SerialWake ==
    /\ spc = "wake"
    /\ wake' = TRUE /\ spc' = "idle"
    /\ UNCHANGED <<conn, table, client, jobs, current, rpc, wpc, then, extra>>

-----------------------------------------------------------------------------
Reactor ==
    \/ Expire \/ ExpireClose \/ Woken \/ Fetch \/ HandleEvent \/ EventClose
    \/ ConsumeFixed \/ ConsumeSerialized \/ ConsumeBusy \/ ConsumeStream \/ ConsumeBad
    \/ ConsumeEnd

Worker(w) ==
    \/ Take(w) \/ Write(w) \/ Complete(w) \/ LastDone(w) \/ Lease(w)
    \/ ReadRequest(w) \/ ReadNothing(w) \/ StreamExchange(w) \/ Rearm(w) \/ Insert(w)
    \/ ServeSerialized(w) \/ ServeBusy(w)

Serial == SerialTake \/ SerialWrite \/ SerialDone \/ SerialWake

LeaseNext ==
    \/ ClientSend \/ ClientHangup
    \/ Reactor \/ Timeout
    \/ \E w \in Workers : Worker(w)
    \/ Serial

LeaseSpec == LeaseInit /\ [][LeaseNext]_leaseVars

\* Every thread that can run does; handlers, grace waits and writes end.
LeaseFairness ==
    /\ WF_leaseVars(Reactor) /\ WF_leaseVars(Serial)
    /\ \A w \in Workers : WF_leaseVars(Worker(w))

LeaseFairSpec == LeaseSpec /\ LeaseFairness

-----------------------------------------------------------------------------
\* Properties.

\* The workers that read the descriptor.
Readers == {w \in Workers : wpc[w] \in {"reading", "stream"}}

\* core.hpp: either the reactor parses frames on the descriptor or a worker owns
\* it as an exclusive lease.  No two threads read it at the same time.
ExclusiveReader == /\ \A v, w \in Readers : v = w
                   /\ rpc = "consume" => Readers = {}

Holding == {"write", "complete", "serialized", "busy"}

HoldsRequest(w) == wpc[w] \in Holding \/ (wpc[w] \in {"rearm", "insert"} /\ then[w] \in Holding)

\* active_regular counts the requests that are queued or in a worker's hands: an
\* accounted request goes back to complete_regular_request on every path, as
\* serve_fixed_request says of its own failure path, with one exception: a busy
\* reply that throws on the continuation path drops the request it counted.
AccountedIsHeld ==
    active = Cardinality({i \in DOMAIN jobs : jobs[i] = "fixed"})
             + Cardinality({w \in Workers : HoldsRequest(w)}) + leaked

\* core.hpp: worker_owned means that a fixed-request worker is leasing the
\* descriptor.  The reactor leaves such an entry alone, so without a lessee it
\* would stay in the table for good.
LeaseHasOwner ==
    entry /\ workerOwned => \E w \in Workers : wpc[w] \in {"reading", "rearm", "insert"}

\* A connection that starts closing leaves the table, unless a failed busy reply
\* has leaked a request of it or the late expiry has left it without a lessee.
ClosingIsRemoved == closing ~> ~entry \/ leaked > 0 \/ ~LeaseHasOwner
=============================================================================
