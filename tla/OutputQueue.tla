----------------------------- MODULE OutputQueue -----------------------------
(***************************************************************************)
(* How responses leave the server: write_fixed_response sends what the     *)
(* socket takes and queues the rest within two budgets, the reactor        *)
(* flushes the queue when the socket is writable, close_connection drops   *)
(* it, and a worker may take the descriptor out of the poller meanwhile    *)
(* (the continuation lease) and put it back (rearm_connection).            *)
(*                                                                         *)
(* A response is a frame of Size units; the unit <<r, i>> stands for the   *)
(* i-th part of the response to request r.  A queue of frames with offsets *)
(* is the sequence of their unsent units.                                  *)
(***************************************************************************)
EXTENDS Integers, Sequences, FiniteSets, FiniteSetsExt

CONSTANTS Requests, Conns, ConnOf,   \* requests and the connection each is sent on
          Size,          \* units of each response
          SocketRoom,    \* units the kernel holds for a client that does not read
          MaxOutput,     \* max_output_bytes_per_connection
          MaxTotalOutput,\* max_total_output_bytes; 0 is no limit
          MaxFlush,      \* kMaxFlushBytes
          Configs,       \* the configurations to choose from: leases, timeouts
          NoConn

ASSUME SizeAssumption ==
    /\ IsFiniteSet(Requests) /\ \A r \in Requests : ConnOf[r] \in Conns
    /\ \A r \in Requests : Size[r] \in Nat \ {0}
    /\ SocketRoom \in Nat /\ MaxOutput \in Nat /\ MaxTotalOutput \in Nat /\ MaxFlush \in Nat

VARIABLES config,      \* leases: no aggregate request budget; timeouts: io_timeout > 0
          stage,       \* where each request and its worker are
          outq,        \* output_queue
          queued,      \* queued_output_bytes
          total,       \* total_queued_output_bytes
          active,      \* active_regular
          registered,  \* the interest of the poller in the descriptor
          owned,       \* worker_owned: the request whose worker leases it
          closing, entry,
          flushing,    \* the connection the reactor has just flushed
          sock,        \* the kernel's buffer towards the client
          recv,        \* what the client has read
          peer,        \* the client's end: "open", "shut" by the server, "gone"
          cut          \* responses whose remainder no budget took after a part was sent

conn == <<registered, owned, closing, entry>>
client == <<recv, peer>>
kept == <<config, cut>>
vars == <<kept, stage, outq, queued, total, active, conn, flushing, sock, client>>

Of(c) == {r \in Requests : ConnOf[r] = c}
Frame(r) == [i \in 1..Size[r] |-> <<r, i>>]
Units == UNION {{<<r, i>> : i \in 1..Size[r]} : r \in Requests}
Interests == SUBSET {"readable", "writable"}

TypeOK ==
    /\ config \in Configs
    /\ stage \in [Requests -> {"idle", "sent", "work", "overflow", "refresh",
                               "written", "leased", "rearm", "done"}]
    /\ \A c \in Conns :
          /\ \A i \in 1..Len(outq[c]) : outq[c][i] \in Units
          /\ queued[c] \in Nat
          /\ active[c] \in 0..Cardinality(Of(c))
          /\ Len(sock[c]) <= SocketRoom
    /\ total \in Nat
    /\ registered \in [Conns -> Interests]
    /\ owned \in [Conns -> BOOLEAN]
    /\ closing \in [Conns -> BOOLEAN] /\ entry \in [Conns -> BOOLEAN]
    /\ flushing \in Conns \cup {NoConn}
    /\ peer \in [Conns -> {"open", "shut", "gone"}] /\ cut \subseteq Requests

\* Connections are accepted and registered for reading.
Init ==
    /\ config \in Configs
    /\ stage = [r \in Requests |-> "idle"]
    /\ outq = [c \in Conns |-> <<>>] /\ queued = [c \in Conns |-> 0] /\ total = 0
    /\ active = [c \in Conns |-> 0]
    /\ registered = [c \in Conns |-> {"readable"}]
    /\ owned = [c \in Conns |-> FALSE]
    /\ closing = [c \in Conns |-> FALSE] /\ entry = [c \in Conns |-> TRUE]
    /\ flushing = NoConn
    /\ sock = [c \in Conns |-> <<>>] /\ recv = [c \in Conns |-> <<>>]
    /\ peer = [c \in Conns |-> "open"] /\ cut = {}

Goto(r, s) == stage' = [stage EXCEPT ![r] = s]

-----------------------------------------------------------------------------
\* The client of a session: it pipelines requests, reads, or goes away.

ClientSend(r) ==
    /\ stage[r] = "idle" /\ peer[ConnOf[r]] = "open"
    /\ Goto(r, "sent")
    /\ UNCHANGED <<kept, outq, queued, total, active, conn, flushing, sock, client>>

ClientRead(c) ==
    /\ peer[c] # "gone" /\ sock[c] # <<>>
    /\ recv' = [recv EXCEPT ![c] = Append(@, Head(sock[c]))]
    /\ sock' = [sock EXCEPT ![c] = Tail(@)]
    /\ UNCHANGED <<kept, stage, outq, queued, total, active, conn, flushing, peer>>

ClientHangup(c) ==
    /\ peer[c] # "gone"
    /\ peer' = [peer EXCEPT ![c] = "gone"]
    /\ sock' = [sock EXCEPT ![c] = <<>>]
    /\ UNCHANGED <<kept, stage, outq, queued, total, active, conn, flushing, recv>>

-----------------------------------------------------------------------------
\* close_connection: the descriptor leaves the poller and is shut down, the queue
\* and its bytes are dropped; the entry stays while a request is being served.

\* Faulty: keeps the queue of a connection it forgets.
CloseKeeping(c) ==
    IF ~entry[c] THEN UNCHANGED <<conn, outq, queued, total, peer>>
    ELSE /\ closing' = [closing EXCEPT ![c] = TRUE]
         /\ registered' = [registered EXCEPT ![c] = {}]
         /\ peer' = [peer EXCEPT ![c] = IF @ = "open" THEN "shut" ELSE @]
         /\ entry' = [entry EXCEPT ![c] = active[c] # 0]
         /\ UNCHANGED <<owned, outq, queued, total>>

CloseConnection(c) ==
    IF ~entry[c] THEN UNCHANGED <<conn, outq, queued, total, peer>>
    ELSE /\ closing' = [closing EXCEPT ![c] = TRUE]
         /\ registered' = [registered EXCEPT ![c] = {}]
         /\ peer' = [peer EXCEPT ![c] = IF @ = "open" THEN "shut" ELSE @]
         /\ outq' = [outq EXCEPT ![c] = <<>>]
         /\ queued' = [queued EXCEPT ![c] = 0]
         /\ total' = total - queued[c]
         /\ entry' = [entry EXCEPT ![c] = active[c] # 0]
         /\ UNCHANGED owned

\* refresh_connection_events
CanRefresh(c) == entry[c] /\ ~closing[c] /\ ~owned[c]
Interest(c) == {"readable"} \cup (IF queued[c] # 0 THEN {"writable"} ELSE {})

-----------------------------------------------------------------------------
\* A worker that answers request r: write_fixed_response, ...

\* Faulty: compares the frame with the limits and leaves out what is queued.
FitsAlone(c, n) ==
    /\ n <= MaxOutput
    /\ MaxTotalOutput = 0 \/ n <= MaxTotalOutput

Fits(c, n) ==
    /\ n <= MaxOutput /\ queued[c] <= MaxOutput - n
    /\ MaxTotalOutput = 0 \/ total + n <= MaxTotalOutput

\* direct: nothing is queued, so the frame is offered to the socket first.
WriteFrame(r, direct) ==
    LET c == ConnOf[r]
        sent == IF direct THEN Min({Size[r], SocketRoom - Len(sock[c])}) ELSE 0
        rest == SubSeq(Frame(r), sent + 1, Size[r])
        failed == direct /\ peer[c] # "open"
    IN  /\ stage[r] = "work"
        /\ closing' = [closing EXCEPT ![c] = @ \/ failed]
        /\ sock' = IF failed THEN sock
                   ELSE [sock EXCEPT ![c] = @ \o SubSeq(Frame(r), 1, sent)]
        /\ IF failed \/ rest = <<>>
           THEN Goto(r, "written") /\ UNCHANGED <<outq, queued, total>>
           ELSE IF Fits(c, Len(rest))
           THEN /\ outq' = [outq EXCEPT ![c] = @ \o rest]
                /\ queued' = [queued EXCEPT ![c] = @ + Len(rest)]
                /\ total' = total + Len(rest)
                /\ Goto(r, "refresh")
           ELSE Goto(r, "overflow") /\ UNCHANGED <<outq, queued, total>>
        /\ cut' = IF stage'[r] = "overflow" /\ sent > 0 THEN cut \cup {r} ELSE cut
        /\ UNCHANGED <<config, active, registered, owned, entry, flushing, client>>

\* Faulty: sends past the frames that are queued.
WriteThrough(r) == WriteFrame(r, TRUE)

WriteFixedResponse(r) == WriteFrame(r, outq[ConnOf[r]] = <<>>)

Overflow(r) ==
    /\ stage[r] = "overflow"
    /\ CloseConnection(ConnOf[r])
    /\ Goto(r, "written")
    /\ UNCHANGED <<kept, active, flushing, sock, recv>>

\* Faulty: leaves the interest as it is.
EnableNothing(r) ==
    /\ stage[r] = "refresh" /\ Goto(r, "written")
    /\ UNCHANGED <<kept, outq, queued, total, active, conn, flushing, sock, client>>

\* ... the interest in writable events, whose failure closes the connection, ...
EnableOutput(r) ==
    LET c == ConnOf[r] IN
    /\ stage[r] = "refresh" /\ Goto(r, "written")
    /\ registered' = IF CanRefresh(c) THEN [registered EXCEPT ![c] = Interest(c)]
                     ELSE registered
    /\ closing' = [closing EXCEPT ![c] = @ \/ ~CanRefresh(c)]
    /\ UNCHANGED <<kept, outq, queued, total, active, owned, entry, flushing, sock, client>>

\* ... and complete_regular_request: the last request of a connection may take
\* the continuation lease, which removes the descriptor from the poller.
Complete(r) ==
    LET c == ConnOf[r]
        lease == /\ active[c] = 1 /\ config.leases
                 /\ entry[c] /\ ~closing[c] /\ ~owned[c] /\ flushing # c
    IN  /\ stage[r] = "written"
        /\ active' = [active EXCEPT ![c] = @ - 1]
        /\ owned' = [owned EXCEPT ![c] = @ \/ lease]
        /\ registered' = IF lease THEN [registered EXCEPT ![c] = {}] ELSE registered
        /\ Goto(r, IF lease THEN "leased" ELSE "done")
        /\ UNCHANGED <<kept, outq, queued, total, closing, entry, flushing, sock, client>>

\* rearm_connection: the descriptor is registered for reading.
Rearmed(c) ==
    IF closing[c] THEN CloseConnection(c)
    ELSE /\ owned' = [owned EXCEPT ![c] = FALSE]
         /\ registered' = [registered EXCEPT ![c] = {"readable"}]
         /\ entry' = [entry EXCEPT ![c] = TRUE]
         /\ UNCHANGED <<closing, outq, queued, total, peer>>

\* continue_connection: a next request arrives within the grace period, ...
Continue(r) ==
    LET c == ConnOf[r] IN
    /\ stage[r] = "leased" /\ ~closing[c]
    /\ \E n \in Of(c) :
          /\ stage[n] = "sent"
          /\ stage' = [stage EXCEPT ![r] = "done", ![n] = "rearm"]
    /\ active' = [active EXCEPT ![c] = @ + 1]
    /\ UNCHANGED <<kept, outq, queued, total, conn, flushing, sock, client>>

\* ... and is served after the rearm, ...
RearmAndServe(r) ==
    /\ stage[r] = "rearm"
    /\ Rearmed(ConnOf[r])
    /\ Goto(r, "work")
    /\ UNCHANGED <<kept, active, flushing, sock, recv>>

\* ... or nothing arrives, or the peer is gone.
Release(r) ==
    LET c == ConnOf[r] IN
    /\ stage[r] = "leased"
    /\ IF peer[c] = "open" THEN Rearmed(c)
       ELSE CloseConnection(c)
    /\ Goto(r, "done")
    /\ UNCHANGED <<kept, active, flushing, sock, recv>>

-----------------------------------------------------------------------------
\* The reactor.

\* A readable event: the request is dispatched to a worker.
Dispatch(r) ==
    LET c == ConnOf[r] IN
    /\ stage[r] = "sent" /\ "readable" \in registered[c]
    /\ entry[c] /\ ~closing[c] /\ ~owned[c] /\ flushing = NoConn
    /\ active' = [active EXCEPT ![c] = @ + 1]
    /\ Goto(r, "work")
    /\ UNCHANGED <<kept, outq, queued, total, conn, flushing, sock, client>>

\* A writable event: flush_connection_output sends what fits, ...
Flush(c) ==
    LET n == Min({MaxFlush, Len(outq[c]), SocketRoom - Len(sock[c])}) IN
    /\ "writable" \in registered[c] /\ n > 0
    /\ entry[c] /\ ~closing[c] /\ ~owned[c] /\ flushing = NoConn /\ peer[c] = "open"
    /\ sock' = [sock EXCEPT ![c] = @ \o SubSeq(outq[c], 1, n)]
    /\ outq' = [outq EXCEPT ![c] = SubSeq(@, n + 1, Len(@))]
    /\ queued' = [queued EXCEPT ![c] = @ - n]
    /\ total' = total - n
    /\ flushing' = c
    /\ UNCHANGED <<kept, stage, active, conn, client>>

\* ... and drops the interest when nothing is left.
FlushRefresh(c) ==
    /\ flushing = c /\ flushing' = NoConn
    /\ registered' = IF outq[c] = <<>> /\ CanRefresh(c)
                     THEN [registered EXCEPT ![c] = Interest(c)] ELSE registered
    /\ UNCHANGED <<kept, stage, outq, queued, total, active, owned, closing, entry, sock, client>>

\* A hangup or error event, a connection that is closing, or an output deadline.
Expire(c) ==
    /\ entry[c] /\ ~owned[c] /\ flushing = NoConn
    /\ \/ closing[c]
       \/ registered[c] # {} /\ peer[c] # "open"
       \/ config.timeouts /\ queued[c] > 0
    /\ CloseConnection(c)
    /\ UNCHANGED <<kept, stage, active, flushing, sock, recv>>

-----------------------------------------------------------------------------
Worker(r) ==
    \/ WriteFixedResponse(r) \/ Overflow(r) \/ EnableOutput(r) \/ Complete(r)
    \/ Continue(r) \/ RearmAndServe(r) \/ Release(r)

Reactor ==
    \/ \E r \in Requests : Dispatch(r)
    \/ \E c \in Conns : Flush(c) \/ FlushRefresh(c)

Next ==
    \/ \E r \in Requests : ClientSend(r) \/ Worker(r)
    \/ \E c \in Conns : ClientRead(c) \/ ClientHangup(c) \/ Expire(c)
    \/ Reactor

Spec == Init /\ [][Next]_vars

\* Threads run, and clients read what they are sent.
Fairness ==
    /\ \A r \in Requests : WF_vars(Worker(r)) /\ WF_vars(Dispatch(r))
    /\ \A c \in Conns : SF_vars(Flush(c)) /\ WF_vars(FlushRefresh(c))
                        /\ WF_vars(ClientRead(c))

FairSpec == Spec /\ Fairness

-----------------------------------------------------------------------------
\* Properties.

\* The two budgets hold: what is queued for one connection and for all of them
\* never exceeds max_output_bytes_per_connection and max_total_output_bytes, with
\* several workers reserving at once.
OutputBounded ==
    /\ \A c \in Conns : Len(outq[c]) <= MaxOutput
    /\ MaxTotalOutput # 0 => total <= MaxTotalOutput

\* Responses do not interleave: what a client has read, what the kernel holds and
\* what is queued is a sequence of whole frames, cut only at its end.  The one
\* exception is in the code: a response that overflows the budgets after a part of
\* it was sent leaves output_mutex before the connection is closed, and another
\* worker may write behind the part.
FramesWhole ==
    \A c \in Conns :
        LET all == recv[c] \o (IF peer[c] = "gone" THEN <<>> ELSE sock[c] \o outq[c]) IN
        \A i \in 1..Len(all) :
            \/ all[i][2] = 1 /\ (i = 1 \/ all[i - 1][2] = Size[all[i - 1][1]]
                                        \/ all[i - 1][1] \in cut)
            \/ i > 1 /\ all[i] = <<all[i - 1][1], all[i - 1][2] + 1>>

\* Queued bytes can be reclaimed: output is queued only for a connection that is
\* still in the table, where a flush, an expiry or a close finds it.
QueuedIsReachable == \A c \in Conns : outq[c] # <<>> => entry[c]

\* Delivery, as the README promises it: a response that does not fit is handed to
\* a queue and reaches a client that keeps reading, unless the connection closes.
Delivered(r) == Frame(r)[Size[r]] \in {recv[ConnOf[r]][i] : i \in 1..Len(recv[ConnOf[r]])}

QueuedIsDelivered ==
    \A r \in Requests :
        stage[r] = "refresh"
            ~> Delivered(r) \/ closing[ConnOf[r]] \/ peer[ConnOf[r]] = "gone"

\* The same where no continuation lease is taken, that is under an aggregate
\* request budget: the interest in writable events follows the queue.
DeliveredWithoutLease ==
    \A r \in Requests :
        stage[r] = "refresh" /\ ~config.leases
            ~> Delivered(r) \/ closing[ConnOf[r]] \/ peer[ConnOf[r]] = "gone"
=============================================================================
