---------------------------- MODULE ClientSession ----------------------------
(***************************************************************************)
(* A client Session: threads in request_impl share one connection, and     *)
(* session_reader_loop hands each response to the slot its id names.       *)
(*                                                                         *)
(* The in-flight table is split into shards, each with a lock; the reader  *)
(* holds one while it fills a slot, which lives on the caller's stack.     *)
(* The server answers every request once, in any order, or hangs up.       *)
(***************************************************************************)
EXTENDS Integers, FiniteSets

CONSTANTS Callers,       \* threads that call request
          Shards,        \* inflight_shard_count
          Configs,       \* option sets: whether request_timeout is set, and the number
                         \* of request ids, which is 2^32 in the code
          CanCancel,     \* callers pass a CancellationSource, protocol 3
          MaxCalls       \* bound: calls of request

ASSUME SessionAssumption ==
    /\ Shards \in Nat \ {0} /\ IsFiniteSet(Callers)
    /\ Configs \subseteq [deadline : BOOLEAN, ids : Nat]
    /\ \A c \in Configs : c.ids > Cardinality(Callers)
    /\ CanCancel \in BOOLEAN /\ MaxCalls \in Nat

NoCall == 0      \* calls are numbered from 1

VARIABLES config,      \* the member of Configs, fixed for a behaviour
          broken,      \* SessionState::broken
          down,        \* the socket is shut down, or the peer hung up
          nextId,      \* next_id
          calls,       \* calls of request so far
          cpc,         \* where each caller is
          call, id,    \* its call's number and request id
          inTable,     \* its slot is in the in-flight table
          done,        \* Slot::done
          result,      \* the call whose response it got, NoCall for an error
          timedOut,    \* its timed_out
          wire,        \* requests sent and not answered, <<id, call>>
          rpc,         \* where the reader thread is
          frame,       \* the response the reader holds
          locked,      \* the shard the reader has locked, or Shards for none
          swept,       \* shards the reader has failed
          stats,       \* the CounterShard of each shard
          dpc          \* where the destructor is

callers == <<call, id, inTable, done, result, timedOut>>
reader == <<rpc, frame, locked, swept>>
life == <<config, dpc>>
vars == <<life, broken, down, nextId, calls, cpc, callers, wire, reader, stats>>

HasDeadline == config.deadline
Ids == 0..(config.ids - 1)
ShardOf(i) == i % Shards

Counters == {"started", "completed", "timedOut", "failed"}

TypeOK ==
    /\ config \in Configs /\ dpc \in {"live", "joining", "joined"}
    /\ broken \in BOOLEAN /\ down \in BOOLEAN
    /\ nextId \in Ids /\ calls \in 0..MaxCalls
    /\ cpc \in [Callers -> {"idle", "pick", "insert", "send", "sendFailed", "shutdown",
                            "wait", "cancel", "cancelled", "erase", "break"}]
    /\ call \in [Callers -> 0..MaxCalls] /\ result \in [Callers -> 0..MaxCalls]
    /\ id \in [Callers -> Ids]
    /\ \A f \in {inTable, done, timedOut} : f \in [Callers -> BOOLEAN]
    /\ wire \subseteq Ids \X (1..MaxCalls)
    /\ rpc \in {"top", "read", "deliver", "notify", "sweep", "stopped"}
    /\ frame \in Ids \X (0..MaxCalls)
    /\ locked \in 0..Shards /\ swept \in 0..Shards
    /\ stats \in [0..(Shards - 1) -> [Counters -> 0..MaxCalls]]

Init ==
    /\ config \in Configs /\ dpc = "live"
    /\ broken = FALSE /\ down = FALSE /\ calls = 0
    /\ nextId = 1 % config.ids
    /\ cpc = [k \in Callers |-> "idle"]
    /\ call = [k \in Callers |-> NoCall] /\ result = call
    /\ id = [k \in Callers |-> 0]
    /\ inTable = [k \in Callers |-> FALSE] /\ done = inTable /\ timedOut = inTable
    /\ wire = {} /\ rpc = "top" /\ frame = <<0, NoCall>>
    /\ locked = Shards /\ swept = 0
    /\ stats = [s \in 0..(Shards - 1) |-> [c \in Counters |-> 0]]

Goto(k, pc) == cpc' = [cpc EXCEPT ![k] = pc]
Count(k, c) == stats' = [stats EXCEPT ![ShardOf(id[k])][c] = @ + 1]
CanLock(k) == locked # ShardOf(id[k])

-----------------------------------------------------------------------------
\* request_impl.

Begin(k) ==
    /\ cpc[k] = "idle" /\ dpc = "live" /\ ~broken /\ calls < MaxCalls
    /\ calls' = calls + 1
    /\ call' = [call EXCEPT ![k] = calls + 1]
    /\ done' = [done EXCEPT ![k] = FALSE]
    /\ result' = [result EXCEPT ![k] = NoCall]
    /\ timedOut' = [timedOut EXCEPT ![k] = FALSE]
    /\ Goto(k, "pick")
    /\ UNCHANGED <<life, broken, down, nextId, id, inTable, wire, reader, stats>>

\* Id 0 is skipped.
PickId(k) ==
    /\ cpc[k] = "pick"
    /\ nextId' = (nextId + 1) % config.ids
    /\ id' = [id EXCEPT ![k] = nextId]
    /\ Goto(k, IF nextId = 0 THEN "pick" ELSE "insert")
    /\ UNCHANGED <<life, broken, down, calls, call, inTable, done, result, timedOut, wire,
                   reader, stats>>

InUse(i) == \E k \in Callers : inTable[k] /\ id[k] = i

\* Faulty: inserts whatever is in the table.
InsertOver(k) ==
    /\ cpc[k] = "insert" /\ CanLock(k)
    /\ \/ broken /\ Goto(k, "idle") /\ UNCHANGED <<inTable, stats>>
       \/ /\ ~broken /\ inTable' = [inTable EXCEPT ![k] = TRUE]
          /\ Count(k, "started") /\ Goto(k, "send")
    /\ UNCHANGED <<life, broken, down, nextId, calls, call, id, done, result, timedOut, wire, reader>>

\* Faulty: does not test broken again under the lock.
InsertBroken(k) ==
    /\ cpc[k] = "insert" /\ CanLock(k)
    /\ \/ InUse(id[k]) /\ Goto(k, "pick") /\ UNCHANGED <<inTable, stats>>
       \/ /\ ~InUse(id[k]) /\ inTable' = [inTable EXCEPT ![k] = TRUE]
          /\ Count(k, "started") /\ Goto(k, "send")
    /\ UNCHANGED <<life, broken, down, nextId, calls, call, id, done, result, timedOut, wire, reader>>

\* Under the shard's lock: broken is tested again, and so is the id.
Insert(k) ==
    /\ cpc[k] = "insert" /\ CanLock(k)
    /\ \/ /\ broken
          /\ Goto(k, "idle") /\ UNCHANGED <<inTable, stats>>
       \/ /\ ~broken /\ InUse(id[k])
          /\ Goto(k, "pick") /\ UNCHANGED <<inTable, stats>>
       \/ /\ ~broken /\ ~InUse(id[k])
          /\ inTable' = [inTable EXCEPT ![k] = TRUE]
          /\ Count(k, "started")
          /\ Goto(k, "send")
    /\ UNCHANGED <<life, broken, down, nextId, calls, call, id, done, result, timedOut, wire, reader>>

\* The write fails on a dead connection, or runs into a deadline.
Send(k) ==
    /\ cpc[k] = "send"
    /\ \/ /\ ~down
          /\ wire' = wire \cup {<<id[k], call[k]>>}
          /\ Goto(k, "wait") /\ UNCHANGED broken
       \/ /\ down \/ HasDeadline
          /\ broken' = TRUE
          /\ Goto(k, "sendFailed") /\ UNCHANGED wire
    /\ UNCHANGED <<life, down, nextId, calls, callers, reader, stats>>

\* Faulty: a failed send is not counted.
SendFailedUncounted(k) ==
    /\ cpc[k] = "sendFailed" /\ CanLock(k)
    /\ inTable' = [inTable EXCEPT ![k] = FALSE]
    /\ Goto(k, "shutdown")
    /\ UNCHANGED <<life, broken, down, nextId, calls, call, id, done, result, timedOut, wire,
                   reader, stats>>

SendFailed(k) ==
    /\ cpc[k] = "sendFailed" /\ CanLock(k)
    /\ inTable' = [inTable EXCEPT ![k] = FALSE]
    /\ Count(k, "failed")
    /\ Goto(k, "shutdown")
    /\ UNCHANGED <<life, broken, down, nextId, calls, call, id, done, result, timedOut, wire, reader>>

Shutdown(k) ==
    /\ cpc[k] = "shutdown"
    /\ down' = TRUE
    /\ Goto(k, "idle")
    /\ UNCHANGED <<life, broken, nextId, calls, callers, wire, reader, stats>>

\* The spin and the condition wait.  The slot's mutex, which the reader holds
\* with the shard's lock, is taken before done counts.
Await(k) ==
    /\ cpc[k] = "wait"
    /\ \/ done[k] /\ CanLock(k) /\ Goto(k, "erase") /\ UNCHANGED timedOut
       \/ /\ ~done[k] /\ HasDeadline
          /\ timedOut' = [timedOut EXCEPT ![k] = TRUE]
          /\ Goto(k, "erase")
       \/ ~done[k] /\ CanCancel /\ Goto(k, "cancel") /\ UNCHANGED timedOut
    /\ UNCHANGED <<life, broken, down, nextId, calls, call, id, inTable, done, result, wire,
                   reader, stats>>

\* The cancel frame; a cancelled call still waits for its response.
SendCancel(k) ==
    /\ cpc[k] = "cancel"
    /\ \/ ~down /\ UNCHANGED <<life, broken, down>>
       \/ (down \/ HasDeadline) /\ broken' = TRUE /\ down' = TRUE
    /\ Goto(k, "cancelled")
    /\ UNCHANGED <<life, nextId, calls, callers, wire, reader, stats>>

AwaitCancelled(k) ==
    /\ cpc[k] = "cancelled"
    /\ \/ done[k] /\ CanLock(k) /\ UNCHANGED timedOut
       \/ /\ ~done[k] /\ HasDeadline
          /\ timedOut' = [timedOut EXCEPT ![k] = TRUE]
    /\ Goto(k, "erase")
    /\ UNCHANGED <<life, broken, down, nextId, calls, call, id, inTable, done, result, wire,
                   reader, stats>>

\* Faulty: leaves the table without its lock.
EraseUnlocked(k) ==
    /\ cpc[k] = "erase"
    /\ inTable' = [inTable EXCEPT ![k] = FALSE]
    /\ Count(k, IF timedOut[k] THEN "timedOut"
                ELSE IF result[k] = NoCall THEN "failed" ELSE "completed")
    /\ Goto(k, IF timedOut[k] THEN "break" ELSE "idle")
    /\ UNCHANGED <<life, broken, down, nextId, calls, call, id, done, result, timedOut, wire, reader>>

Erase(k) ==
    /\ cpc[k] = "erase" /\ CanLock(k)
    /\ inTable' = [inTable EXCEPT ![k] = FALSE]
    /\ Count(k, IF timedOut[k] THEN "timedOut"
                ELSE IF result[k] = NoCall THEN "failed" ELSE "completed")
    /\ Goto(k, IF timedOut[k] THEN "break" ELSE "idle")
    /\ UNCHANGED <<life, broken, down, nextId, calls, call, id, done, result, timedOut, wire, reader>>

\* A timed-out call breaks the session, after it has left the table.
Break(k) ==
    /\ cpc[k] = "break"
    /\ broken' = TRUE
    /\ Goto(k, "shutdown")
    /\ UNCHANGED <<life, down, nextId, calls, callers, wire, reader, stats>>

-----------------------------------------------------------------------------
\* The server hangs up; session_reader_loop.

PeerClose ==
    /\ ~down /\ down' = TRUE
    /\ UNCHANGED <<life, broken, nextId, calls, cpc, callers, wire, reader, stats>>

\* A response arrives and its id is looked up under the shard's lock; an
\* unknown id, or one that is already answered, is a protocol error.
ReadResponse ==
    /\ rpc = "read" /\ ~down
    /\ \E m \in wire :
          /\ wire' = wire \ {m}
          /\ frame' = m
          /\ \/ /\ \E k \in Callers : inTable[k] /\ id[k] = m[1] /\ ~done[k]
                /\ rpc' = "deliver" /\ locked' = ShardOf(m[1])
                /\ UNCHANGED broken
             \/ /\ ~\E k \in Callers : inTable[k] /\ id[k] = m[1] /\ ~done[k]
                /\ rpc' = "sweep" /\ broken' = TRUE
                /\ UNCHANGED locked
    /\ UNCHANGED <<life, down, nextId, calls, cpc, callers, swept, stats>>

\* The slot is filled, then done is set and the waiter notified.
Deliver ==
    /\ rpc = "deliver"
    /\ \E k \in Callers :
          /\ inTable[k] /\ id[k] = frame[1]
          /\ result' = [result EXCEPT ![k] = frame[2]]
          /\ done' = [done EXCEPT ![k] = TRUE]
    /\ rpc' = "notify"
    /\ UNCHANGED <<life, broken, down, nextId, calls, cpc, call, id, inTable, timedOut, wire,
                   frame, locked, swept, stats>>

Notify ==
    /\ rpc = "notify"
    /\ locked' = Shards /\ rpc' = "top" /\ frame' = <<0, NoCall>>
    /\ UNCHANGED <<life, broken, down, nextId, calls, cpc, callers, wire, swept, stats>>

\* Faulty: stops without failing the calls in flight.
ReadErrorUnswept ==
    /\ rpc = "read" /\ down
    /\ broken' = TRUE /\ rpc' = "stopped"
    /\ UNCHANGED <<life, down, nextId, calls, cpc, callers, wire, frame, locked, swept, stats>>

\* End of file or a receive error.
ReadError ==
    /\ rpc = "read" /\ down
    /\ broken' = TRUE /\ rpc' = "sweep"
    /\ UNCHANGED <<life, down, nextId, calls, cpc, callers, wire, frame, locked, swept, stats>>

\* Every slot of one shard that is not done gets the error, under its lock.
Sweep ==
    /\ rpc = "sweep"
    /\ done' = [k \in Callers |-> done[k] \/ (inTable[k] /\ ShardOf(id[k]) = swept)]
    /\ swept' = swept + 1
    /\ rpc' = IF swept' = Shards THEN "stopped" ELSE "sweep"
    /\ UNCHANGED <<life, broken, down, nextId, calls, cpc, call, id, inTable, result, timedOut,
                   wire, frame, locked, stats>>

-----------------------------------------------------------------------------
\* shutdown_session_state, from the destructor or a move assignment.  No call is
\* in progress then; the reader leaves at the top of its loop, or through the end
\* of file that the shutdown causes.
Destroy ==
    /\ dpc = "live" /\ \A k \in Callers : cpc[k] = "idle"
    /\ down' = TRUE /\ dpc' = "joining"
    /\ UNCHANGED <<config, broken, nextId, calls, cpc, callers, wire, reader, stats>>

LoopTop ==
    /\ rpc = "top"
    /\ rpc' = IF dpc = "live" THEN "read" ELSE "stopped"
    /\ UNCHANGED <<life, broken, down, nextId, calls, cpc, callers, wire, frame, locked, swept,
                   stats>>

JoinReader ==
    /\ dpc = "joining" /\ rpc = "stopped"
    /\ dpc' = "joined"
    /\ UNCHANGED <<config, broken, down, nextId, calls, cpc, callers, wire, reader, stats>>

-----------------------------------------------------------------------------
Caller(k) ==
    \/ PickId(k) \/ Insert(k) \/ Send(k) \/ SendFailed(k) \/ Shutdown(k)
    \/ Await(k) \/ SendCancel(k) \/ AwaitCancelled(k) \/ Erase(k) \/ Break(k)

Reader == LoopTop \/ ReadResponse \/ Deliver \/ Notify \/ ReadError \/ Sweep

Next == \/ \E k \in Callers : Begin(k) \/ Caller(k)
        \/ PeerClose \/ Reader \/ Destroy \/ JoinReader

Spec == Init /\ [][Next]_vars

\* The threads run, and the server answers what it received.
Fairness == WF_vars(Reader) /\ WF_vars(JoinReader) /\ \A k \in Callers : WF_vars(Caller(k))

FairSpec == Spec /\ Fairness

-----------------------------------------------------------------------------
\* Properties.

\* README: concurrent calls are correlated by request id.  A call never gets
\* the response to another one, although ids wrap around and are used again.
OwnResponse == \A k \in Callers : inTable[k] /\ result[k] # NoCall => result[k] = call[k]

\* The slot the reader is filling is on the stack of a call that has not
\* returned: its owner can leave only through the shard's lock.
SlotAlive ==
    rpc = "deliver" => \E k \in Callers : inTable[k] /\ id[k] = frame[1]
                                          /\ cpc[k] \notin {"idle", "pick", "insert"}

\* No call slips into a shard behind the reader's last sweep of it, where
\* nobody would ever complete it.
SweptIsDone ==
    \A k \in Callers : inTable[k] /\ ShardOf(id[k]) < swept => done[k]

\* Every started call is in its shard's table or was counted there once as
\* completed, timed out or failed.  So the sums of stats(), which locks one shard
\* after the other while calls come and go, always add up.
StatsConserved ==
    \A s \in 0..(Shards - 1) :
        stats[s]["started"] = stats[s]["completed"] + stats[s]["timedOut"] + stats[s]["failed"]
                              + Cardinality({k \in Callers : inTable[k] /\ ShardOf(id[k]) = s})

\* Every call returns, even without a deadline: answered, or failed by the
\* reader's sweep when the session breaks for any reason.
CallReturns == \A k \in Callers : cpc[k] # "idle" ~> cpc[k] = "idle"

=============================================================================
