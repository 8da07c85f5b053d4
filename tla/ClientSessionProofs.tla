------------------------- MODULE ClientSessionProofs -------------------------
(***************************************************************************)
(* Proofs about ClientSession for any callers, shards, number of ids and   *)
(* number of calls: the lifetime of slots, the sweep, the statistics and   *)
(* the correlation of responses with calls.                                *)
(***************************************************************************)
EXTENDS ClientSession, FiniteSetTheorems, TLAPS

\* Every step is tried with SMT and Zenon and, where a loaded machine needs it, with
\* SMT for longer.
USE SMT, Zenon, SMTT(30)

InFlight == {"send", "sendFailed", "wait", "cancel", "cancelled", "erase"}

InShard(s) == {k \in Callers : inTable[k] /\ ShardOf(id[k]) = s}

Types ==
    /\ config \in Configs /\ nextId \in Nat
    /\ id \in [Callers -> Nat] /\ DOMAIN cpc = Callers
    /\ inTable \in [Callers -> BOOLEAN] /\ done \in [Callers -> BOOLEAN]
    /\ swept \in Nat
    /\ stats \in [0..(Shards - 1) -> [Counters -> Nat]]

\* A slot is in the table from the insertion to the removal of its call.
TableIsInFlight == \A k \in Callers : inTable[k] <=> cpc[k] \in InFlight

\* A sweep begins after the session is marked broken.
SweepIsBroken == rpc = "sweep" \/ swept > 0 => broken

\* The reader fills a slot under its shard's lock.
DeliverLocks ==
    rpc = "deliver" => /\ locked = ShardOf(frame[1])
                       /\ \E k \in Callers : inTable[k] /\ id[k] = frame[1]

IInv == /\ Types /\ TableIsInFlight /\ SweepIsBroken /\ SweptIsDone /\ DeliverLocks
        /\ StatsConserved

-----------------------------------------------------------------------------
\* The shard of an id is one of the table's shards.
LEMMA ShardType == ASSUME NEW i \in Nat PROVE ShardOf(i) \in 0..(Shards - 1)
  BY SessionAssumption DEF ShardOf

\* The calls of a shard are finitely many.
LEMMA InShardFinite == ASSUME NEW s PROVE IsFiniteSet(InShard(s)) /\ Cardinality(InShard(s)) \in Nat
<1>1. InShard(s) \in SUBSET Callers
  BY Zenon DEF InShard
<1> QED
  BY <1>1, SessionAssumption, FS_Subset, FS_CardinalityType, Zenon

\* StatsConserved, one shard at a time.
LEMMA ConservedByShard ==
    StatsConserved <=>
        \A s \in 0..(Shards - 1) :
            stats[s]["started"] = stats[s]["completed"] + stats[s]["timedOut"] + stats[s]["failed"]
                                  + Cardinality(InShard(s))
  BY Zenon DEF StatsConserved, InShard

\* The initial state satisfies the inductive invariant.
LEMMA InitInvariant == Init => IInv
<1> SUFFICES ASSUME Init PROVE IInv
  BY Zenon
<1>1. config \in [deadline : BOOLEAN, ids : Nat] /\ config.ids \in Nat \ {0}
  <2>1. Cardinality(Callers) \in Nat
    BY SessionAssumption, FS_CardinalityType, Zenon
  <2> QED
    BY <2>1, SessionAssumption DEF Init
<1>2. Types
  BY <1>1 DEF Init, Types
<1>3. TableIsInFlight /\ SweepIsBroken /\ SweptIsDone /\ DeliverLocks
  BY DEF Init, TableIsInFlight, InFlight, SweepIsBroken, SweptIsDone, DeliverLocks
<1>4. StatsConserved
  <2>1. \A s : InShard(s) = {}
    BY Zenon DEF InShard, Init
  <2> QED
    BY <2>1, FS_EmptySet, ConservedByShard DEF Init, Counters
<1> QED
  BY <1>2, <1>3, <1>4, Zenon DEF IInv

\* Every step keeps the types.
LEMMA TypesStep == Types /\ [Next]_vars => Types'
<1> SUFFICES ASSUME Types, [Next]_vars PROVE Types'
  BY Zenon
<1> USE SessionAssumption DEF Types, callers, reader, life
<1>0. config.ids \in Nat \ {0}
  <2>1. Cardinality(Callers) \in Nat
    BY FS_CardinalityType, Zenon
  <2> QED
    BY <2>1
<1>1. ASSUME NEW k \in Callers, Begin(k) PROVE Types'
  BY <1>1, Zenon DEF Begin, Goto
<1>2. ASSUME NEW k \in Callers, PickId(k) PROVE Types'
  BY <1>0, <1>2 DEF PickId, Goto
<1>3. ASSUME NEW k \in Callers, Insert(k) \/ SendFailed(k) \/ Erase(k) PROVE Types'
  <2>1. ShardOf(id[k]) \in 0..(Shards - 1)
    BY ShardType, Zenon
  <2>2. \A c \in Counters : Count(k, c) => stats' \in [0..(Shards - 1) -> [Counters -> Nat]]
    BY <2>1 DEF Count
  <2>3. stats' \in [0..(Shards - 1) -> [Counters -> Nat]]
    BY <1>3, <2>2, Zenon DEF Insert, SendFailed, Erase, Counters
  <2> QED
    BY <1>3, <2>3, Zenon DEF Insert, SendFailed, Erase, Goto
<1>4. ASSUME NEW k \in Callers, Send(k) \/ Shutdown(k) \/ Await(k) \/ SendCancel(k)
                                \/ AwaitCancelled(k) \/ Break(k)
      PROVE Types'
  BY <1>4, Zenon DEF Send, Shutdown, Await, SendCancel, AwaitCancelled, Break, Goto
<1>5. ASSUME PeerClose \/ LoopTop \/ ReadResponse \/ Notify \/ ReadError \/ Destroy \/ JoinReader
      PROVE Types'
  BY <1>5, Zenon DEF PeerClose, LoopTop, ReadResponse, Notify, ReadError, Destroy, JoinReader
<1>6. CASE Deliver
  BY <1>6, Zenon DEF Deliver
<1>7. CASE Sweep
  BY <1>7 DEF Sweep
<1>8. CASE UNCHANGED vars
  BY <1>8, Zenon DEF vars
<1> QED
  BY <1>1, <1>2, <1>3, <1>4, <1>5, <1>6, <1>7, <1>8, Zenon DEF Next, Caller, Reader

\* Every step keeps the table, the sweep and the reader's lock as they should be.
LEMMA TableStep ==
    Types /\ TableIsInFlight /\ SweepIsBroken /\ SweptIsDone /\ DeliverLocks /\ [Next]_vars
        => TableIsInFlight' /\ SweepIsBroken' /\ SweptIsDone' /\ DeliverLocks'
<1> DEFINE Good == TableIsInFlight /\ SweepIsBroken /\ SweptIsDone /\ DeliverLocks
<1> SUFFICES ASSUME Types, Good, [Next]_vars PROVE Good'
  BY Zenon
<1> USE DEF Types, TableIsInFlight, InFlight, SweepIsBroken, SweptIsDone, DeliverLocks,
            CanLock, Goto, callers, reader, life
<1>0. \A k \in Callers : ShardOf(id[k]) \in Nat
  BY ShardType, SessionAssumption
<1>1. ASSUME NEW k \in Callers, Begin(k) PROVE Good'
  BY <1>1, Zenon DEF Begin
<1>2. ASSUME NEW k \in Callers, PickId(k) PROVE Good'
  BY <1>2, Zenon DEF PickId
<1>3. ASSUME NEW k \in Callers, Insert(k) PROVE Good'
  <2>1. CASE broken \/ InUse(id[k])
    BY <1>3, <2>1 DEF Insert
  <2>2. CASE ~broken /\ ~InUse(id[k])
    <3>1. swept = 0 /\ inTable' = [inTable EXCEPT ![k] = TRUE] /\ cpc' = [cpc EXCEPT ![k] = "send"]
      BY <1>3, <2>2 DEF Insert
    <3>2. UNCHANGED <<broken, id, done, frame, rpc, locked, swept>>
      BY <1>3, Zenon DEF Insert
    <3> QED
      BY <1>0, <3>1, <3>2
  <2> QED
    BY <2>1, <2>2, Zenon
<1>4. ASSUME NEW k \in Callers, SendFailed(k) PROVE Good'
  BY <1>4, Zenon DEF SendFailed
<1>5. ASSUME NEW k \in Callers, Erase(k) PROVE Good'
  BY <1>5, Zenon DEF Erase
<1>6. ASSUME NEW k \in Callers, Send(k) \/ Shutdown(k) \/ Break(k) PROVE Good'
  <2>1. UNCHANGED <<id, inTable, done, reader>> /\ (broken => broken')
    BY <1>6, Zenon DEF Send, Shutdown, Break
  <2>2. \E pc : /\ cpc' = [cpc EXCEPT ![k] = pc]
                /\ pc \in InFlight <=> cpc[k] \in InFlight
    BY <1>6 DEF Send, Shutdown, Break
  <2> QED
    BY <2>1, <2>2, Zenon
<1>7. ASSUME NEW k \in Callers, Await(k) \/ SendCancel(k) \/ AwaitCancelled(k) PROVE Good'
  <2>1. UNCHANGED <<id, inTable, done, reader>> /\ (broken => broken')
    BY <1>7, Zenon DEF Await, SendCancel, AwaitCancelled
  <2>2. cpc[k] \in InFlight /\ \E pc \in InFlight : cpc' = [cpc EXCEPT ![k] = pc]
    BY <1>7, Zenon DEF Await, SendCancel, AwaitCancelled
  <2> QED
    BY <2>1, <2>2, Zenon
<1>8. CASE PeerClose \/ LoopTop \/ Notify \/ ReadError \/ Destroy \/ JoinReader
  BY <1>8 DEF PeerClose, LoopTop, Notify, ReadError, Destroy, JoinReader
<1>9. CASE ReadResponse
  BY <1>9 DEF ReadResponse
<1>10. CASE Deliver
  BY <1>10, Zenon DEF Deliver
<1>11. CASE Sweep
  <2>1. /\ UNCHANGED <<broken, cpc, id, inTable>> /\ rpc' # "deliver" /\ swept' = swept + 1
        /\ done' = [k \in Callers |-> done[k] \/ (inTable[k] /\ ShardOf(id[k]) = swept)]
    BY <1>11, Zenon DEF Sweep
  <2>2. SweptIsDone'
    <3> SUFFICES ASSUME NEW k \in Callers, inTable[k], ShardOf(id[k]) < swept + 1
                 PROVE  done'[k]
      BY <2>1, Zenon
    <3>1. ShardOf(id[k]) < swept \/ ShardOf(id[k]) = swept
      BY <1>0
    <3> QED
      BY <2>1, <3>1, Zenon
  <2> QED
    BY <1>11, <2>1, <2>2 DEF Sweep
<1>12. CASE UNCHANGED vars
  BY <1>12, Zenon DEF vars
<1> QED
  BY <1>1, <1>2, <1>3, <1>4, <1>5, <1>6, <1>7, <1>8, <1>9, <1>10, <1>11, <1>12, Zenon
  DEF Next, Caller, Reader

\* Every step keeps each shard's counters in agreement with its part of the table.
LEMMA StatsStep ==
    Types /\ TableIsInFlight /\ StatsConserved /\ [Next]_vars => StatsConserved'
<1> SUFFICES ASSUME Types, TableIsInFlight, StatsConserved, [Next]_vars PROVE StatsConserved'
  BY Zenon
<1> DEFINE Rest(f) == f["completed"] + f["timedOut"] + f["failed"]
<1> DEFINE Sum(s) == stats[s]["started"] = Rest(stats[s]) + Cardinality(InShard(s))
<1>1. \A s \in 0..(Shards - 1) : Sum(s)
  BY ConservedByShard, Zenon
<1>2. SUFFICES \A s \in 0..(Shards - 1) : Sum(s)'
  BY Zenon DEF StatsConserved, InShard
<1> USE DEF Types
\* Steps that leave the counters and the table alone; an id changes only outside of it.
<1>3. ASSUME UNCHANGED <<stats, inTable>>, \A k \in Callers : inTable[k] => id'[k] = id[k]
      PROVE  \A s \in 0..(Shards - 1) : Sum(s)'
  <2>1. \A s : InShard(s)' = InShard(s)
    BY <1>3, Zenon DEF InShard, ShardOf
  <2> QED
    BY <1>1, <1>3, <2>1, Zenon
\* Steps that put a call in the table or take it out, and count it.
<1>4. ASSUME NEW k \in Callers, NEW c \in Counters, NEW b \in BOOLEAN, inTable[k] = ~b,
             b <=> c = "started", Count(k, c), UNCHANGED id,
             inTable' = [inTable EXCEPT ![k] = b]
      PROVE  \A s \in 0..(Shards - 1) : Sum(s)'
  <2> SUFFICES ASSUME NEW s \in 0..(Shards - 1) PROVE Sum(s)'
    BY Zenon
  <2>0. ShardOf(id[k]) \in 0..(Shards - 1)
    BY ShardType, Zenon
  <2>1. CASE s # ShardOf(id[k])
    <3>1. InShard(s)' = InShard(s)
      BY <1>4, <2>1, Zenon DEF InShard, ShardOf
    <3>2. stats'[s] = stats[s]
      BY <1>4, <2>0, <2>1, Zenon DEF Count
    <3> QED
      BY <1>1, <3>1, <3>2, Zenon
  <2>2. CASE s = ShardOf(id[k])
    <3>1. stats'[s] = [stats[s] EXCEPT ![c] = @ + 1] /\ stats[s] \in [Counters -> Nat]
      BY <1>4, <2>0, <2>2, Zenon DEF Count
    <3>2. IsFiniteSet(InShard(s)) /\ Cardinality(InShard(s)) \in Nat
      BY InShardFinite, Zenon
    <3>3. CASE b
      <4>1. InShard(s)' = InShard(s) \cup {k} /\ k \notin InShard(s)
        BY <1>4, <2>2, <3>3, Zenon DEF InShard, ShardOf
      <4>2. Cardinality(InShard(s)') = Cardinality(InShard(s)) + 1
        BY <3>2, <4>1, FS_AddElement, Zenon
      <4>3. stats'[s]["started"] = stats[s]["started"] + 1 /\ Rest(stats'[s]) = Rest(stats[s])
        BY <1>4, <3>1, <3>3, Zenon DEF Counters
      <4> QED
        BY <1>1, <3>1, <3>2, <4>2, <4>3 DEF Counters
    <3>4. CASE ~b
      <4>1. InShard(s)' = InShard(s) \ {k} /\ k \in InShard(s)
        BY <1>4, <2>2, <3>4, Zenon DEF InShard, ShardOf
      <4>2. Cardinality(InShard(s)') = Cardinality(InShard(s)) - 1
        BY <3>2, <4>1, FS_RemoveElement, Zenon
      <4>3. stats'[s]["started"] = stats[s]["started"] /\ Rest(stats'[s]) = Rest(stats[s]) + 1
        BY <1>4, <3>1, <3>4 DEF Counters
      <4> QED
        BY <1>1, <3>1, <3>2, <4>2, <4>3 DEF Counters
    <3> QED
      BY <1>4, <3>3, <3>4, Zenon
  <2> QED
    BY <2>1, <2>2, Zenon
<1> USE DEF TableIsInFlight, InFlight, Goto, callers, reader, life
<1>5. ASSUME NEW k \in Callers, Begin(k) \/ PickId(k) PROVE \A s \in 0..(Shards - 1) : Sum(s)'
  BY <1>3, <1>5, Zenon DEF Begin, PickId
<1>6. ASSUME NEW k \in Callers, Insert(k) PROVE \A s \in 0..(Shards - 1) : Sum(s)'
  <2>1. CASE broken \/ InUse(id[k])
    BY <1>3, <1>6, <2>1, Zenon DEF Insert
  <2>2. CASE ~broken /\ ~InUse(id[k])
    <3>1. inTable[k] = ~TRUE /\ inTable' = [inTable EXCEPT ![k] = TRUE]
      BY <1>6, <2>2, Zenon DEF Insert
    <3>2. Count(k, "started") /\ UNCHANGED id
      BY <1>6, <2>2, Zenon DEF Insert
    <3> QED
      BY <1>4, <3>1, <3>2, Zenon DEF Counters
  <2> QED
    BY <2>1, <2>2, Zenon
<1>7. ASSUME NEW k \in Callers, SendFailed(k) \/ Erase(k) PROVE \A s \in 0..(Shards - 1) : Sum(s)'
  <2>1. inTable[k] = ~FALSE /\ inTable' = [inTable EXCEPT ![k] = FALSE] /\ UNCHANGED id
    BY <1>7, Zenon DEF SendFailed, Erase
  <2>2. \E c \in Counters \ {"started"} : Count(k, c)
    BY <1>7, Zenon DEF SendFailed, Erase, Counters
  <2> QED
    BY <1>4, <2>1, <2>2, Zenon
<1>8. ASSUME NEW k \in Callers, Send(k) \/ Shutdown(k) \/ Await(k) \/ SendCancel(k)
                                \/ AwaitCancelled(k) \/ Break(k)
      PROVE  \A s \in 0..(Shards - 1) : Sum(s)'
  <2>1. UNCHANGED <<stats, inTable, id>>
    BY <1>8, Zenon DEF Send, Shutdown, Await, SendCancel, AwaitCancelled, Break
  <2> QED
    BY <1>3, <2>1, Zenon
<1>9. ASSUME PeerClose \/ Reader \/ Destroy \/ JoinReader \/ UNCHANGED vars
      PROVE  \A s \in 0..(Shards - 1) : Sum(s)'
  <2>1. UNCHANGED <<stats, inTable, id>>
    BY <1>9, Zenon
       DEF PeerClose, Reader, LoopTop, ReadResponse, Deliver, Notify, ReadError, Sweep,
                Destroy, JoinReader, vars
  <2> QED
    BY <1>3, <2>1, Zenon
<1> QED
  BY <1>5, <1>6, <1>7, <1>8, <1>9, Zenon DEF Next, Caller

\* The invariant holds in every state of a session.
LEMMA Invariance == Spec => []IInv
<1>1. IInv /\ [Next]_vars => IInv'
  BY TypesStep, TableStep, StatsStep, Zenon DEF IInv
<1> QED
  BY InitInvariant, <1>1, PTL DEF Spec

\* No call slips into a shard behind the reader's sweep of it, whatever the number of
\* callers and shards (request_impl's second test of broken under the shard's lock).
THEOREM SweptCallsAreDone == Spec => []SweptIsDone
<1>1. IInv => SweptIsDone
  BY Zenon DEF IInv
<1> QED
  BY Invariance, <1>1, PTL

\* The slot that session_reader_loop fills belongs to a call that has not returned:
\* the reader holds the lock that its owner needs to leave.
THEOREM SlotsOutliveReader == Spec => []SlotAlive
<1>1. IInv => SlotAlive
  BY Zenon DEF IInv, DeliverLocks, TableIsInFlight, InFlight, SlotAlive
<1> QED
  BY Invariance, <1>1, PTL

\* SessionStats add up in every shard at any moment: started calls are in flight or
\* counted once as completed, timed out or failed.
THEOREM StatisticsAddUp == Spec => []StatsConserved
<1>1. IInv => StatsConserved
  BY Zenon DEF IInv
<1> QED
  BY Invariance, <1>1, PTL

-----------------------------------------------------------------------------
\* Correlation: which call a response on its way belongs to.

CallTypes ==
    /\ call \in [Callers -> Nat] /\ result \in [Callers -> Nat] /\ calls \in Nat
    /\ calls <= MaxCalls /\ wire \subseteq Nat \X Nat /\ frame \in Nat \X Nat

\* The responses that may still be delivered.
Coming == wire \cup (IF rpc = "deliver" THEN {frame} ELSE {})

\* A call that has not entered the table has no response.
FreshResult == \A k \in Callers : cpc[k] \in {"pick", "insert"} => result[k] = NoCall

\* The calls that no other one may share an id with.
Claimed == {k \in Callers : inTable[k] \/ cpc[k] = "insert"}

\* What the reader is about to deliver goes to the call it was sent for.
RightSlot == rpc = "deliver" => \A k \in Callers : inTable[k] /\ id[k] = frame[1] => call[k] = frame[2]

ResponseInv == CallTypes /\ FreshResult /\ OwnResponse

\* The initial state of a session has no call.
LEMMA InitResponse == Init => ResponseInv
  BY SessionAssumption DEF Init, ResponseInv, CallTypes, FreshResult, OwnResponse, NoCall

\* A response gets to its own call whenever the reader is right about the slot.
LEMMA ResponseStep == Types /\ TableIsInFlight /\ ResponseInv /\ RightSlot /\ [Next]_vars => ResponseInv'
<1> SUFFICES ASSUME Types, TableIsInFlight, ResponseInv, RightSlot, [Next]_vars PROVE ResponseInv'
  BY Zenon
<1> USE DEF Goto, callers, reader, life
<1>0. DOMAIN cpc = Callers /\ inTable \in [Callers -> BOOLEAN] /\ id \in [Callers -> Nat]
  BY Zenon DEF Types
<1>1. ASSUME NEW k \in Callers, Begin(k) PROVE ResponseInv'
  <2>1. /\ cpc[k] = "idle" /\ ~inTable[k] /\ calls < MaxCalls /\ calls' = calls + 1
        /\ call' = [call EXCEPT ![k] = calls + 1] /\ result' = [result EXCEPT ![k] = NoCall]
        /\ cpc' = [cpc EXCEPT ![k] = "pick"] /\ UNCHANGED <<inTable, wire, frame>>
    BY <1>1, Zenon DEF Begin, TableIsInFlight, InFlight
  <2>2. CallTypes'
    BY <2>1, SessionAssumption DEF ResponseInv, CallTypes, NoCall
  <2>3. FreshResult' /\ OwnResponse'
    BY <1>0, <2>1, Zenon DEF ResponseInv, CallTypes, FreshResult, OwnResponse
  <2> QED
    BY <2>2, <2>3, Zenon DEF ResponseInv
<1>2. ASSUME NEW k \in Callers, PickId(k) \/ Insert(k) PROVE ResponseInv'
  <2>1. /\ UNCHANGED <<call, result, calls, wire, frame>>
        /\ \A j \in Callers : j # k => inTable'[j] = inTable[j] /\ cpc'[j] = cpc[j]
        /\ cpc[k] \in {"pick", "insert"}
    BY <1>0, <1>2, Zenon DEF PickId, Insert
  <2> QED
    BY <2>1, Zenon DEF ResponseInv, CallTypes, FreshResult, OwnResponse
<1>3. ASSUME NEW k \in Callers, Send(k) PROVE ResponseInv'
  <2>1. /\ UNCHANGED <<call, result, calls, frame, inTable>>
        /\ wire' \subseteq wire \cup {<<id[k], call[k]>>}
        /\ \A j \in Callers : cpc'[j] \in {"pick", "insert"} => cpc[j] \in {"pick", "insert"}
    BY <1>0, <1>3, Zenon DEF Send
  <2>2. <<id[k], call[k]>> \in Nat \X Nat
    BY <1>0, Zenon DEF ResponseInv, CallTypes
  <2> QED
    BY <2>1, <2>2, Zenon DEF ResponseInv, CallTypes, FreshResult, OwnResponse
<1>4. ASSUME NEW k \in Callers, SendFailed(k) \/ Shutdown(k) \/ Await(k) \/ SendCancel(k)
                                \/ AwaitCancelled(k) \/ Erase(k) \/ Break(k)
      PROVE  ResponseInv'
  <2>1. UNCHANGED <<call, result, calls, wire, frame>>
    BY <1>4, Zenon DEF SendFailed, Shutdown, Await, SendCancel, AwaitCancelled, Erase, Break
  <2>2. UNCHANGED inTable \/ inTable' = [inTable EXCEPT ![k] = FALSE]
    BY <1>4, Zenon DEF SendFailed, Shutdown, Await, SendCancel, AwaitCancelled, Erase, Break
  <2>3. \E pc : cpc' = [cpc EXCEPT ![k] = pc] /\ pc \notin {"pick", "insert"}
    BY <1>4, Zenon DEF SendFailed, Shutdown, Await, SendCancel, AwaitCancelled, Erase, Break
  <2>4. \A j \in Callers : /\ inTable'[j] => inTable[j]
                           /\ cpc'[j] \in {"pick", "insert"} => cpc[j] \in {"pick", "insert"}
    BY <1>0, <2>2, <2>3, Zenon
  <2> QED
    BY <2>1, <2>4, Zenon DEF ResponseInv, CallTypes, FreshResult, OwnResponse
<1>5. CASE Deliver
  <2>1. PICK k \in Callers : inTable[k] /\ id[k] = frame[1]
                             /\ result' = [result EXCEPT ![k] = frame[2]]
    BY <1>5, Zenon DEF Deliver
  <2>2. call[k] = frame[2] /\ UNCHANGED <<call, calls, wire, frame, inTable, cpc>>
    BY <1>5, <2>1, Zenon DEF Deliver, RightSlot
  <2>3. cpc[k] \notin {"pick", "insert"} /\ frame[2] \in Nat
    BY <2>1, Zenon DEF TableIsInFlight, InFlight, ResponseInv, CallTypes
  <2> QED
    BY <2>1, <2>2, <2>3, Zenon DEF ResponseInv, CallTypes, FreshResult, OwnResponse
<1>6. CASE PeerClose \/ LoopTop \/ ReadResponse \/ Notify \/ ReadError \/ Sweep
           \/ Destroy \/ JoinReader \/ UNCHANGED vars
  <2>1. UNCHANGED <<call, result, calls, inTable, cpc>>
    BY <1>6, Zenon
       DEF PeerClose, LoopTop, ReadResponse, Notify, ReadError, Sweep, Destroy, JoinReader, vars
  <2>2. wire' \subseteq wire /\ frame' \in wire \cup {frame, <<0, NoCall>>}
    BY <1>6, Zenon
       DEF PeerClose, LoopTop, ReadResponse, Notify, ReadError, Sweep, Destroy, JoinReader, vars
  <2>3. CallTypes'
    BY <2>1, <2>2 DEF ResponseInv, CallTypes, NoCall
  <2> QED
    BY <2>1, <2>3, Zenon DEF ResponseInv, FreshResult, OwnResponse
<1> QED
  BY <1>1, <1>2, <1>3, <1>4, <1>5, <1>6, Zenon DEF Next, Caller, Reader

\* Without a deadline a call leaves the table only when it is done.  So while the reader
\* reads, every response on its way has its call waiting, and no other call has its id.
Waits(k, m) ==
    /\ inTable[k] /\ id[k] = m[1] /\ call[k] = m[2] /\ ~done[k]
    /\ cpc[k] \in {"wait", "cancel", "cancelled"}

Reading == rpc \notin {"sweep", "stopped"}

UniqueIds == \A j, k \in Callers : inTable[j] /\ inTable[k] /\ id[j] = id[k] => j = k

Undone == \A k \in Callers : cpc[k] \in {"pick", "insert", "send"} => ~done[k]

WaitingInv ==
    /\ UniqueIds
    /\ \A k \in Callers : cpc[k] = "erase" => done[k]
    /\ Reading => Undone /\ \A m \in Coming : \E k \in Callers : Waits(k, m)
    /\ rpc = "deliver" => frame \notin wire

\* The call that waits for a response is the one its id finds.
LEMMA WaitingIsRight == ASSUME WaitingInv PROVE RightSlot
<1> SUFFICES ASSUME rpc = "deliver", NEW k \in Callers, inTable[k], id[k] = frame[1]
             PROVE  call[k] = frame[2]
  BY Zenon DEF RightSlot
<1>1. PICK j \in Callers : Waits(j, frame)
  BY Zenon DEF WaitingInv, Reading, Coming
<1>2. j = k
  BY <1>1, Zenon DEF Waits, WaitingInv, UniqueIds
<1> QED
  BY <1>1, <1>2, Zenon DEF Waits

\* A step after which the same calls wait.
LEMMA WaitingKept ==
    ASSUME WaitingInv, Coming' \subseteq Coming, Reading' => Reading,
           \A k \in Callers, m \in Coming' : Waits(k, m) => Waits(k, m)',
           Reading /\ Undone => Undone', UniqueIds',
           \A k \in Callers : cpc'[k] = "erase" => done'[k],
           rpc' = "deliver" => frame' \notin wire'
    PROVE  WaitingInv'
<1>1. Reading' => Undone' /\ \A m \in Coming' : \E k \in Callers : Waits(k, m)'
  BY Zenon DEF WaitingInv
<1> QED
  BY <1>1, Zenon DEF WaitingInv

\* A step that moves one call, leaves what is on its way alone, and takes no id in use.
LEMMA WaitingMove ==
    ASSUME WaitingInv, NEW k \in Callers, UNCHANGED <<wire, rpc, frame>>,
           \A j \in Callers : j # k => /\ inTable'[j] = inTable[j] /\ id'[j] = id[j]
                                       /\ call'[j] = call[j] /\ done'[j] = done[j]
                                       /\ cpc'[j] = cpc[j],
           \/ cpc[k] \notin {"wait", "cancel", "cancelled"} \/ done[k]
           \/ /\ inTable'[k] = inTable[k] /\ id'[k] = id[k] /\ call'[k] = call[k]
              /\ done'[k] = done[k] /\ cpc'[k] \in {"wait", "cancel", "cancelled"},
           cpc'[k] \in {"pick", "insert", "send"} =>
               ~done'[k] \/ (cpc[k] \in {"pick", "insert", "send"} /\ done'[k] = done[k]),
           cpc'[k] = "erase" => done'[k],
           inTable'[k] => (inTable[k] /\ id'[k] = id[k]) \/ ~InUse(id'[k])
    PROVE  WaitingInv'
<1>1. Coming' = Coming /\ Reading' = Reading
  BY Zenon DEF Coming, Reading
<1>2. \A j \in Callers, m \in Coming' : Waits(j, m) => Waits(j, m)'
  BY Zenon DEF Waits
<1>3. Undone => Undone'
  BY Zenon DEF Undone
<1>4. UniqueIds'
  BY DEF InUse, WaitingInv, UniqueIds
<1>5. \A j \in Callers : cpc'[j] = "erase" => done'[j]
  BY Zenon DEF WaitingInv
<1>6. rpc' = "deliver" => frame' \notin wire'
  BY Zenon DEF WaitingInv
<1> QED
  BY <1>1, <1>2, <1>3, <1>4, <1>5, <1>6, WaitingKept, Zenon

\* A step of a call that does not send.
LEMMA WaitingCaller ==
    ASSUME Types, TableIsInFlight, CallTypes, WaitingInv, ~config.deadline, NEW k \in Callers,
           \/ Begin(k) \/ PickId(k) \/ Insert(k) \/ SendFailed(k) \/ Shutdown(k) \/ Await(k)
           \/ SendCancel(k) \/ AwaitCancelled(k) \/ Erase(k) \/ Break(k)
    PROVE  WaitingInv'
<1> USE DEF Goto, callers, reader
<1>0. /\ DOMAIN cpc = Callers /\ inTable \in [Callers -> BOOLEAN] /\ id \in [Callers -> Nat]
      /\ done \in [Callers -> BOOLEAN] /\ call \in [Callers -> Nat]
      /\ (inTable[k] <=> cpc[k] \in InFlight)
  BY Zenon DEF Types, TableIsInFlight, CallTypes
<1>1. CASE Begin(k)
  <2>1. /\ cpc[k] = "idle" /\ cpc' = [cpc EXCEPT ![k] = "pick"] /\ ~inTable[k]
        /\ done' = [done EXCEPT ![k] = FALSE] /\ call' = [call EXCEPT ![k] = calls + 1]
        /\ UNCHANGED <<wire, rpc, frame, inTable, id>>
    BY <1>0, <1>1, Zenon DEF Begin, InFlight
  <2> QED
    BY <1>0, <2>1, WaitingMove, Zenon
<1>2. CASE PickId(k)
  <2>1. /\ cpc[k] = "pick" /\ ~inTable[k] /\ id' = [id EXCEPT ![k] = nextId]
        /\ \E pc \in {"pick", "insert"} : cpc' = [cpc EXCEPT ![k] = pc]
        /\ UNCHANGED <<wire, rpc, frame, inTable, call, done>>
    BY <1>0, <1>2, Zenon DEF PickId, InFlight
  <2> QED
    BY <1>0, <2>1, WaitingMove, Zenon
<1>3. CASE Insert(k)
  <2>1. cpc[k] = "insert" /\ ~inTable[k] /\ UNCHANGED <<wire, rpc, frame, id, call, done>>
    BY <1>0, <1>3, Zenon DEF Insert, InFlight
  <2>2. \/ UNCHANGED inTable /\ \E pc \in {"idle", "pick"} : cpc' = [cpc EXCEPT ![k] = pc]
        \/ /\ ~InUse(id[k]) /\ inTable' = [inTable EXCEPT ![k] = TRUE]
           /\ cpc' = [cpc EXCEPT ![k] = "send"]
    BY <1>3, Zenon DEF Insert
  <2> QED
    BY <1>0, <2>1, <2>2, WaitingMove
<1>4. CASE SendFailed(k) \/ Erase(k)
  <2>1. /\ cpc[k] \in {"sendFailed", "erase"} /\ inTable' = [inTable EXCEPT ![k] = FALSE]
        /\ \E pc \in {"shutdown", "break", "idle"} : cpc' = [cpc EXCEPT ![k] = pc]
        /\ UNCHANGED <<wire, rpc, frame, id, call, done>>
    BY <1>4, Zenon DEF SendFailed, Erase
  <2> QED
    BY <1>0, <2>1, WaitingMove, Zenon
<1>5. CASE Shutdown(k) \/ Break(k)
  <2>1. /\ cpc[k] \in {"shutdown", "break"}
        /\ \E pc \in {"idle", "shutdown"} : cpc' = [cpc EXCEPT ![k] = pc]
        /\ UNCHANGED <<wire, rpc, frame, id, call, done, inTable>>
    BY <1>5, Zenon DEF Shutdown, Break
  <2> QED
    BY <1>0, <2>1, WaitingMove, Zenon
<1>6. CASE Await(k) \/ SendCancel(k) \/ AwaitCancelled(k)
  <2>1. UNCHANGED <<wire, rpc, frame, id, call, done, inTable>>
    BY <1>6, Zenon DEF Await, SendCancel, AwaitCancelled
  <2>2. \/ done[k] /\ cpc' = [cpc EXCEPT ![k] = "erase"]
        \/ cpc' = [cpc EXCEPT ![k] = "cancel"] \/ cpc' = [cpc EXCEPT ![k] = "cancelled"]
    BY <1>6, Zenon DEF Await, SendCancel, AwaitCancelled, HasDeadline
  <2> QED
    BY <1>0, <2>1, <2>2, WaitingMove, Zenon
<1> QED
  BY <1>1, <1>2, <1>3, <1>4, <1>5, <1>6, Zenon

\* A request is on its way: its call waits for the answer, and for no other one's.
LEMMA WaitingSend ==
    ASSUME Types, TableIsInFlight, WaitingInv, NEW k \in Callers, Send(k) PROVE WaitingInv'
<1>0. /\ DOMAIN cpc = Callers /\ inTable \in [Callers -> BOOLEAN] /\ inTable[k]
      /\ cpc[k] = "send"
  BY Zenon DEF Types, TableIsInFlight, InFlight, Send
<1>1. /\ UNCHANGED <<rpc, frame, inTable, id, call, done>> /\ Reading' = Reading
      /\ \A j \in Callers : j # k => cpc'[j] = cpc[j]
      /\ \/ cpc'[k] = "wait" /\ wire' = wire \cup {<<id[k], call[k]>>}
         \/ cpc'[k] = "sendFailed" /\ wire' = wire
  BY <1>0, Zenon DEF Send, Goto, callers, reader, Reading
<1>2. ASSUME Reading PROVE Undone' /\ \A m \in Coming' : \E j \in Callers : Waits(j, m)'
  <2>1. \A j \in Callers, m \in Coming : Waits(j, m) => Waits(j, m)'
    BY <1>0, <1>1, Zenon DEF Waits
  <2>2. ~done[k] /\ Undone'
    BY <1>0, <1>1, <1>2, Zenon DEF WaitingInv, Undone
  <2>3. cpc'[k] = "wait" => Waits(k, <<id[k], call[k]>>)'
    BY <1>0, <1>1, <2>2, Zenon DEF Waits
  <2>4. \A m \in Coming' : m \in Coming \/ (cpc'[k] = "wait" /\ m = <<id[k], call[k]>>)
    BY <1>1, Zenon DEF Coming
  <2> QED
    BY <1>1, <1>2, <2>1, <2>2, <2>3, <2>4, Zenon DEF WaitingInv
<1>3. rpc' = "deliver" => frame' \notin wire'
  <2> SUFFICES ASSUME rpc = "deliver" PROVE frame # <<id[k], call[k]>>
    BY <1>1, Zenon DEF WaitingInv
  <2>1. PICK j \in Callers : Waits(j, frame)
    BY Zenon DEF WaitingInv, Reading, Coming
  <2> QED
    BY <1>0, <2>1 DEF Waits, WaitingInv, UniqueIds
<1>4. UniqueIds' /\ \A j \in Callers : cpc'[j] = "erase" => done'[j]
  BY <1>1, Zenon DEF WaitingInv, UniqueIds
<1> QED
  BY <1>1, <1>2, <1>3, <1>4, Zenon DEF WaitingInv

\* The reader, the peer and the destructor move no call; responses only leave the wire.
LEMMA ReaderFrame ==
    ASSUME PeerClose \/ Reader \/ Destroy \/ JoinReader \/ UNCHANGED vars
    PROVE  UNCHANGED <<config, nextId, calls, id, call, cpc, inTable>> /\ wire' \subseteq wire
           /\ (rpc' = "deliver" => frame' \in Coming)
<1> USE DEF callers, reader, life, Coming
<1>1. CASE PeerClose \/ UNCHANGED vars
  BY <1>1, Zenon DEF PeerClose, vars
<1>2. CASE LoopTop \/ Notify
  BY <1>2, Zenon DEF LoopTop, Notify
<1>5. CASE Destroy \/ JoinReader
  BY <1>5, Zenon DEF Destroy, JoinReader
<1>6. CASE ReadError
  BY <1>6, Zenon DEF ReadError
<1>3. CASE ReadResponse
  BY <1>3, Zenon DEF ReadResponse
<1>4. CASE Deliver \/ Sweep
  BY <1>4, Zenon DEF Deliver, Sweep
<1> QED
  BY <1>1, <1>2, <1>3, <1>4, <1>5, <1>6, Zenon DEF Reader

\* A step of the reader, of the peer or of the destructor.
LEMMA WaitingReader ==
    ASSUME Types, TableIsInFlight, CallTypes, WaitingInv,
           PeerClose \/ Reader \/ Destroy \/ JoinReader \/ UNCHANGED vars
    PROVE  WaitingInv'
<1> USE DEF callers, reader, life
<1>0. UNCHANGED <<inTable, id, call, cpc>> /\ UniqueIds'
  BY ReaderFrame, Zenon DEF WaitingInv, UniqueIds
<1>1. CASE ReadError \/ Sweep
  <2>1. ~Reading' /\ rpc' # "deliver" /\ \A k \in Callers : done[k] => done'[k]
    BY <1>1, Zenon DEF ReadError, Sweep, Reading
  <2> QED
    BY <1>0, <2>1, Zenon DEF WaitingInv
<1>2. CASE PeerClose \/ LoopTop \/ Notify \/ Destroy \/ JoinReader \/ UNCHANGED vars
  <2>1. UNCHANGED <<done, wire>> /\ (rpc' = "deliver" => UNCHANGED <<rpc, frame>>) /\ (Reading' => Reading)
    BY <1>2, Zenon DEF PeerClose, LoopTop, Notify, Destroy, JoinReader, vars, Reading
  <2>2. Coming' \subseteq Coming
    BY <2>1, Zenon DEF Coming
  <2>3. Undone => Undone'
    BY <1>0, <2>1, Zenon DEF Undone
  <2>4. \A k \in Callers, m \in Coming' : Waits(k, m) => Waits(k, m)'
    BY <1>0, <2>1, Zenon DEF Waits
  <2> QED
    BY <1>0, <2>1, <2>2, <2>3, <2>4, WaitingKept, Zenon DEF WaitingInv
<1>3. CASE ReadResponse
  <2>1. PICK m \in wire : wire' = wire \ {m} /\ frame' = m /\ rpc' \in {"deliver", "sweep"}
    BY <1>3, Zenon DEF ReadResponse
  <2>2. rpc = "read" /\ UNCHANGED done
    BY <1>3, Zenon DEF ReadResponse
  <2>3. Coming' \subseteq Coming
    BY <2>1, Zenon DEF Coming
  <2>4. Reading /\ (Undone => Undone')
    BY <1>0, <2>2, Zenon DEF Undone, Reading
  <2>5. \A k \in Callers, n \in Coming' : Waits(k, n) => Waits(k, n)'
    BY <1>0, <2>2, Zenon DEF Waits
  <2> QED
    BY <1>0, <2>1, <2>2, <2>3, <2>4, <2>5, WaitingKept, Zenon DEF WaitingInv
<1>4. CASE Deliver
  <2>1. PICK k \in Callers : inTable[k] /\ id[k] = frame[1] /\ done' = [done EXCEPT ![k] = TRUE]
    BY <1>4, Zenon DEF Deliver
  <2>2. rpc = "deliver" /\ rpc' = "notify" /\ UNCHANGED <<wire, frame>> /\ Reading
    BY <1>4, Zenon DEF Deliver, Reading
  <2>3. Coming' = wire /\ Coming' \subseteq Coming /\ frame \in Coming /\ frame \notin wire
    BY <2>2, Zenon DEF Coming, WaitingInv
  <2>4. PICK o \in Callers : Waits(o, frame)
    BY <2>2, <2>3, Zenon DEF WaitingInv
  <2>5. o = k /\ call[k] = frame[2] /\ cpc[k] \in {"wait", "cancel", "cancelled"}
    BY <2>1, <2>4, Zenon DEF Waits, WaitingInv, UniqueIds
  <2>6. Undone => Undone'
    BY <1>0, <2>1, <2>5, Zenon DEF Undone, Types
  <2>7. \A j \in Callers, m \in Coming' : Waits(j, m) => Waits(j, m)'
    <3> SUFFICES ASSUME NEW j \in Callers, NEW m \in Coming', Waits(j, m) PROVE ~done'[j]
      BY <1>0, Zenon DEF Waits
    <3>1. m = <<m[1], m[2]>> /\ frame = <<frame[1], frame[2]>> /\ m # frame
      BY <2>3 DEF CallTypes
    <3>2. j # k
      BY <2>1, <2>5, <3>1, Zenon DEF Waits
    <3> QED
      BY <2>1, <3>2, Zenon DEF Waits, Types
  <2>8. \A j \in Callers : cpc'[j] = "erase" => done'[j]
    BY <1>0, <2>1, Zenon DEF WaitingInv, Types
  <2> QED
    BY <1>0, <2>2, <2>3, <2>6, <2>7, <2>8, WaitingKept, Zenon
<1> QED
  BY <1>1, <1>2, <1>3, <1>4, Zenon DEF Reader

\* Every step of a session without a deadline keeps the invariant.
LEMMA WaitingStep ==
    Types /\ TableIsInFlight /\ CallTypes /\ WaitingInv /\ ~config.deadline /\ [Next]_vars
        => WaitingInv'
<1> SUFFICES ASSUME Types, TableIsInFlight, CallTypes, WaitingInv, ~config.deadline, [Next]_vars
             PROVE  WaitingInv'
  BY Zenon
<1>1. ASSUME NEW k \in Callers, Begin(k) \/ Caller(k) PROVE WaitingInv'
  BY <1>1, WaitingCaller, WaitingSend, Zenon DEF Caller
<1> QED
  BY <1>1, WaitingReader, Zenon DEF Next

-----------------------------------------------------------------------------
\* With a deadline a call may leave before its response.  Ids that have not wrapped around
\* were each taken by one call.
Picking == {k \in Callers : cpc[k] = "pick"}

Distinct == \A j, k \in Claimed : id[j] = id[k] => j = k

Matched == \A m \in Coming, k \in Claimed : id[k] = m[1] => call[k] = m[2]

IdInv ==
    /\ nextId # 0 /\ nextId + Cardinality(Picking) = calls + 1
    /\ \A k \in Callers : id[k] < nextId
    /\ \A m \in Coming : m[1] < nextId
    /\ Distinct /\ Matched

\* The call a response's id finds is the one that took the id.
LEMMA MatchedIsRight == ASSUME IdInv PROVE RightSlot
  BY Zenon DEF IdInv, Matched, Claimed, Coming, RightSlot

\* The calls that pick an id are finitely many.
LEMMA PickingFinite == IsFiniteSet(Picking) /\ Cardinality(Picking) \in Nat
<1>1. Picking \in SUBSET Callers
  BY Zenon DEF Picking
<1> QED
  BY <1>1, SessionAssumption, FS_Subset, FS_CardinalityType, Zenon

\* A step that takes no id and gives no request an id of another call.
LEMMA IdKept ==
    ASSUME IdInv, UNCHANGED <<nextId, calls, id>>, Cardinality(Picking') = Cardinality(Picking),
           Claimed' \subseteq Claimed, \A k \in Claimed' : call'[k] = call[k],
           \A m \in Coming' : m \in Coming \/ \E k \in Claimed : m = <<id[k], call[k]>>
    PROVE  IdInv'
<1>1. \A m \in Coming' : m[1] < nextId
  BY DEF IdInv, Claimed
<1>2. Distinct'
  BY Zenon DEF IdInv, Distinct
<1>3. Matched'
  BY DEF IdInv, Distinct, Matched
<1> QED
  BY <1>1, <1>2, <1>3, Zenon DEF IdInv

\* Every step keeps the ids apart while they cannot wrap around.
LEMMA IdStep ==
    Types /\ TableIsInFlight /\ CallTypes /\ IdInv /\ config.ids > MaxCalls + 1 /\ [Next]_vars
        => IdInv'
<1> SUFFICES ASSUME Types, TableIsInFlight, CallTypes, IdInv, config.ids > MaxCalls + 1, [Next]_vars
             PROVE  IdInv'
  BY Zenon
<1> USE DEF Goto, callers, reader, life
<1>0. DOMAIN cpc = Callers /\ inTable \in [Callers -> BOOLEAN] /\ id \in [Callers -> Nat]
      /\ nextId \in Nat /\ calls \in Nat /\ calls <= MaxCalls /\ MaxCalls \in Nat
      /\ config.ids \in Nat /\ call \in [Callers -> Nat]
  BY SessionAssumption, Zenon DEF Types, CallTypes
<1>1. ASSUME NEW k \in Callers, Begin(k) PROVE IdInv'
  <2>1. /\ cpc[k] = "idle" /\ ~inTable[k] /\ calls' = calls + 1
        /\ call' = [call EXCEPT ![k] = calls + 1] /\ cpc' = [cpc EXCEPT ![k] = "pick"]
        /\ UNCHANGED <<inTable, id, nextId, wire, rpc, frame>>
    BY <1>1, Zenon DEF Begin, TableIsInFlight, InFlight
  <2>2. Picking' = Picking \cup {k} /\ k \notin Picking
    BY <1>0, <2>1, Zenon DEF Picking
  <2>3. Cardinality(Picking') = Cardinality(Picking) + 1
    BY <2>2, PickingFinite, FS_AddElement, Zenon
  <2>4. Claimed' = Claimed /\ k \notin Claimed /\ Coming' = Coming
    BY <1>0, <2>1, Zenon DEF Claimed, Coming
  <2>5. nextId' + Cardinality(Picking') = calls' + 1
    BY <1>0, <2>1, <2>3, PickingFinite DEF IdInv
  <2>6. \A j \in Claimed : call'[j] = call[j]
    BY <1>0, <2>1, <2>4, Zenon DEF Claimed
  <2> QED
    BY <2>1, <2>4, <2>5, <2>6, Zenon DEF IdInv, Distinct, Matched
<1>2. ASSUME NEW k \in Callers, PickId(k) PROVE IdInv'
  <2>1. /\ cpc[k] = "pick" /\ ~inTable[k] /\ id' = [id EXCEPT ![k] = nextId]
        /\ nextId' = (nextId + 1) % config.ids /\ cpc' = [cpc EXCEPT ![k] = "insert"]
        /\ UNCHANGED <<inTable, call, calls, wire, rpc, frame>>
    BY <1>2, Zenon DEF PickId, TableIsInFlight, InFlight, IdInv
  <2>2. Picking' = Picking \ {k} /\ k \in Picking
    BY <1>0, <2>1, Zenon DEF Picking
  <2>3. Cardinality(Picking') = Cardinality(Picking) - 1 /\ Cardinality(Picking') \in Nat
    BY <2>2, PickingFinite, FS_RemoveElement, FS_CardinalityType, Zenon
  <2>4. nextId + 1 < config.ids
    BY <1>0, <2>3, PickingFinite DEF IdInv
  <2>5. nextId' = nextId + 1
    BY <1>0, <2>1, <2>4
  <2>6. Claimed' = Claimed \cup {k} /\ Coming' = Coming /\ k \notin Claimed
    BY <1>0, <2>1, Zenon DEF Claimed, Coming
  <2>7. \A j \in Callers : id'[j] = (IF j = k THEN nextId ELSE id[j])
    BY <1>0, <2>1, Zenon
  <2>8. nextId' # 0 /\ nextId' + Cardinality(Picking') = calls' + 1
    BY <1>0, <2>1, <2>3, <2>5, PickingFinite DEF IdInv
  <2>9. (\A j \in Callers : id'[j] < nextId') /\ \A m \in Coming' : m[1] < nextId'
    <3>1. \A m \in Coming : m[1] \in Nat
      BY Zenon DEF Coming, CallTypes
    <3> QED
      BY <1>0, <2>5, <2>6, <2>7, <3>1 DEF IdInv
  <2>10. Distinct'
    BY <1>0, <2>6, <2>7 DEF IdInv, Distinct, Claimed
  <2>11. Matched'
    BY <1>0, <2>1, <2>6, <2>7 DEF IdInv, Matched, Claimed
  <2> QED
    BY <2>8, <2>9, <2>10, <2>11, Zenon DEF IdInv
<1>3. ASSUME NEW k \in Callers, Insert(k) PROVE IdInv'
  <2>1. cpc[k] = "insert" /\ ~inTable[k] /\ UNCHANGED <<nextId, calls, id, call, wire, rpc, frame>>
    BY <1>3, Zenon DEF Insert, TableIsInFlight, InFlight
  <2>2. ~InUse(id[k])
    BY <2>1, Zenon DEF InUse, IdInv, Distinct, Claimed
  <2>3. \/ cpc' = [cpc EXCEPT ![k] = "idle"] /\ UNCHANGED inTable
        \/ cpc' = [cpc EXCEPT ![k] = "send"] /\ inTable' = [inTable EXCEPT ![k] = TRUE]
    BY <1>3, <2>2, Zenon DEF Insert
  <2>4. Picking' = Picking /\ Claimed' \subseteq Claimed /\ Coming' = Coming
    BY <1>0, <2>1, <2>3, Zenon DEF Picking, Claimed, Coming
  <2> QED
    BY <2>1, <2>4, IdKept, Zenon
<1>4. ASSUME NEW k \in Callers, Send(k) PROVE IdInv'
  <2>1. /\ UNCHANGED <<nextId, calls, id, call, inTable, rpc, frame>> /\ cpc[k] = "send"
        /\ wire' \subseteq wire \cup {<<id[k], call[k]>>} /\ k \in Claimed
    BY <1>4, Zenon DEF Send, Claimed, TableIsInFlight, InFlight
  <2>2. Picking' = Picking /\ Claimed' = Claimed
    BY <1>0, <1>4, Zenon DEF Picking, Claimed, Send
  <2>3. \A m \in Coming' : m \in Coming \/ m = <<id[k], call[k]>>
    BY <2>1, Zenon DEF Coming
  <2> QED
    BY <2>1, <2>2, <2>3, IdKept, Zenon
\* Steps of a call that has no id to take.
<1>5. ASSUME NEW k \in Callers, NEW pc \in {"shutdown", "idle", "break", "erase", "cancel", "cancelled"},
             cpc' = [cpc EXCEPT ![k] = pc], cpc[k] # "pick",
             \A j \in Callers : inTable'[j] => inTable[j],
             UNCHANGED <<nextId, calls, id, call, wire, rpc, frame>>
      PROVE  IdInv'
  <2>1. Picking' = Picking /\ Claimed' \subseteq Claimed /\ Coming' = Coming
    BY <1>0, <1>5, Zenon DEF Picking, Claimed, Coming
  <2> QED
    BY <1>5, <2>1, IdKept, Zenon
<1>6. ASSUME NEW k \in Callers, SendFailed(k) \/ Erase(k) PROVE IdInv'
  <2>1. /\ UNCHANGED <<nextId, calls, id, call, wire, rpc, frame>> /\ cpc[k] # "pick"
        /\ inTable' = [inTable EXCEPT ![k] = FALSE]
    BY <1>6, Zenon DEF SendFailed, Erase
  <2>2. \E pc \in {"shutdown", "break", "idle"} : cpc' = [cpc EXCEPT ![k] = pc]
    BY <1>6, Zenon DEF SendFailed, Erase
  <2> QED
    BY <1>0, <1>5, <2>1, <2>2, Zenon
<1>7. ASSUME NEW k \in Callers, Shutdown(k) \/ Break(k) PROVE IdInv'
  <2>1. CASE Shutdown(k)
    BY <1>5, <2>1, Zenon DEF Shutdown
  <2>2. CASE Break(k)
    BY <1>5, <2>2, Zenon DEF Break
  <2> QED
    BY <1>7, <2>1, <2>2, Zenon
<1>8. ASSUME NEW k \in Callers, Await(k) PROVE IdInv'
  BY <1>5, <1>8, Zenon DEF Await
<1>9. ASSUME NEW k \in Callers, SendCancel(k) \/ AwaitCancelled(k) PROVE IdInv'
  BY <1>5, <1>9, Zenon DEF SendCancel, AwaitCancelled
<1>10. CASE PeerClose \/ Reader \/ Destroy \/ JoinReader \/ UNCHANGED vars
  <2>1. /\ UNCHANGED <<nextId, calls, id, call, cpc, inTable>> /\ wire' \subseteq wire
        /\ (rpc' = "deliver" => frame' \in Coming)
    BY <1>10, ReaderFrame, Zenon
  <2>2. Picking' = Picking /\ Claimed' = Claimed /\ Coming' \subseteq Coming
    BY <2>1, Zenon DEF Picking, Claimed, Coming
  <2> QED
    BY <2>1, <2>2, IdKept, Zenon
<1> QED
  BY <1>1, <1>2, <1>3, <1>4, <1>6, <1>7, <1>8, <1>9, <1>10, Zenon DEF Next, Caller

-----------------------------------------------------------------------------
\* When responses can be told apart: calls do not time out, or ids do not wrap around.
TellsApart == ~config.deadline \/ config.ids > MaxCalls + 1

OwnInv == /\ TellsApart => ResponseInv
          /\ ~config.deadline => WaitingInv
          /\ config.ids > MaxCalls + 1 => IdInv

\* A call never gets the response to another one (session_reader_loop's look-up by id),
\* however many callers share the session: always when no request_timeout is set, where ids
\* wrap around freely, and otherwise until the ids, 2^32 in the code, have all been used.
THEOREM ResponsesAreOwn == Spec => [](TellsApart => OwnResponse)
<1>1. Init => OwnInv
  <2> SUFFICES ASSUME Init PROVE OwnInv
    BY Zenon
  <2>1. WaitingInv
    BY Zenon DEF Init, WaitingInv, UniqueIds, Reading, Undone, Coming
  <2>2. ASSUME config.ids > MaxCalls + 1 PROVE IdInv
    <3>1. Picking = {} /\ Claimed = {} /\ Coming = {}
      BY Zenon DEF Init, Picking, Claimed, Coming
    <3>2. config.ids \in Nat /\ MaxCalls \in Nat
      BY SessionAssumption, Zenon DEF Init
    <3>3. nextId = 1
      <4>1. config.ids > 1
        BY <2>2, <3>2
      <4> QED
        BY <3>2, <4>1 DEF Init
    <3>4. Cardinality(Picking) = 0
      BY <3>1, FS_EmptySet, Zenon
    <3> QED
      BY <3>1, <3>3, <3>4 DEF Init, IdInv, Distinct, Matched
  <2> QED
    BY <2>1, <2>2, InitResponse, Zenon DEF OwnInv
<1>2. IInv /\ OwnInv /\ [Next]_vars => OwnInv'
  <2> SUFFICES ASSUME IInv, OwnInv, [Next]_vars PROVE OwnInv'
    BY Zenon
  <2>1. UNCHANGED config
    <3>1. ASSUME NEW k \in Callers, Begin(k) \/ PickId(k) PROVE UNCHANGED config
      BY <3>1, Zenon DEF Begin, PickId, life
    <3>2. ASSUME NEW k \in Callers, Insert(k) PROVE UNCHANGED config
      BY <3>2, Zenon DEF Insert, life
    <3>3. ASSUME NEW k \in Callers, Send(k) PROVE UNCHANGED config
      BY <3>3, Zenon DEF Send, life
    <3>4. ASSUME NEW k \in Callers, SendFailed(k) \/ Erase(k) PROVE UNCHANGED config
      BY <3>4, Zenon DEF SendFailed, Erase, life
    <3>5. ASSUME NEW k \in Callers, Shutdown(k) \/ Break(k) PROVE UNCHANGED config
      BY <3>5, Zenon DEF Shutdown, Break, life
    <3>6. ASSUME NEW k \in Callers, Await(k) PROVE UNCHANGED config
      BY <3>6, Zenon DEF Await, life
    <3>7. ASSUME NEW k \in Callers, AwaitCancelled(k) PROVE UNCHANGED config
      BY <3>7, Zenon DEF AwaitCancelled, life
    <3>8. ASSUME NEW k \in Callers, SendCancel(k) PROVE UNCHANGED config
      BY <3>8, Zenon DEF SendCancel, life
    <3> QED
      BY <3>1, <3>2, <3>3, <3>4, <3>5, <3>6, <3>7, <3>8, ReaderFrame, Zenon DEF Next, Caller
  <2>2. TellsApart => ResponseInv'
    BY ResponseStep, WaitingIsRight, MatchedIsRight, Zenon DEF IInv, OwnInv, TellsApart
  <2>3. ~config.deadline => WaitingInv'
    BY WaitingStep, Zenon DEF IInv, OwnInv, TellsApart, ResponseInv
  <2>4. config.ids > MaxCalls + 1 => IdInv'
    BY IdStep, Zenon DEF IInv, OwnInv, TellsApart, ResponseInv
  <2> QED
    BY <2>1, <2>2, <2>3, <2>4, Zenon DEF OwnInv, TellsApart
<1>3. OwnInv => (TellsApart => OwnResponse)
  BY Zenon DEF OwnInv, ResponseInv
<1> QED
  BY Invariance, <1>1, <1>2, <1>3, PTL DEF Spec
=============================================================================
