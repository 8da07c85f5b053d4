-------------------------- MODULE OutputQueueProofs --------------------------
(***************************************************************************)
(* Proofs about OutputQueue for any requests, connections, sizes and        *)
(* limits: the output budgets, that queued output stays reachable, and that *)
(* responses do not interleave.                                             *)
(***************************************************************************)
EXTENDS OutputQueue, FiniteSetTheorems, TLAPS

\* Every step is tried with SMT and Zenon and, where a loaded machine needs it, with
\* SMT for longer.
USE SMT, Zenon, SMTT(30)

QueueTypes ==
    /\ outq \in [Conns -> Seq(Units)] /\ sock \in [Conns -> Seq(Units)]
    /\ queued \in [Conns -> Int] /\ total \in Int
    /\ \A c \in Conns : Len(sock[c]) <= SocketRoom

\* Each connection's counter is the length of its queue, within its budget.
Counted == \A c \in Conns : queued[c] = Len(outq[c]) /\ queued[c] <= MaxOutput

WithinTotal == MaxTotalOutput # 0 => total <= MaxTotalOutput

BudgetInv == QueueTypes /\ Counted /\ WithinTotal

-----------------------------------------------------------------------------
\* The smaller of two and of three numbers.
LEMMA MinOfTwo ==
    ASSUME NEW a \in Int, NEW b \in Int
    PROVE  Min({a, b}) \in {a, b} /\ Min({a, b}) <= a /\ Min({a, b}) <= b
<1>1. \E x \in {a, b} : \A y \in {a, b} : x <= y
  <2>1. CASE a <= b
    BY <2>1
  <2>2. CASE ~(a <= b)
    BY <2>2
  <2> QED
    BY <2>1, <2>2, Zenon
<1> QED
  BY <1>1, Zenon DEF Min

\* A flush sends no more than its limit, the queue and the socket allow.
LEMMA MinOfThree ==
    ASSUME NEW a \in Int, NEW b \in Int, NEW c \in Int
    PROVE  /\ Min({a, b, c}) \in {a, b, c}
           /\ Min({a, b, c}) <= a /\ Min({a, b, c}) <= b /\ Min({a, b, c}) <= c
<1>1. \E x \in {a, b, c} : \A y \in {a, b, c} : x <= y
  <2>1. CASE a <= b /\ a <= c
    BY <2>1
  <2>2. CASE b <= a /\ b <= c
    BY <2>2
  <2>3. CASE c <= a /\ c <= b
    BY <2>3
  <2> QED
    BY <2>1, <2>2, <2>3
<1> QED
  BY <1>1, Zenon DEF Min

\* Appending one sequence to another.
LEMMA ConcatType ==
    ASSUME NEW S, NEW s \in Seq(S), NEW t \in Seq(S)
    PROVE  s \o t \in Seq(S) /\ Len(s \o t) = Len(s) + Len(t)
  OBVIOUS

\* A frame is a sequence of units.
LEMMA FrameType == ASSUME NEW r \in Requests PROVE Frame(r) \in Seq(Units) /\ Len(Frame(r)) = Size[r]
<1>1. Size[r] \in Nat
  BY SizeAssumption, Zenon
<1>2. \A i \in 1..Size[r] : <<r, i>> \in Units
  BY DEF Units
<1> QED
  BY <1>1, <1>2 DEF Frame

\* The initial state is within the budgets.
LEMMA InitBudget == Init => BudgetInv
<1> SUFFICES ASSUME Init PROVE BudgetInv
  BY Zenon
<1>1. /\ outq = [c \in Conns |-> <<>>] /\ queued = [c \in Conns |-> 0] /\ total = 0
      /\ sock = [c \in Conns |-> <<>>]
  BY Zenon DEF Init
<1> QED
  BY <1>1, SizeAssumption DEF BudgetInv, QueueTypes, Counted, WithinTotal

\* Steps that leave the queue, its counters and the socket alone.
LEMMA BudgetUnchanged ==
    ASSUME BudgetInv, UNCHANGED <<outq, queued, total, sock>> PROVE BudgetInv'
  BY Zenon DEF BudgetInv, QueueTypes, Counted, WithinTotal

\* Closing a connection gives its bytes back.
LEMMA BudgetClosed ==
    ASSUME BudgetInv, NEW c \in Conns, CloseConnection(c), UNCHANGED sock PROVE BudgetInv'
<1>1. CASE ~entry[c]
  BY <1>1, BudgetUnchanged, Zenon DEF CloseConnection
<1>2. CASE entry[c]
  <2>1. /\ outq' = [outq EXCEPT ![c] = <<>>] /\ queued' = [queued EXCEPT ![c] = 0]
        /\ total' = total - queued[c]
    BY <1>2, Zenon DEF CloseConnection
  <2>2. queued[c] \in Nat
    BY DEF BudgetInv, QueueTypes, Counted
  <2>3. QueueTypes'
    BY <2>1, <2>2 DEF BudgetInv, QueueTypes
  <2>4. Counted'
    BY <2>1, SizeAssumption DEF BudgetInv, QueueTypes, Counted
  <2>5. WithinTotal'
    BY <2>1, <2>2, SizeAssumption DEF BudgetInv, QueueTypes, WithinTotal
  <2> QED
    BY <2>3, <2>4, <2>5, Zenon DEF BudgetInv
<1> QED
  BY <1>1, <1>2, Zenon

\* A worker queues the rest of its frame only where both budgets have room for it.
LEMMA BudgetWritten == ASSUME BudgetInv, NEW r \in Requests, WriteFixedResponse(r) PROVE BudgetInv'
<1> DEFINE c == ConnOf[r]
           direct == outq[c] = <<>>
           sent == IF direct THEN Min({Size[r], SocketRoom - Len(sock[c])}) ELSE 0
           rest == SubSeq(Frame(r), sent + 1, Size[r])
           failed == direct /\ peer[c] # "open"
<1>1. c \in Conns /\ Size[r] \in Nat /\ SocketRoom \in Nat /\ MaxOutput \in Nat /\ MaxTotalOutput \in Nat
  BY SizeAssumption, Zenon
<1>2. /\ sock[c] \in Seq(Units) /\ Len(sock[c]) \in Nat /\ Len(sock[c]) <= SocketRoom
      /\ outq[c] \in Seq(Units) /\ queued[c] = Len(outq[c]) /\ queued[c] \in Nat /\ total \in Int
  BY <1>1 DEF BudgetInv, QueueTypes, Counted
<1>3. sent \in 0..Size[r] /\ Len(sock[c]) + sent <= SocketRoom
  <2>1. CASE direct
    <3>1. SocketRoom - Len(sock[c]) \in Nat
      BY <1>1, <1>2
    <3>2. LET m == Min({Size[r], SocketRoom - Len(sock[c])})
          IN  m \in {Size[r], SocketRoom - Len(sock[c])} /\ m <= Size[r] /\ m <= SocketRoom - Len(sock[c])
      <4>1. Size[r] \in Int /\ SocketRoom - Len(sock[c]) \in Int
        BY <1>1, <3>1
      <4> QED
        BY <4>1, MinOfTwo, Zenon
    <3>3. sent = Min({Size[r], SocketRoom - Len(sock[c])})
      BY <2>1, Zenon
    <3> HIDE DEF sent
    <3> QED
      BY <1>1, <1>2, <3>1, <3>2, <3>3
  <2>2. CASE ~direct
    BY <1>1, <1>2, <2>2
  <2> QED
    BY <2>1, <2>2, Zenon
<1> HIDE DEF sent
<1>4. /\ rest \in Seq(Units) /\ Len(rest) = Size[r] - sent
      /\ SubSeq(Frame(r), 1, sent) \in Seq(Units) /\ Len(SubSeq(Frame(r), 1, sent)) = sent
  BY <1>1, <1>3, FrameType
<1>5. /\ sock' = IF failed THEN sock ELSE [sock EXCEPT ![c] = @ \o SubSeq(Frame(r), 1, sent)]
      /\ \/ UNCHANGED <<outq, queued, total>>
         \/ /\ Fits(c, Len(rest))
            /\ outq' = [outq EXCEPT ![c] = @ \o rest]
            /\ queued' = [queued EXCEPT ![c] = @ + Len(rest)]
            /\ total' = total + Len(rest)
  BY Zenon DEF WriteFixedResponse, WriteFrame, sent
<1> HIDE DEF rest
<1>6. sock' \in [Conns -> Seq(Units)] /\ \A d \in Conns : Len(sock'[d]) <= SocketRoom
  <2>1. CASE failed
    BY <1>5, <2>1, Zenon DEF BudgetInv, QueueTypes
  <2>2. CASE ~failed
    <3>1. sock' = [sock EXCEPT ![c] = sock[c] \o SubSeq(Frame(r), 1, sent)]
      BY <1>5, <2>2, Zenon
    <3>2. /\ sock[c] \o SubSeq(Frame(r), 1, sent) \in Seq(Units)
          /\ Len(sock[c] \o SubSeq(Frame(r), 1, sent)) <= SocketRoom
      <4> DEFINE p == SubSeq(Frame(r), 1, sent)
      <4>1. p \in Seq(Units) /\ Len(p) = sent
        BY <1>4, Zenon
      <4> HIDE DEF p
      <4>2. sock[c] \in Seq(Units)
        BY <1>2, Zenon
      <4>3. sock[c] \o p \in Seq(Units) /\ Len(sock[c] \o p) = Len(sock[c]) + Len(p)
        BY <4>1, <4>2
      <4>4. Len(sock[c] \o p) = Len(sock[c]) + sent
        BY <4>1, <4>3, Zenon
      <4>5. Len(sock[c] \o p) <= SocketRoom
        BY <1>3, <4>4, Zenon
      <4> QED
        BY <4>3, <4>5, Zenon DEF p
    <3> QED
      BY <1>1, <3>1, <3>2, Zenon DEF BudgetInv, QueueTypes
  <2> QED
    BY <2>1, <2>2, Zenon
<1>7. CASE UNCHANGED <<outq, queued, total>>
  BY <1>6, <1>7, Zenon DEF BudgetInv, QueueTypes, Counted, WithinTotal
<1>8. CASE /\ Fits(c, Len(rest))
           /\ outq' = [outq EXCEPT ![c] = @ \o rest]
           /\ queued' = [queued EXCEPT ![c] = @ + Len(rest)]
           /\ total' = total + Len(rest)
  <2>1. Len(rest) \in Nat /\ outq[c] \o rest \in Seq(Units) /\ Len(outq[c] \o rest) = queued[c] + Len(rest)
    <3>1. outq[c] \o rest \in Seq(Units) /\ Len(outq[c] \o rest) = Len(outq[c]) + Len(rest)
      BY <1>2, <1>4, ConcatType, Zenon
    <3> QED
      BY <1>1, <1>2, <1>3, <1>4, <3>1
  <2>2. QueueTypes'
    BY <1>1, <1>2, <1>6, <1>8, <2>1 DEF BudgetInv, QueueTypes
  <2>3. queued[c] + Len(rest) <= MaxOutput
    BY <1>1, <1>2, <1>8, <2>1 DEF Fits
  <2>4. Counted'
    BY <1>1, <1>8, <2>1, <2>3, Zenon DEF BudgetInv, QueueTypes, Counted
  <2>5. WithinTotal'
    BY <1>1, <1>2, <1>8, <2>1, Zenon DEF Fits, WithinTotal
  <2> QED
    BY <2>2, <2>4, <2>5, Zenon DEF BudgetInv
<1> QED
  BY <1>5, <1>7, <1>8, Zenon

\* A flush moves units from the queue to the socket.
LEMMA BudgetFlushed == ASSUME BudgetInv, NEW c \in Conns, Flush(c) PROVE BudgetInv'
<1> DEFINE n == Min({MaxFlush, Len(outq[c]), SocketRoom - Len(sock[c])})
<1>1. /\ sock[c] \in Seq(Units) /\ Len(sock[c]) \in Nat /\ Len(sock[c]) <= SocketRoom
      /\ outq[c] \in Seq(Units) /\ Len(outq[c]) \in Nat /\ queued[c] = Len(outq[c]) /\ total \in Int
      /\ queued[c] <= MaxOutput /\ MaxOutput \in Nat /\ MaxTotalOutput \in Nat /\ SocketRoom \in Nat
      /\ MaxFlush \in Nat
  BY SizeAssumption DEF BudgetInv, QueueTypes, Counted
<1>2. n \in 0..Len(outq[c]) /\ Len(sock[c]) + n <= SocketRoom
  <2>1. SocketRoom - Len(sock[c]) \in Nat
    BY <1>1
  <2>2. /\ n \in {MaxFlush, Len(outq[c]), SocketRoom - Len(sock[c])}
        /\ n <= Len(outq[c]) /\ n <= SocketRoom - Len(sock[c])
    <3>1. MaxFlush \in Int /\ Len(outq[c]) \in Int /\ SocketRoom - Len(sock[c]) \in Int
      BY <1>1, <2>1
    <3> QED
      BY <3>1, MinOfThree, Zenon
  <2> HIDE DEF n
  <2> QED
    BY <1>1, <2>1, <2>2
<1>3. /\ sock' = [sock EXCEPT ![c] = sock[c] \o SubSeq(outq[c], 1, n)]
      /\ outq' = [outq EXCEPT ![c] = SubSeq(outq[c], n + 1, Len(outq[c]))]
      /\ queued' = [queued EXCEPT ![c] = queued[c] - n] /\ total' = total - n
  BY Zenon DEF Flush
<1> HIDE DEF n
<1>4. /\ SubSeq(outq[c], 1, n) \in Seq(Units) /\ Len(SubSeq(outq[c], 1, n)) = n
      /\ SubSeq(outq[c], n + 1, Len(outq[c])) \in Seq(Units)
      /\ Len(SubSeq(outq[c], n + 1, Len(outq[c]))) = Len(outq[c]) - n
  BY <1>1, <1>2
<1>5. /\ sock[c] \o SubSeq(outq[c], 1, n) \in Seq(Units)
      /\ Len(sock[c] \o SubSeq(outq[c], 1, n)) <= SocketRoom
  <2>1. /\ sock[c] \o SubSeq(outq[c], 1, n) \in Seq(Units)
        /\ Len(sock[c] \o SubSeq(outq[c], 1, n)) = Len(sock[c]) + Len(SubSeq(outq[c], 1, n))
    BY <1>1, <1>4, ConcatType, Zenon
  <2> QED
    BY <1>1, <1>2, <1>4, <2>1, Zenon
<1>6. QueueTypes'
  BY <1>1, <1>2, <1>3, <1>4, <1>5 DEF BudgetInv, QueueTypes
<1>7. Counted'
  BY <1>1, <1>2, <1>3, <1>4 DEF BudgetInv, QueueTypes, Counted
<1>8. WithinTotal'
  BY <1>1, <1>2, <1>3 DEF BudgetInv, WithinTotal
<1> QED
  BY <1>6, <1>7, <1>8, Zenon DEF BudgetInv

\* Every step stays within the budgets.
LEMMA BudgetStep == BudgetInv /\ [Next]_vars => BudgetInv'
<1> SUFFICES ASSUME BudgetInv, [Next]_vars PROVE BudgetInv'
  BY Zenon
<1>0. \A r \in Requests : ConnOf[r] \in Conns
  BY SizeAssumption, Zenon
<1>1. ASSUME NEW r \in Requests, ClientSend(r) \/ EnableOutput(r) \/ Complete(r) \/ Continue(r)
                                 \/ Dispatch(r)
      PROVE BudgetInv'
  <2>1. UNCHANGED <<outq, queued, total, sock>>
    BY <1>1, Zenon DEF ClientSend, EnableOutput, Complete, Continue, Dispatch
  <2> QED
    BY <2>1, BudgetUnchanged, Zenon
<1>2. ASSUME NEW r \in Requests, WriteFixedResponse(r) PROVE BudgetInv'
  BY <1>2, BudgetWritten, Zenon
<1>3. ASSUME NEW r \in Requests, Overflow(r) \/ RearmAndServe(r) \/ Release(r) PROVE BudgetInv'
  <2>1. UNCHANGED sock
    BY <1>3, Zenon DEF Overflow, RearmAndServe, Release
  <2>2. CloseConnection(ConnOf[r]) \/ UNCHANGED <<outq, queued, total>>
    BY <1>3, Zenon DEF Overflow, RearmAndServe, Release, Rearmed
  <2> QED
    BY <1>0, <2>1, <2>2, BudgetClosed, BudgetUnchanged, Zenon
<1>4. ASSUME NEW c \in Conns, ClientRead(c) \/ ClientHangup(c) PROVE BudgetInv'
  <2>1. sock[c] \in Seq(Units) /\ Len(sock[c]) <= SocketRoom /\ SocketRoom \in Nat
    BY SizeAssumption, Zenon DEF BudgetInv, QueueTypes
  <2>2. \E t \in Seq(Units) : sock' = [sock EXCEPT ![c] = t] /\ Len(t) <= SocketRoom
    <3>1. CASE ClientRead(c)
      <4>1. /\ sock' = [sock EXCEPT ![c] = Tail(sock[c])] /\ Tail(sock[c]) \in Seq(Units)
            /\ Len(Tail(sock[c])) <= SocketRoom
        BY <2>1, <3>1 DEF ClientRead
      <4> QED
        BY <4>1, Zenon
    <3>2. CASE ClientHangup(c)
      <4>1. sock' = [sock EXCEPT ![c] = <<>>] /\ <<>> \in Seq(Units) /\ Len(<<>>) <= SocketRoom
        BY <2>1, <3>2 DEF ClientHangup
      <4> QED
        BY <4>1, Zenon
    <3> QED
      BY <1>4, <3>1, <3>2, Zenon
  <2>3. UNCHANGED <<outq, queued, total>>
    BY <1>4, Zenon DEF ClientRead, ClientHangup
  <2> QED
    BY <2>2, <2>3, Zenon DEF BudgetInv, QueueTypes, Counted, WithinTotal
<1>5. ASSUME NEW c \in Conns, Expire(c) PROVE BudgetInv'
  BY <1>5, BudgetClosed, Zenon DEF Expire
<1>6. ASSUME NEW c \in Conns, Flush(c) PROVE BudgetInv'
  BY <1>6, BudgetFlushed, Zenon
<1>7. ASSUME NEW c \in Conns, FlushRefresh(c) PROVE BudgetInv'
  BY <1>7, BudgetUnchanged, Zenon DEF FlushRefresh
<1>8. CASE UNCHANGED vars
  BY <1>8, BudgetUnchanged, Zenon DEF vars
<1> QED
  BY <1>1, <1>2, <1>3, <1>4, <1>5, <1>6, <1>7, <1>8, Zenon DEF Next, Worker, Reactor

\* Queued output never exceeds max_output_bytes_per_connection or
\* max_total_output_bytes, for any number of workers, connections and responses.
THEOREM BudgetsHold == Spec => []OutputBounded
<1>1. BudgetInv => OutputBounded
  BY Zenon DEF BudgetInv, Counted, WithinTotal, OutputBounded
<1> QED
  BY InitBudget, BudgetStep, <1>1, PTL DEF Spec

-----------------------------------------------------------------------------
\* The requests of a connection that active_regular counts.
Serving(c) == {r \in Requests : ConnOf[r] = c /\ stage[r] \in
                   {"work", "overflow", "refresh", "written", "rearm"}}

ConnTypes ==
    /\ DOMAIN stage = Requests /\ active \in [Conns -> Int] /\ DOMAIN outq = Conns
    /\ owned \in [Conns -> BOOLEAN] /\ entry \in [Conns -> BOOLEAN]

ActiveIsServing == \A c \in Conns : active[c] = Cardinality(Serving(c))

\* A connection that a request is being served on is in the table.
ServedHasEntry == \A c \in Conns : Serving(c) # {} => entry[c]

\* A lease is taken when nothing is being served, by one worker, and lasts until its
\* worker has rearmed the descriptor or given it up.
Leased ==
    /\ \A r \in Requests : stage[r] = "leased" =>
          Serving(ConnOf[r]) = {} /\ owned[ConnOf[r]] /\ entry[ConnOf[r]]
    /\ \A r \in Requests : stage[r] = "rearm" => Serving(ConnOf[r]) = {r} /\ owned[ConnOf[r]]
    /\ \A r, q \in Requests :
          stage[r] = "leased" /\ stage[q] = "leased" /\ ConnOf[r] = ConnOf[q] => r = q

ReachInv == ConnTypes /\ ActiveIsServing /\ ServedHasEntry /\ Leased /\ QueuedIsReachable

\* The served requests of a connection are finitely many.
LEMMA ServingFinite ==
    ASSUME NEW c
    PROVE  /\ IsFiniteSet(Serving(c)) /\ Cardinality(Serving(c)) \in Nat
           /\ Cardinality(Serving(c)) = 0 <=> Serving(c) = {}
<1>1. Serving(c) \in SUBSET Requests
  BY Zenon DEF Serving
<1>2. IsFiniteSet(Serving(c))
  BY <1>1, SizeAssumption, FS_Subset, Zenon
<1> QED
  BY <1>2, FS_CardinalityType, FS_EmptySet, Zenon

\* The initial state satisfies the invariant.
LEMMA InitReach == Init => ReachInv
<1> SUFFICES ASSUME Init PROVE ReachInv
  BY Zenon
<1>1. \A c : Serving(c) = {}
  BY Zenon DEF Init, Serving
<1>2. ConnTypes
  BY DEF Init, ConnTypes
<1>3. ActiveIsServing
  BY <1>1, FS_EmptySet, Zenon DEF Init, ActiveIsServing
<1> QED
  BY <1>1, <1>2, <1>3, Zenon DEF Init, ReachInv, ServedHasEntry, Leased, QueuedIsReachable

\* Steps after which every request is served, leased and rearmed as before.
LEMMA ReachKept ==
    ASSUME ReachInv, DOMAIN stage' = Requests, DOMAIN outq' = Conns,
           UNCHANGED <<active, owned, entry>>,
           \A c : Serving(c)' = Serving(c),
           \A r \in Requests : stage'[r] = "leased" => stage[r] = "leased",
           \A r \in Requests : stage'[r] = "rearm" => stage[r] = "rearm",
           \A c \in Conns : outq'[c] # <<>> => outq[c] # <<>> \/ entry[c]
    PROVE  ReachInv'
<1>1. ConnTypes' /\ ActiveIsServing' /\ ServedHasEntry'
  BY Zenon DEF ReachInv, ConnTypes, ActiveIsServing, ServedHasEntry
<1>2. Leased' /\ QueuedIsReachable'
  BY Zenon DEF ReachInv, Leased, QueuedIsReachable
<1> QED
  BY <1>1, <1>2, Zenon DEF ReachInv

\* A step of the worker of r between two labels that count it as served.
LEMMA ReachWorking ==
    ASSUME ReachInv, NEW r \in Requests, stage[r] \in {"work", "overflow", "refresh"},
           NEW s \in {"overflow", "refresh", "written"}, stage' = [stage EXCEPT ![r] = s],
           DOMAIN outq' = Conns, UNCHANGED <<active, owned, entry>>,
           \A c \in Conns : outq'[c] # <<>> => outq[c] # <<>> \/ c = ConnOf[r]
    PROVE  ReachInv'
<1>1. DOMAIN stage = Requests
  BY Zenon DEF ReachInv, ConnTypes
<1>2. \A c : Serving(c)' = Serving(c)
  BY <1>1, Zenon DEF Serving
<1>3. ConnOf[r] \in Conns /\ r \in Serving(ConnOf[r])
  BY SizeAssumption, Zenon DEF Serving
<1>4. entry[ConnOf[r]]
  BY <1>3, Zenon DEF ReachInv, ServedHasEntry
<1> QED
  BY <1>1, <1>2, <1>4, ReachKept, Zenon

\* Closing a connection that nobody leases or is about to rearm: its entry stays
\* exactly while a request is being served, and its queue is emptied.
LEMMA ReachClosed ==
    ASSUME ReachInv, NEW c \in Conns, CloseConnection(c), UNCHANGED <<active, stage>>,
           \A r \in Requests : ConnOf[r] = c => stage[r] # "leased"
    PROVE  ReachInv'
<1>1. CASE ~entry[c]
  BY <1>1, ReachKept, Zenon DEF CloseConnection, conn, ReachInv, ConnTypes, Serving
<1>2. CASE entry[c]
  <2>1. /\ outq' = [outq EXCEPT ![c] = <<>>] /\ UNCHANGED owned
        /\ entry' = [entry EXCEPT ![c] = active[c] # 0]
    BY <1>2, Zenon DEF CloseConnection
  <2>2. \A d : Serving(d)' = Serving(d)
    BY Zenon DEF Serving
  <2>3. ConnTypes'
    BY <2>1, Zenon DEF ReachInv, ConnTypes
  <2>4. ActiveIsServing'
    BY <2>2, Zenon DEF ReachInv, ActiveIsServing
  <2>5. active[c] # 0 <=> Serving(c) # {}
    BY ServingFinite, Zenon DEF ReachInv, ActiveIsServing
  <2>6. ServedHasEntry'
    BY <2>1, <2>2, <2>5, Zenon DEF ReachInv, ConnTypes, ServedHasEntry
  <2>7. Leased'
    BY <2>1, <2>2, SizeAssumption, Zenon DEF ReachInv, ConnTypes, Leased
  <2>8. QueuedIsReachable'
    BY <2>1, Zenon DEF ReachInv, ConnTypes, QueuedIsReachable
  <2> QED
    BY <2>3, <2>4, <2>6, <2>7, <2>8, Zenon DEF ReachInv
<1> QED
  BY <1>1, <1>2, Zenon

\* complete_regular_request: the last request of a connection may take the lease.
LEMMA ReachCompleted == ASSUME ReachInv, NEW r \in Requests, Complete(r) PROVE ReachInv'
<1> DEFINE c == ConnOf[r]
<1>1. /\ stage[r] = "written" /\ active' = [active EXCEPT ![c] = @ - 1]
      /\ UNCHANGED <<outq, entry>>
  BY Zenon DEF Complete
<1>2. \/ stage' = [stage EXCEPT ![r] = "done"] /\ UNCHANGED owned
      \/ /\ stage' = [stage EXCEPT ![r] = "leased"] /\ owned' = [owned EXCEPT ![c] = TRUE]
         /\ active[c] = 1 /\ entry[c]
  <2>1. owned \in [Conns -> BOOLEAN] /\ c \in Conns
    BY SizeAssumption, Zenon DEF ReachInv, ConnTypes
  <2> QED
    BY <2>1, Zenon DEF Complete, Goto
<1>3. c \in Conns /\ r \in Serving(c) /\ DOMAIN stage = Requests
  BY <1>1, SizeAssumption, Zenon DEF Serving, ReachInv, ConnTypes
<1>4. Serving(c)' = Serving(c) \ {r} /\ \A d : d # c => Serving(d)' = Serving(d)
  BY <1>1, <1>2, <1>3, Zenon DEF Serving
<1>5. active[c] = Cardinality(Serving(c)) /\ active[c] \in Nat
      /\ Cardinality(Serving(c)') = active[c] - 1
  <2>1. active[c] = Cardinality(Serving(c))
    BY <1>3, Zenon DEF ReachInv, ActiveIsServing
  <2>2. IsFiniteSet(Serving(c)) /\ Cardinality(Serving(c)) \in Nat
    BY ServingFinite, Zenon
  <2>3. Cardinality(Serving(c) \ {r}) = Cardinality(Serving(c)) - 1
    BY <1>3, <2>2, FS_RemoveElement, Zenon
  <2> QED
    BY <1>4, <2>1, <2>2, <2>3, Zenon
<1>6. ConnTypes'
  <2>1. active' \in [Conns -> Int]
    BY <1>1, <1>3 DEF ReachInv, ConnTypes
  <2>2. owned' \in [Conns -> BOOLEAN]
    BY <1>2, Zenon DEF ReachInv, ConnTypes
  <2>3. DOMAIN stage' = Requests
    BY <1>2, Zenon DEF ReachInv, ConnTypes
  <2> QED
    BY <1>1, <2>1, <2>2, <2>3, Zenon DEF ReachInv, ConnTypes
<1>7. ActiveIsServing'
  BY <1>1, <1>3, <1>4, <1>5, Zenon DEF ReachInv, ConnTypes, ActiveIsServing
<1>8. ServedHasEntry'
  BY <1>1, <1>3, <1>4, Zenon DEF ReachInv, ServedHasEntry
<1>9. \A q \in Requests : ConnOf[q] = c => stage[q] # "leased" /\ (stage[q] = "rearm" => FALSE)
  BY <1>1, <1>3, Zenon DEF ReachInv, Leased
<1>10. Leased'
  <2>1. CASE stage' = [stage EXCEPT ![r] = "done"] /\ UNCHANGED owned
    BY <1>1, <1>3, <1>4, <1>9, <2>1, Zenon DEF ReachInv, Leased
  <2>2. CASE /\ stage' = [stage EXCEPT ![r] = "leased"] /\ owned' = [owned EXCEPT ![c] = TRUE]
             /\ active[c] = 1 /\ entry[c]
    <3>1. Serving(c)' = {}
      <4>1. IsFiniteSet(Serving(c))
        BY ServingFinite, Zenon
      <4>2. IsFiniteSet(Serving(c) \ {r})
        BY <4>1, FS_RemoveElement, Zenon
      <4>3. Cardinality(Serving(c) \ {r}) = 0
        BY <1>4, <1>5, <2>2
      <4> QED
        BY <1>4, <4>2, <4>3, FS_EmptySet, Zenon
    <3>2. owned'[c] /\ entry'[c] /\ \A d \in Conns : d # c => owned'[d] = owned[d] /\ entry'[d] = entry[d]
      BY <1>1, <1>3, <2>2, Zenon DEF ReachInv, ConnTypes
    <3>3. stage'[r] = "leased" /\ \A q \in Requests : q # r => stage'[q] = stage[q]
      BY <1>3, <2>2, Zenon
    <3>4. \A q \in Requests : q # r /\ stage'[q] \in {"leased", "rearm"} => ConnOf[q] # c
      BY <1>9, <3>3, Zenon
    <3>5. \A q \in Requests : stage'[q] = "leased" =>
             Serving(ConnOf[q])' = {} /\ owned'[ConnOf[q]] /\ entry'[ConnOf[q]]
      BY <1>4, <3>1, <3>2, <3>3, <3>4, SizeAssumption DEF ReachInv, Leased
    <3>6. \A q \in Requests : stage'[q] = "rearm" => Serving(ConnOf[q])' = {q} /\ owned'[ConnOf[q]]
      BY <1>4, <3>2, <3>3, <3>4, SizeAssumption DEF ReachInv, Leased
    <3>7. \A p, q \in Requests :
             stage'[p] = "leased" /\ stage'[q] = "leased" /\ ConnOf[p] = ConnOf[q] => p = q
      BY <3>3, <3>4, Zenon DEF ReachInv, Leased
    <3> QED
      BY <3>5, <3>6, <3>7, Zenon DEF Leased
  <2> QED
    BY <1>2, <2>1, <2>2, Zenon
<1>11. QueuedIsReachable'
  BY <1>1, Zenon DEF ReachInv, QueuedIsReachable
<1> QED
  BY <1>6, <1>7, <1>8, <1>10, <1>11, Zenon DEF ReachInv

\* A request begins to be served: by the reactor on a descriptor that nobody leases,
\* or by the lessee, which will rearm it.
LEMMA ReachBegun ==
    ASSUME ReachInv, NEW n \in Requests, stage[n] = "sent", entry[ConnOf[n]],
           active' = [active EXCEPT ![ConnOf[n]] = @ + 1], UNCHANGED <<outq, owned, entry>>,
           \/ stage' = [stage EXCEPT ![n] = "work"] /\ ~owned[ConnOf[n]]
           \/ \E r \in Requests :
                 /\ stage[r] = "leased" /\ ConnOf[r] = ConnOf[n]
                 /\ stage' = [stage EXCEPT ![r] = "done", ![n] = "rearm"]
    PROVE  ReachInv'
<1> DEFINE c == ConnOf[n]
<1>1. c \in Conns /\ n \notin Serving(c) /\ DOMAIN stage = Requests
  BY SizeAssumption, Zenon DEF Serving, ReachInv, ConnTypes
<1>2. Serving(c)' = Serving(c) \cup {n} /\ \A d : d # c => Serving(d)' = Serving(d)
  BY <1>1 DEF Serving
<1>3. active[c] = Cardinality(Serving(c)) /\ Cardinality(Serving(c)') = active[c] + 1
  <2>1. active[c] = Cardinality(Serving(c))
    BY <1>1, Zenon DEF ReachInv, ActiveIsServing
  <2>2. IsFiniteSet(Serving(c)) /\ Cardinality(Serving(c)) \in Nat
    BY ServingFinite, Zenon
  <2>3. Cardinality(Serving(c) \cup {n}) = Cardinality(Serving(c)) + 1
    BY <1>1, <2>2, FS_AddElement, Zenon
  <2> QED
    BY <1>2, <2>1, <2>2, <2>3, Zenon
<1>4. ConnTypes'
  BY <1>1 DEF ReachInv, ConnTypes
<1>5. ActiveIsServing'
  BY <1>1, <1>2, <1>3 DEF ReachInv, ConnTypes, ActiveIsServing
<1>6. ServedHasEntry'
  BY <1>2, Zenon DEF ReachInv, ServedHasEntry
<1>7. Leased'
  <2>1. CASE stage' = [stage EXCEPT ![n] = "work"] /\ ~owned[c]
    <3>1. \A q \in Requests : ConnOf[q] = c => stage[q] \notin {"leased", "rearm"}
      BY <2>1, Zenon DEF ReachInv, Leased
    <3> QED
      BY <1>1, <1>2, <2>1, <3>1, Zenon DEF ReachInv, Leased
  <2>2. CASE \E r \in Requests :
                 /\ stage[r] = "leased" /\ ConnOf[r] = c
                 /\ stage' = [stage EXCEPT ![r] = "done", ![n] = "rearm"]
    <3>1. PICK r \in Requests : /\ stage[r] = "leased" /\ ConnOf[r] = c
                                /\ stage' = [stage EXCEPT ![r] = "done", ![n] = "rearm"]
      BY <2>2, Zenon
    <3>2. Serving(c) = {} /\ owned[c] /\ Serving(c)' = {n}
      BY <1>2, <3>1, Zenon DEF ReachInv, Leased
    <3>3. \A q \in Requests : ConnOf[q] = c => stage[q] # "rearm" /\ (stage[q] = "leased" => q = r)
      BY <3>1, <3>2, Zenon DEF ReachInv, Leased
    <3>4. stage'[n] = "rearm" /\ stage'[r] = "done"
          /\ \A q \in Requests \ {n, r} : stage'[q] = stage[q]
      BY <1>1, <3>1, Zenon
    <3>5. \A q \in Requests \ {n} : stage'[q] \in {"leased", "rearm"} =>
             ConnOf[q] # c /\ stage'[q] = stage[q]
      BY <3>3, <3>4, Zenon
    <3>6. \A q \in Requests : stage'[q] = "leased" =>
             Serving(ConnOf[q])' = {} /\ owned'[ConnOf[q]] /\ entry'[ConnOf[q]]
      BY <1>2, <3>4, <3>5, Zenon DEF ReachInv, Leased
    <3>7. \A q \in Requests : stage'[q] = "rearm" => Serving(ConnOf[q])' = {q} /\ owned'[ConnOf[q]]
      BY <1>2, <3>2, <3>5, Zenon DEF ReachInv, Leased
    <3>8. \A p, q \in Requests :
             stage'[p] = "leased" /\ stage'[q] = "leased" /\ ConnOf[p] = ConnOf[q] => p = q
      BY <3>4, <3>5 DEF ReachInv, Leased
    <3> QED
      BY <3>6, <3>7, <3>8, Zenon DEF Leased
  <2> QED
    BY <2>1, <2>2, Zenon
<1>8. QueuedIsReachable'
  BY Zenon DEF ReachInv, QueuedIsReachable
<1> QED
  BY <1>4, <1>5, <1>6, <1>7, <1>8, Zenon DEF ReachInv

\* Overflow: the connection is closed while its own request is served.
LEMMA ReachOverflowed == ASSUME ReachInv, NEW r \in Requests, Overflow(r) PROVE ReachInv'
<1> DEFINE c == ConnOf[r]
<1>1. /\ stage[r] = "overflow" /\ stage' = [stage EXCEPT ![r] = "written"]
      /\ UNCHANGED active /\ CloseConnection(c)
  BY Zenon DEF Overflow, Goto
<1>2. c \in Conns /\ r \in Serving(c) /\ DOMAIN stage = Requests
  BY <1>1, SizeAssumption, Zenon DEF Serving, ReachInv, ConnTypes
<1>3. entry[c] /\ active[c] # 0
  <2>1. active[c] = Cardinality(Serving(c)) /\ entry[c]
    BY <1>2, Zenon DEF ReachInv, ActiveIsServing, ServedHasEntry
  <2>2. Cardinality(Serving(c)) # 0
    BY <1>2, ServingFinite, Zenon
  <2> QED
    BY <2>1, <2>2, Zenon
<1>4. /\ outq' = [outq EXCEPT ![c] = <<>>] /\ UNCHANGED owned
      /\ entry' = [entry EXCEPT ![c] = active[c] # 0]
  BY <1>1, <1>3, Zenon DEF CloseConnection
<1>5. UNCHANGED entry
  BY <1>2, <1>3, <1>4, Zenon DEF ReachInv, ConnTypes
<1>6. DOMAIN outq' = Conns /\ \A d \in Conns : outq'[d] # <<>> => outq[d] # <<>> \/ d = c
  BY <1>4, Zenon DEF ReachInv, ConnTypes
<1> QED
  BY <1>1, <1>4, <1>5, <1>6, ReachWorking, Zenon

\* The lessee gives the descriptor back: a rearmed connection is in the table and in
\* nobody's hands, and a closed one keeps its entry exactly while it is being served.
LEMMA ReachReturned ==
    ASSUME ReachInv, NEW r \in Requests, UNCHANGED active,
           CloseConnection(ConnOf[r]) \/ Rearmed(ConnOf[r]),
           \/ stage[r] = "rearm" /\ stage' = [stage EXCEPT ![r] = "work"]
           \/ stage[r] = "leased" /\ stage' = [stage EXCEPT ![r] = "done"]
    PROVE  ReachInv'
<1> DEFINE c == ConnOf[r]
<1>1. c \in Conns /\ DOMAIN stage = Requests
  BY SizeAssumption, Zenon DEF ReachInv, ConnTypes
<1>2. \A d : Serving(d)' = Serving(d)
  BY <1>1, Zenon DEF Serving
<1>3. entry[c] /\ (active[c] # 0 <=> Serving(c) # {})
  <2>1. active[c] = Cardinality(Serving(c))
    BY <1>1, Zenon DEF ReachInv, ActiveIsServing
  <2>2. entry[c]
    BY <1>1, Zenon DEF ReachInv, Leased, ServedHasEntry
  <2> QED
    BY <2>1, <2>2, ServingFinite, Zenon
<1>4. /\ owned' \in [Conns -> BOOLEAN] /\ entry' \in [Conns -> BOOLEAN] /\ DOMAIN outq' = Conns
      /\ \A d \in Conns : d # c => owned'[d] = owned[d] /\ entry'[d] = entry[d] /\ outq'[d] = outq[d]
      /\ outq'[c] = <<>> \/ entry'[c]
      /\ Serving(c) # {} => entry'[c]
  <2>1. CASE CloseConnection(c)
    <3>1. /\ outq' = [outq EXCEPT ![c] = <<>>] /\ UNCHANGED owned
          /\ entry' = [entry EXCEPT ![c] = active[c] # 0]
      BY <1>3, <2>1, Zenon DEF CloseConnection
    <3> QED
      BY <1>1, <1>3, <3>1, Zenon DEF ReachInv, ConnTypes
  <2>2. CASE Rearmed(c) /\ ~closing[c]
    <3>1. /\ UNCHANGED outq /\ owned' = [owned EXCEPT ![c] = FALSE]
          /\ entry' = [entry EXCEPT ![c] = TRUE]
      BY <2>2, Zenon DEF Rearmed
    <3> QED
      BY <1>1, <3>1, Zenon DEF ReachInv, ConnTypes
  <2> QED
    BY <2>1, <2>2, Zenon DEF Rearmed
<1>5. \A q \in Requests : stage'[q] \in {"leased", "rearm"} => ConnOf[q] # c /\ stage'[q] = stage[q]
  <2>1. \A q \in Requests : stage[q] \in {"leased", "rearm"} /\ ConnOf[q] = c => q = r
    <3>1. \A q \in Requests : stage[q] = "rearm" => q \in Serving(ConnOf[q])
      BY Zenon DEF Serving
    <3>2. CASE stage[r] = "rearm"
      <4>1. Serving(c) = {r}
        BY <3>2, Zenon DEF ReachInv, Leased
      <4> QED
        BY <3>1, <4>1 DEF ReachInv, Leased
    <3>3. CASE stage[r] = "leased"
      <4>1. Serving(c) = {}
        BY <3>3, Zenon DEF ReachInv, Leased
      <4> QED
        BY <3>1, <3>3, <4>1, Zenon DEF ReachInv, Leased
    <3> QED
      BY <3>2, <3>3, Zenon
  <2> QED
    BY <1>1, <2>1, Zenon
<1>6. ConnTypes'
  BY <1>1, <1>4, Zenon DEF ReachInv, ConnTypes
<1>7. ActiveIsServing' /\ ServedHasEntry'
  BY <1>1, <1>2, <1>4, Zenon DEF ReachInv, ActiveIsServing, ServedHasEntry
<1>8. Leased'
  <2>1. \A q \in Requests : stage'[q] = "leased" =>
             Serving(ConnOf[q])' = {} /\ owned'[ConnOf[q]] /\ entry'[ConnOf[q]]
    BY <1>2, <1>4, <1>5, SizeAssumption DEF ReachInv, Leased
  <2>2. \A q \in Requests : stage'[q] = "rearm" => Serving(ConnOf[q])' = {q} /\ owned'[ConnOf[q]]
    BY <1>2, <1>4, <1>5, SizeAssumption DEF ReachInv, Leased
  <2>3. \A p, q \in Requests :
             stage'[p] = "leased" /\ stage'[q] = "leased" /\ ConnOf[p] = ConnOf[q] => p = q
    BY <1>5, Zenon DEF ReachInv, Leased
  <2> QED
    BY <2>1, <2>2, <2>3, Zenon DEF Leased
<1>9. QueuedIsReachable'
  BY <1>4, Zenon DEF ReachInv, QueuedIsReachable
<1> QED
  BY <1>6, <1>7, <1>8, <1>9, Zenon DEF ReachInv

\* Every step preserves the invariant.
LEMMA ReachStep == ReachInv /\ [Next]_vars => ReachInv'
<1> SUFFICES ASSUME ReachInv, [Next]_vars PROVE ReachInv'
  BY Zenon
<1>1. DOMAIN stage = Requests /\ DOMAIN outq = Conns
  BY Zenon DEF ReachInv, ConnTypes
<1>2. ASSUME UNCHANGED <<stage, outq, active, owned, entry>> PROVE ReachInv'
  <2>1. \A c : Serving(c)' = Serving(c)
    BY <1>2, Zenon DEF Serving
  <2> QED
    BY <1>1, <1>2, <2>1, ReachKept, Zenon
<1>3. ASSUME NEW r \in Requests, ClientSend(r) PROVE ReachInv'
  <2>1. /\ stage[r] = "idle" /\ stage' = [stage EXCEPT ![r] = "sent"]
        /\ UNCHANGED <<outq, active, owned, entry>>
    BY <1>3, Zenon DEF ClientSend, Goto, conn
  <2>2. \A c : Serving(c)' = Serving(c)
    BY <1>1, <2>1, Zenon DEF Serving
  <2> QED
    BY <1>1, <2>1, <2>2, ReachKept, Zenon
<1>4. ASSUME NEW r \in Requests, Worker(r) PROVE ReachInv'
  <2>1. CASE WriteFixedResponse(r)
    <3>1. /\ stage[r] = "work" /\ UNCHANGED <<active, owned, entry>>
          /\ \E s \in {"overflow", "refresh", "written"} : stage' = [stage EXCEPT ![r] = s]
          /\ UNCHANGED outq \/ \E rest : outq' = [outq EXCEPT ![ConnOf[r]] = @ \o rest]
      BY <2>1, Zenon DEF WriteFixedResponse, WriteFrame, Goto
    <3>2. DOMAIN outq' = Conns /\ \A c \in Conns : outq'[c] # <<>> => outq[c] # <<>> \/ c = ConnOf[r]
      BY <1>1, <3>1, Zenon
    <3> QED
      BY <3>1, <3>2, ReachWorking, Zenon
  <2>2. CASE Overflow(r)
    BY <2>2, ReachOverflowed, Zenon
  <2>3. CASE EnableOutput(r)
    <3>1. /\ stage[r] = "refresh" /\ stage' = [stage EXCEPT ![r] = "written"]
          /\ UNCHANGED <<outq, active, owned, entry>>
      BY <2>3, Zenon DEF EnableOutput, Goto
    <3> QED
      BY <1>1, <3>1, ReachWorking, Zenon
  <2>4. CASE Complete(r)
    BY <2>4, ReachCompleted, Zenon
  <2>5. CASE Continue(r)
    <3>1. PICK n \in Requests : ConnOf[n] = ConnOf[r] /\ stage[n] = "sent"
                              /\ stage' = [stage EXCEPT ![r] = "done", ![n] = "rearm"]
      BY <2>5, Zenon DEF Continue, Of
    <3>2. /\ stage[r] = "leased" /\ active' = [active EXCEPT ![ConnOf[n]] = @ + 1]
          /\ UNCHANGED <<outq, owned, entry>>
      BY <2>5, <3>1, Zenon DEF Continue, conn
    <3>3. entry[ConnOf[n]]
      BY <3>1, <3>2, Zenon DEF ReachInv, Leased
    <3> QED
      BY <3>1, <3>2, <3>3, ReachBegun, Zenon
  <2>6. CASE RearmAndServe(r)
    BY <2>6, ReachReturned, Zenon DEF RearmAndServe, Goto
  <2>7. CASE Release(r)
    BY <2>7, ReachReturned, Zenon DEF Release, Goto
  <2> QED
    BY <1>4, <2>1, <2>2, <2>3, <2>4, <2>5, <2>6, <2>7, Zenon DEF Worker
<1>5. ASSUME NEW c \in Conns, ClientRead(c) \/ ClientHangup(c) \/ FlushRefresh(c) PROVE ReachInv'
  BY <1>2, <1>5, Zenon DEF ClientRead, ClientHangup, FlushRefresh, conn
<1>6. ASSUME NEW c \in Conns, Expire(c) PROVE ReachInv'
  <2>1. ~owned[c] /\ CloseConnection(c) /\ UNCHANGED <<active, stage>>
    BY <1>6, Zenon DEF Expire
  <2>2. \A r \in Requests : ConnOf[r] = c => stage[r] # "leased"
    BY <2>1, Zenon DEF ReachInv, Leased
  <2> QED
    BY <2>1, <2>2, ReachClosed, Zenon
<1>7. ASSUME NEW r \in Requests, Dispatch(r) PROVE ReachInv'
  BY <1>7, ReachBegun, Zenon DEF Dispatch, Goto, conn
<1>8. ASSUME NEW c \in Conns, Flush(c) PROVE ReachInv'
  <2>1. /\ entry[c] /\ UNCHANGED <<stage, active, owned, entry>>
        /\ DOMAIN outq' = Conns /\ \A d \in Conns : d # c => outq'[d] = outq[d]
    BY <1>1, <1>8, Zenon DEF Flush, conn
  <2>2. \A d : Serving(d)' = Serving(d)
    BY <2>1, Zenon DEF Serving
  <2> QED
    BY <1>1, <2>1, <2>2, ReachKept, Zenon
<1>9. CASE UNCHANGED vars
  BY <1>2, <1>9, Zenon DEF vars, conn
<1> QED
  BY <1>3, <1>4, <1>5, <1>6, <1>7, <1>8, <1>9, Zenon DEF Next, Reactor

\* A response that is queued always belongs to a connection the reactor still has in
\* its table: closing a connection, leasing it to a worker and giving it back never
\* strand output where no flush, timeout or shutdown can reach it.
THEOREM QueuedOutputReachable == Spec => []QueuedIsReachable
<1>1. ReachInv => QueuedIsReachable
  BY Zenon DEF ReachInv
<1> QED
  BY InitReach, ReachStep, <1>1, PTL DEF Spec
-----------------------------------------------------------------------------
\* Everything sent on a connection that its client has read or can still read.
Stream(c) == recv[c] \o (IF peer[c] = "gone" THEN <<>> ELSE sock[c] \o outq[c])

\* Each unit of s begins a frame behind the end of one, or of a response in K, or follows
\* the unit before it.
Whole(s, K) ==
    \A i \in 1..Len(s) :
        \/ s[i][2] = 1 /\ (i = 1 \/ s[i - 1][2] = Size[s[i - 1][1]] \/ s[i - 1][1] \in K)
        \/ i > 1 /\ s[i] = <<s[i - 1][1], s[i - 1][2] + 1>>

\* Another frame may follow s.
Ended(s, K) == Len(s) = 0 \/ s[Len(s)][2] = Size[s[Len(s)][1]] \/ s[Len(s)][1] \in K

StreamTypes == recv \in [Conns -> Seq(Units)] /\ peer \in [Conns -> {"open", "shut", "gone"}]

StreamInv(c) == /\ Whole(Stream(c), cut)
                /\ peer[c] = "open" => Ended(Stream(c), cut)
                /\ peer[c] = "shut" => outq[c] = <<>>

FrameInv == BudgetInv /\ StreamTypes /\ \A c \in Conns : StreamInv(c)

\* The elements of two sequences in a row.
LEMMA ConcatElements ==
    ASSUME NEW s \in Seq(Units), NEW t \in Seq(Units)
    PROVE  /\ s \o t \in Seq(Units) /\ Len(s \o t) = Len(s) + Len(t)
           /\ \A i \in 1..Len(s) : (s \o t)[i] = s[i]
           /\ \A i \in 1..Len(t) : (s \o t)[Len(s) + i] = t[i]
  OBVIOUS

LEMMA SameElements ==
    ASSUME NEW s \in Seq(Units), NEW t \in Seq(Units), Len(s) = Len(t), \A i \in 1..Len(t) : s[i] = t[i]
    PROVE  s = t
  OBVIOUS

\* Sequences are joined in any order; nothing is added by the empty one.
Assoc(s, t, u) == s \o (t \o u) = (s \o t) \o u

LEMMA ConcatAssoc ==
    ASSUME NEW s \in Seq(Units), NEW t \in Seq(Units), NEW u \in Seq(Units) PROVE Assoc(s, t, u)
  BY DEF Assoc

LEMMA ConcatEmpty ==
    ASSUME NEW s \in Seq(Units) PROVE <<>> \in Seq(Units) /\ s \o <<>> = s /\ <<>> \o s = s
  OBVIOUS

\* A sequence is its two parts joined.
LEMMA HeadTail ==
    ASSUME NEW s \in Seq(Units), s # <<>>
    PROVE  <<Head(s)>> \in Seq(Units) /\ Tail(s) \in Seq(Units) /\ <<Head(s)>> \o Tail(s) = s
  OBVIOUS

LEMMA SplitParts ==
    ASSUME NEW s \in Seq(Units), NEW n \in 0..Len(s)
    PROVE  /\ SubSeq(s, 1, n) \in Seq(Units) /\ Len(SubSeq(s, 1, n)) = n
           /\ SubSeq(s, n + 1, Len(s)) \in Seq(Units) /\ Len(SubSeq(s, n + 1, Len(s))) = Len(s) - n
           /\ \A i \in 1..n : SubSeq(s, 1, n)[i] = s[i]
           /\ \A i \in 1..(Len(s) - n) : SubSeq(s, n + 1, Len(s))[i] = s[n + i]
  OBVIOUS

LEMMA SplitSeq ==
    ASSUME NEW s \in Seq(Units), NEW n \in 0..Len(s)
    PROVE  SubSeq(s, 1, n) \o SubSeq(s, n + 1, Len(s)) = s
<1> DEFINE a == SubSeq(s, 1, n)
           b == SubSeq(s, n + 1, Len(s))
<1>0. Len(s) \in Nat /\ n \in Nat
  OBVIOUS
<1>1. /\ a \in Seq(Units) /\ Len(a) = n /\ b \in Seq(Units) /\ Len(b) = Len(s) - n
      /\ \A i \in 1..n : a[i] = s[i]
      /\ \A i \in 1..(Len(s) - n) : b[i] = s[n + i]
  BY SplitParts, Zenon
<1> HIDE DEF a, b
<1>2. /\ a \o b \in Seq(Units) /\ Len(a \o b) = Len(s)
      /\ \A i \in 1..n : (a \o b)[i] = a[i]
      /\ \A i \in 1..(Len(s) - n) : (a \o b)[n + i] = b[i]
  BY <1>0, <1>1, ConcatElements
<1>3. ASSUME NEW i \in 1..Len(s) PROVE (a \o b)[i] = s[i]
  <2>1. CASE i <= n
    BY <1>0, <1>1, <1>2, <2>1
  <2>2. CASE i > n
    <3> DEFINE j == i - n
    <3>1. j \in 1..(Len(s) - n) /\ n + j = i
      BY <1>0, <2>2
    <3> HIDE DEF j
    <3>2. (a \o b)[n + j] = b[j] /\ b[j] = s[n + j]
      BY <1>1, <1>2, <3>1, Zenon
    <3> QED
      BY <3>1, <3>2, Zenon
  <2>3. i <= n \/ i > n
    BY <1>0
  <2> QED
    BY <2>1, <2>2, <2>3, Zenon
<1> DEFINE w == a \o b
<1>4. w = s
  <2>1. w \in Seq(Units) /\ Len(w) = Len(s) /\ \A i \in 1..Len(s) : w[i] = s[i]
    BY <1>2, <1>3, Zenon
  <2> HIDE DEF w
  <2> QED
    BY <2>1, SameElements, Zenon
<1> QED
  BY <1>4, Zenon DEF a, b, w

\* A frame is written behind a stream: one part to the socket if nothing is queued, the other
\* to the queue.
Written(r, s, o, p, q) == r \o ((s \o p) \o (o \o q)) = (r \o (s \o o)) \o (p \o q)

LEMMA WriteRow ==
    ASSUME NEW r \in Seq(Units), NEW s \in Seq(Units), NEW o \in Seq(Units), NEW p \in Seq(Units),
           NEW q \in Seq(Units), o = <<>> \/ p = <<>>
    PROVE  Written(r, s, o, p, q)
<1>1. s \o p \in Seq(Units) /\ p \o q \in Seq(Units) /\ s \o o \in Seq(Units)
  BY ConcatElements, Zenon
<1>2. (s \o p) \o (o \o q) = (s \o o) \o (p \o q)
  <2>1. CASE o = <<>>
    <3>1. o \o q = q /\ s \o o = s
      BY <2>1, ConcatEmpty, Zenon
    <3>2. Assoc(s, p, q)
      BY ConcatAssoc, Zenon
    <3> QED
      BY <3>1, <3>2, Zenon DEF Assoc
  <2>2. CASE p = <<>>
    <3>1. p \o q = q /\ s \o p = s
      BY <2>2, ConcatEmpty, Zenon
    <3>2. Assoc(s, o, q)
      BY ConcatAssoc, Zenon
    <3> QED
      BY <3>1, <3>2, Zenon DEF Assoc
  <2> QED
    BY <2>1, <2>2, Zenon
<1>3. Assoc(r, s \o o, p \o q)
  BY <1>1, ConcatAssoc, Zenon
<1> QED
  BY <1>2, <1>3, Zenon DEF Assoc, Written

\* Units of a stream move to the client or to the socket.
Passed(r, h, t, o) == (r \o h) \o (t \o o) = r \o ((h \o t) \o o)

LEMMA ReadRow ==
    ASSUME NEW r \in Seq(Units), NEW h \in Seq(Units), NEW t \in Seq(Units), NEW o \in Seq(Units)
    PROVE  Passed(r, h, t, o)
<1>1. t \o o \in Seq(Units)
  BY ConcatElements, Zenon
<1>2. Assoc(h, t, o) /\ Assoc(r, h, t \o o)
  BY <1>1, ConcatAssoc, Zenon
<1> QED
  BY <1>2, Zenon DEF Assoc, Passed

\* The beginning of a stream of whole frames is one.
LEMMA WholePrefix ==
    ASSUME NEW s \in Seq(Units), NEW t \in Seq(Units), NEW K, Whole(s \o t, K) PROVE Whole(s, K)
<1> DEFINE w == s \o t
<1> SUFFICES ASSUME NEW i \in 1..Len(s)
             PROVE  \/ s[i][2] = 1 /\ (i = 1 \/ s[i - 1][2] = Size[s[i - 1][1]] \/ s[i - 1][1] \in K)
                    \/ i > 1 /\ s[i] = <<s[i - 1][1], s[i - 1][2] + 1>>
  BY Zenon DEF Whole
<1>1. Len(w) = Len(s) + Len(t) /\ \A j \in 1..Len(s) : w[j] = s[j]
  BY ConcatElements, Zenon
<1>2. i \in 1..Len(w) /\ s[i] = w[i] /\ (i # 1 => s[i - 1] = w[i - 1])
  <2> HIDE DEF w
  <2>1. Len(s) \in Nat /\ Len(t) \in Nat
    OBVIOUS
  <2> QED
    BY <1>1, <2>1
<1>3. Whole(w, K)
  BY Zenon
<1> HIDE DEF w
<1> QED
  BY <1>2, <1>3 DEF Whole

\* It does not depend on which responses were cut later.
LEMMA WholeGrows ==
    ASSUME NEW s, NEW K, NEW L, K \subseteq L
    PROVE  (Whole(s, K) => Whole(s, L)) /\ (Ended(s, K) => Ended(s, L))
  BY Zenon DEF Whole, Ended

\* The first n units of a response behind a stream that has ended.
LEMMA WholeAppended ==
    ASSUME NEW s \in Seq(Units), NEW K, Whole(s, K), Ended(s, K), NEW r \in Requests,
           NEW n \in 0..Size[r]
    PROVE  LET t == s \o SubSeq(Frame(r), 1, n)
           IN  Whole(t, K) /\ (n = 0 \/ n = Size[r] \/ r \in K => Ended(t, K))
<1> DEFINE f == SubSeq(Frame(r), 1, n)
           t == s \o f
<1>a. f \in Seq(Units) /\ Len(f) = n /\ \A i \in 1..n : f[i] = <<r, i>>
  <2>1. Frame(r) \in Seq(Units) /\ Len(Frame(r)) = Size[r] /\ Size[r] \in Nat
    BY FrameType, SizeAssumption, Zenon
  <2>2. /\ SubSeq(Frame(r), 1, n) \in Seq(Units) /\ Len(SubSeq(Frame(r), 1, n)) = n
        /\ \A i \in 1..n : SubSeq(Frame(r), 1, n)[i] = Frame(r)[i]
    BY <2>1, SplitParts
  <2>3. \A i \in 1..n : Frame(r)[i] = <<r, i>>
    BY <2>1 DEF Frame
  <2> QED
    BY <2>2, <2>3, Zenon
<1> HIDE DEF f
<1>b. /\ t \in Seq(Units) /\ Len(t) = Len(s) + n /\ \A i \in 1..Len(s) : t[i] = s[i]
      /\ \A i \in 1..n : t[Len(s) + i] = <<r, i>>
  <2>1. /\ t \in Seq(Units) /\ Len(t) = Len(s) + Len(f) /\ \A i \in 1..Len(s) : t[i] = s[i]
        /\ \A i \in 1..Len(f) : t[Len(s) + i] = f[i]
    BY <1>a, ConcatElements, Zenon
  <2> HIDE DEF t
  <2> QED
    BY <1>a, <2>1, Zenon
<1> SUFFICES Whole(t, K) /\ (n = 0 \/ n = Size[r] \/ r \in K => Ended(t, K))
  BY Zenon DEF f
<1> HIDE DEF t
<1>0. Len(s) \in Nat /\ Size[r] \in Nat
  BY SizeAssumption
<1>1. Whole(t, K)
  <2> SUFFICES ASSUME NEW i \in 1..Len(t)
               PROVE  \/ t[i][2] = 1 /\ (i = 1 \/ t[i - 1][2] = Size[t[i - 1][1]] \/ t[i - 1][1] \in K)
                      \/ i > 1 /\ t[i] = <<t[i - 1][1], t[i - 1][2] + 1>>
    BY Zenon DEF Whole
  <2>1. CASE i <= Len(s)
    <3>1. i \in 1..Len(s) /\ t[i] = s[i] /\ (i # 1 => t[i - 1] = s[i - 1])
      BY <1>0, <1>b, <2>1
    <3> QED
      BY <3>1 DEF Whole
  <2>2. CASE i = Len(s) + 1
    <3>1. 1 \in 1..n /\ t[i] = <<r, 1>>
      BY <1>0, <1>b, <2>2
    <3>2. CASE Len(s) = 0
      BY <2>2, <3>1, <3>2
    <3>3. CASE Len(s) # 0
      <4>1. i - 1 = Len(s) /\ t[i - 1] = s[Len(s)]
        BY <1>0, <1>b, <2>2, <3>3
      <4> QED
        BY <3>1, <3>3, <4>1 DEF Ended
    <3> QED
      BY <3>2, <3>3, Zenon
  <2>3. CASE i > Len(s) + 1
    <3> DEFINE j == i - Len(s)
    <3>1. j \in 1..n /\ j - 1 \in 1..n /\ Len(s) + j = i /\ Len(s) + (j - 1) = i - 1 /\ i > 1
      BY <1>0, <1>b, <2>3
    <3>2. t[i] = <<r, j>> /\ t[i - 1] = <<r, j - 1>>
      <4> HIDE DEF j
      <4> QED
        BY <1>b, <3>1, Zenon
    <3>3. (j - 1) + 1 = j
      BY <1>0, <3>1
    <3> HIDE DEF j
    <3> QED
      BY <3>1, <3>2, <3>3
  <2> QED
    BY <1>0, <1>b, <2>1, <2>2, <2>3
<1>2. ASSUME n = 0 PROVE Ended(t, K)
  BY <1>0, <1>b, <1>2 DEF Ended
<1>3. ASSUME n # 0, n = Size[r] \/ r \in K PROVE Ended(t, K)
  <2>1. n \in 1..n /\ t[Len(t)] = <<r, n>>
    BY <1>0, <1>b, <1>3
  <2> QED
    BY <1>3, <2>1 DEF Ended
<1> QED
  BY <1>1, <1>2, <1>3, Zenon

\* The stream of a connection is a sequence of units.
LEMMA StreamType == ASSUME FrameInv, NEW c \in Conns
                    PROVE  /\ recv[c] \in Seq(Units) /\ sock[c] \in Seq(Units) /\ outq[c] \in Seq(Units)
                           /\ Stream(c) \in Seq(Units)
<1>1. recv[c] \in Seq(Units) /\ sock[c] \in Seq(Units) /\ outq[c] \in Seq(Units)
  BY Zenon DEF FrameInv, BudgetInv, QueueTypes, StreamTypes
<1>2. <<>> \in Seq(Units) /\ sock[c] \o outq[c] \in Seq(Units)
  BY <1>1, ConcatElements
<1>3. Stream(c) \in Seq(Units)
  BY <1>1, <1>2, ConcatElements, Zenon DEF Stream
<1> QED
  BY <1>1, <1>3, Zenon

\* Steps that leave every stream alone.
LEMMA FrameUnchanged ==
    ASSUME FrameInv, BudgetInv', UNCHANGED <<recv, sock, outq, peer, cut>> PROVE FrameInv'
  BY Zenon DEF FrameInv, StreamTypes, StreamInv, Stream

\* Steps that leave the streams of other connections alone.
LEMMA FrameLocal ==
    ASSUME FrameInv, BudgetInv', StreamTypes', NEW c \in Conns, cut \subseteq cut', StreamInv(c)',
           \A d \in Conns : d # c => /\ recv'[d] = recv[d] /\ sock'[d] = sock[d]
                                     /\ outq'[d] = outq[d] /\ peer'[d] = peer[d]
    PROVE  FrameInv'
<1> SUFFICES ASSUME NEW d \in Conns, d # c PROVE StreamInv(d)'
  BY Zenon DEF FrameInv
<1>1. Stream(d)' = Stream(d)
  BY Zenon DEF Stream
<1>2. StreamInv(d)
  BY Zenon DEF FrameInv
<1> QED
  BY <1>1, <1>2, WholeGrows DEF StreamInv

\* A connection whose stream loses its end is not written to any more.
LEMMA FrameCut ==
    ASSUME FrameInv, BudgetInv', NEW c \in Conns, UNCHANGED <<recv, cut>>, StreamTypes',
           \A d \in Conns : d # c => sock'[d] = sock[d] /\ outq'[d] = outq[d] /\ peer'[d] = peer[d],
           \/ peer'[c] = "gone"
           \/ peer[c] # "gone" /\ peer'[c] = "shut" /\ sock'[c] = sock[c] /\ outq'[c] = <<>>
    PROVE  FrameInv'
<1>1. /\ recv[c] \in Seq(Units) /\ sock[c] \in Seq(Units) /\ outq[c] \in Seq(Units)
      /\ Stream(c) \in Seq(Units) /\ Whole(Stream(c), cut)
  BY StreamType, Zenon DEF FrameInv, StreamInv
<1> DEFINE s == recv[c] \o (IF peer'[c] = "gone" THEN <<>> ELSE sock[c] \o <<>>)
<1>2. Stream(c)' = s
  BY Zenon DEF Stream
<1>3. s \in Seq(Units) /\ \E t \in Seq(Units) : Stream(c) = s \o t
  <2>0. sock[c] \o outq[c] \in Seq(Units) /\ recv[c] \o sock[c] \in Seq(Units)
    BY <1>1, ConcatElements, Zenon
  <2>1. CASE peer'[c] = "gone"
    <3>1. s = recv[c]
      BY <1>1, <2>1, ConcatEmpty, Zenon
    <3>2. \E t \in Seq(Units) : Stream(c) = recv[c] \o t
      BY <1>1, <2>0, ConcatEmpty, Zenon DEF Stream
    <3> QED
      BY <1>1, <3>1, <3>2, Zenon
  <2>2. CASE peer'[c] # "gone"
    <3>1. Stream(c) = recv[c] \o (sock[c] \o outq[c])
      BY <2>2, Zenon DEF Stream
    <3>2. sock[c] \o <<>> = sock[c]
      BY <1>1, ConcatEmpty, Zenon
    <3>3. s = recv[c] \o sock[c]
      BY <2>2, <3>2, Zenon
    <3>4. Assoc(recv[c], sock[c], outq[c])
      BY <1>1, ConcatAssoc, Zenon
    <3> QED
      BY <1>1, <2>0, <3>1, <3>3, <3>4, Zenon DEF Assoc
  <2> QED
    BY <2>1, <2>2, Zenon
<1> HIDE DEF s
<1>4. Whole(s, cut)
  BY <1>1, <1>3, WholePrefix
<1>5. StreamInv(c)'
  BY <1>2, <1>4, Zenon DEF StreamInv
<1> QED
  BY <1>5, FrameLocal, Zenon

\* Closing a connection drops the end of its stream, if the client has not left.
LEMMA FrameClosed ==
    ASSUME FrameInv, BudgetInv', NEW c \in Conns, CloseConnection(c), UNCHANGED <<recv, sock, cut>>
    PROVE  FrameInv'
<1>1. CASE ~entry[c]
  BY <1>1, FrameUnchanged, Zenon DEF CloseConnection
<1>2. CASE entry[c]
  <2>1. /\ outq' = [outq EXCEPT ![c] = <<>>]
        /\ peer' = [peer EXCEPT ![c] = IF peer[c] = "open" THEN "shut" ELSE peer[c]]
    BY <1>2, Zenon DEF CloseConnection
  <2>2. peer \in [Conns -> {"open", "shut", "gone"}] /\ outq \in [Conns -> Seq(Units)] /\ StreamTypes
    BY Zenon DEF FrameInv, StreamTypes, BudgetInv, QueueTypes
  <2>3. /\ StreamTypes' /\ outq'[c] = <<>> /\ sock'[c] = sock[c]
        /\ peer'[c] = (IF peer[c] = "open" THEN "shut" ELSE peer[c])
        /\ \A d \in Conns : d # c => sock'[d] = sock[d] /\ outq'[d] = outq[d] /\ peer'[d] = peer[d]
    BY <2>1, <2>2, Zenon DEF StreamTypes
  <2>4. peer[c] \in {"open", "shut", "gone"}
    BY <2>2, Zenon
  <2> QED
    BY <2>3, <2>4, FrameCut, Zenon
<1> QED
  BY <1>1, <1>2, Zenon

\* Units move along a stream: from the socket to the client, from the queue to the socket.
LEMMA FrameMoved ==
    ASSUME FrameInv, BudgetInv', StreamTypes', NEW c \in Conns, UNCHANGED <<peer, cut>>,
           Stream(c)' = Stream(c), outq[c] = <<>> => outq'[c] = <<>>,
           \A d \in Conns : d # c => recv'[d] = recv[d] /\ sock'[d] = sock[d] /\ outq'[d] = outq[d]
    PROVE  FrameInv'
<1>1. StreamInv(c)'
  BY Zenon DEF FrameInv, StreamInv
<1> QED
  BY <1>1, FrameLocal, Zenon

\* The client reads.
LEMMA FrameRead == ASSUME FrameInv, BudgetInv', NEW c \in Conns, ClientRead(c) PROVE FrameInv'
<1> DEFINE h == <<Head(sock[c])>>
           t == Tail(sock[c])
<1>1. recv[c] \in Seq(Units) /\ sock[c] \in Seq(Units) /\ outq[c] \in Seq(Units)
  BY StreamType, Zenon
<1>2. h \in Seq(Units) /\ t \in Seq(Units) /\ h \o t = sock[c] /\ Append(recv[c], Head(sock[c])) = recv[c] \o h
  <2>1. sock[c] # <<>>
    BY Zenon DEF ClientRead
  <2>2. h \in Seq(Units) /\ t \in Seq(Units) /\ h \o t = sock[c]
    BY <1>1, <2>1, HeadTail, Zenon
  <2> QED
    BY <1>1, <2>1, <2>2
<1>3. /\ recv' = [recv EXCEPT ![c] = recv[c] \o h] /\ sock' = [sock EXCEPT ![c] = t]
      /\ UNCHANGED <<outq, peer, cut>> /\ peer[c] # "gone"
  BY <1>2, Zenon DEF ClientRead, kept
<1> HIDE DEF h, t
<1>4. recv[c] \o h \in Seq(Units) /\ t \o outq[c] \in Seq(Units)
  BY <1>1, <1>2, ConcatElements, Zenon
<1>5. recv \in [Conns -> Seq(Units)] /\ sock \in [Conns -> Seq(Units)]
  BY Zenon DEF FrameInv, StreamTypes, BudgetInv, QueueTypes
<1>6. /\ recv'[c] = recv[c] \o h /\ sock'[c] = t /\ StreamTypes'
      /\ \A d \in Conns : d # c => recv'[d] = recv[d] /\ sock'[d] = sock[d]
  BY <1>3, <1>4, <1>5, Zenon DEF FrameInv, StreamTypes
<1>7. (recv[c] \o h) \o (t \o outq[c]) = recv[c] \o (sock[c] \o outq[c])
  <2>1. Passed(recv[c], h, t, outq[c])
    BY <1>1, <1>2, ReadRow, Zenon
  <2> QED
    BY <1>2, <2>1, Zenon DEF Passed
<1>8. Stream(c)' = Stream(c)
  BY <1>3, <1>6, <1>7, Zenon DEF Stream
<1> QED
  BY <1>3, <1>6, <1>8, FrameMoved, Zenon

\* The reactor flushes.
LEMMA FrameFlushed == ASSUME FrameInv, BudgetInv', NEW c \in Conns, Flush(c) PROVE FrameInv'
<1> DEFINE n == Min({MaxFlush, Len(outq[c]), SocketRoom - Len(sock[c])})
           a == SubSeq(outq[c], 1, n)
           b == SubSeq(outq[c], n + 1, Len(outq[c]))
<1>1. recv[c] \in Seq(Units) /\ sock[c] \in Seq(Units) /\ outq[c] \in Seq(Units)
  BY StreamType, Zenon
<1>2. n \in 0..Len(outq[c])
  <2>1. MaxFlush \in Int /\ Len(outq[c]) \in Nat /\ SocketRoom - Len(sock[c]) \in Int
    BY <1>1, SizeAssumption
  <2>2. n \in {MaxFlush, Len(outq[c]), SocketRoom - Len(sock[c])} /\ n <= Len(outq[c])
    <3>1. Len(outq[c]) \in Int
      BY <2>1
    <3> QED
      BY <2>1, <3>1, MinOfThree, Zenon
  <2>3. n > 0
    BY Zenon DEF Flush
  <2> HIDE DEF n
  <2> QED
    BY <2>1, <2>2, <2>3
<1>3. /\ sock' = [sock EXCEPT ![c] = sock[c] \o a] /\ outq' = [outq EXCEPT ![c] = b]
      /\ UNCHANGED <<recv, peer, cut>>
  BY Zenon DEF Flush, client, kept
<1> HIDE DEF n
<1>4. a \in Seq(Units) /\ b \in Seq(Units) /\ a \o b = outq[c] /\ Len(b) = Len(outq[c]) - n
  BY <1>1, <1>2, SplitParts, SplitSeq, Zenon
<1> HIDE DEF a, b
<1>5. sock \in [Conns -> Seq(Units)] /\ outq \in [Conns -> Seq(Units)]
  BY Zenon DEF FrameInv, BudgetInv, QueueTypes
<1>6. /\ sock'[c] = sock[c] \o a /\ outq'[c] = b /\ StreamTypes'
      /\ \A d \in Conns : d # c => sock'[d] = sock[d] /\ outq'[d] = outq[d]
  BY <1>3, <1>5, Zenon DEF FrameInv, StreamTypes
<1>7. (sock[c] \o a) \o b = sock[c] \o outq[c]
  <2>1. Assoc(sock[c], a, b)
    BY <1>1, <1>4, ConcatAssoc, Zenon
  <2> QED
    BY <1>4, <2>1, Zenon DEF Assoc
<1>8. Stream(c)' = Stream(c)
  BY <1>3, <1>6, <1>7, Zenon DEF Stream
<1>9. outq[c] = <<>> => outq'[c] = <<>>
  <2>1. peer[c] = "open" /\ outq[c] # <<>>
    <3>1. n > 0
      BY Zenon DEF Flush, n
    <3>2. Len(outq[c]) # 0
      BY <1>1, <1>2, <3>1
    <3> QED
      BY <3>2 DEF Flush
  <2> QED
    BY <2>1, Zenon
<1> QED
  BY <1>3, <1>6, <1>8, <1>9, FrameMoved, Zenon

\* What write_fixed_response adds to a stream: nothing where sending fails; otherwise a part p
\* of the frame to the socket, if nothing is queued, and a part q to the queue, which are the
\* whole frame or a response that is cut.
LEMMA WriteEffect ==
    ASSUME BudgetInv, DOMAIN stage = Requests, NEW r \in Requests, WriteFixedResponse(r)
    PROVE  \/ UNCHANGED <<recv, sock, outq, peer, cut>>
           \/ \E p, q \in Seq(Units), n \in 0..Size[r] :
                 /\ outq[ConnOf[r]] = <<>> => peer[ConnOf[r]] = "open"
                 /\ outq[ConnOf[r]] = <<>> \/ p = <<>>
                 /\ p \o q = SubSeq(Frame(r), 1, n)
                 /\ sock' = [sock EXCEPT ![ConnOf[r]] = sock[ConnOf[r]] \o p]
                 /\ outq' = [outq EXCEPT ![ConnOf[r]] = outq[ConnOf[r]] \o q]
                 /\ UNCHANGED <<recv, peer>> /\ cut \subseteq cut'
                 /\ n = 0 \/ n = Size[r] \/ r \in cut'
<1> DEFINE c == ConnOf[r]
           direct == outq[c] = <<>>
           sent == IF direct THEN Min({Size[r], SocketRoom - Len(sock[c])}) ELSE 0
           part == SubSeq(Frame(r), 1, sent)
           rest == SubSeq(Frame(r), sent + 1, Size[r])
           failed == direct /\ peer[c] # "open"
<1>1. /\ c \in Conns /\ Size[r] \in Nat /\ Frame(r) \in Seq(Units) /\ Len(Frame(r)) = Size[r]
      /\ sock[c] \in Seq(Units) /\ outq[c] \in Seq(Units) /\ outq \in [Conns -> Seq(Units)]
  BY SizeAssumption, FrameType, Zenon DEF BudgetInv, QueueTypes
<1>2. sent \in 0..Size[r]
  <2>1. Len(sock[c]) \in Nat /\ Len(sock[c]) <= SocketRoom /\ SocketRoom \in Nat
    BY <1>1, SizeAssumption DEF BudgetInv, QueueTypes
  <2>2. SocketRoom - Len(sock[c]) \in Nat /\ SocketRoom - Len(sock[c]) \in Int /\ Size[r] \in Int
    BY <1>1, <2>1
  <2>3. LET m == Min({Size[r], SocketRoom - Len(sock[c])})
        IN  m \in {Size[r], SocketRoom - Len(sock[c])} /\ m <= Size[r]
    BY <2>2, MinOfTwo, Zenon
  <2>4. CASE direct
    <3>1. sent = Min({Size[r], SocketRoom - Len(sock[c])})
      BY <2>4, Zenon
    <3> HIDE DEF sent
    <3> QED
      BY <1>1, <2>2, <2>3, <3>1
  <2>5. CASE ~direct
    BY <1>1, <2>5
  <2> QED
    BY <2>4, <2>5, Zenon
<1>3. /\ sock' = IF failed THEN sock ELSE [sock EXCEPT ![c] = sock[c] \o part]
      /\ UNCHANGED <<recv, peer>>
  BY Zenon DEF WriteFixedResponse, WriteFrame, client, sent
<1>4. \/ (failed \/ rest = <<>>) /\ UNCHANGED <<outq, cut>>
      \/ ~failed /\ outq' = [outq EXCEPT ![c] = outq[c] \o rest] /\ UNCHANGED cut
      \/ ~failed /\ UNCHANGED outq /\ cut' = (IF sent > 0 THEN cut \cup {r} ELSE cut)
  BY Zenon DEF WriteFixedResponse, WriteFrame, Goto, sent
<1>5. direct \/ sent = 0
  BY Zenon
<1> HIDE DEF sent
<1>6. /\ part \in Seq(Units) /\ Len(part) = sent /\ rest \in Seq(Units) /\ Len(rest) = Size[r] - sent
      /\ part \o rest = Frame(r) /\ SubSeq(Frame(r), 1, Size[r]) = Frame(r)
  <2>1. /\ part \in Seq(Units) /\ Len(part) = sent
        /\ rest \in Seq(Units) /\ Len(rest) = Size[r] - sent
    BY <1>1, <1>2, SplitParts
  <2>2. part \o rest = Frame(r)
    BY <1>1, <1>2, SplitSeq, Zenon
  <2>3. SubSeq(Frame(r), 1, Size[r]) = Frame(r)
    BY <1>1
  <2> QED
    BY <2>1, <2>2, <2>3, Zenon
<1> HIDE DEF rest
<1>7. direct \/ part = <<>>
  <2> HIDE DEF part
  <2> QED
    BY <1>5, <1>6
<1>8. part \o <<>> = part /\ outq[c] \o <<>> = outq[c] /\ <<>> \in Seq(Units)
  BY <1>1, <1>6, ConcatEmpty, Zenon
<1>9. CASE failed
  BY <1>3, <1>4, <1>9, Zenon
<1>10. CASE ~failed /\ outq' = [outq EXCEPT ![c] = outq[c] \o rest] /\ UNCHANGED cut
  <2>1. sock' = [sock EXCEPT ![c] = sock[c] \o part] /\ (direct => peer[c] = "open")
    BY <1>3, <1>10, Zenon
  <2>2. Size[r] \in 0..Size[r] /\ part \o rest = SubSeq(Frame(r), 1, Size[r])
    BY <1>1, <1>6
  <2> HIDE DEF part
  <2> QED
    BY <1>3, <1>6, <1>7, <1>10, <2>1, <2>2, Zenon
<1>11. CASE /\ ~failed /\ UNCHANGED outq
            /\ \/ rest = <<>> /\ UNCHANGED cut
               \/ cut' = (IF sent > 0 THEN cut \cup {r} ELSE cut)
  <2>1. sock' = [sock EXCEPT ![c] = sock[c] \o part] /\ (direct => peer[c] = "open")
    BY <1>3, <1>11, Zenon
  <2>2. cut \subseteq cut' /\ (sent = 0 \/ sent = Size[r] \/ r \in cut')
    <3>1. rest = <<>> => sent = Size[r]
      BY <1>1, <1>2, <1>6
    <3> QED
      BY <1>2, <1>11, <3>1
  <2>3. outq' = [outq EXCEPT ![c] = outq[c] \o <<>>]
    BY <1>1, <1>8, <1>11, Zenon
  <2>4. part \o <<>> = SubSeq(Frame(r), 1, sent)
    BY <1>8, Zenon
  <2> HIDE DEF part
  <2> QED
    BY <1>2, <1>3, <1>6, <1>7, <1>8, <2>1, <2>2, <2>3, <2>4, Zenon
<1> QED
  BY <1>4, <1>9, <1>10, <1>11, Zenon

\* A worker writes a frame behind a stream that has ended, or its client has gone.
LEMMA FrameWritten ==
    ASSUME FrameInv, BudgetInv', DOMAIN stage = Requests, NEW r \in Requests, WriteFixedResponse(r)
    PROVE  FrameInv'
<1> DEFINE c == ConnOf[r]
<1>1. CASE UNCHANGED <<recv, sock, outq, peer, cut>>
  BY <1>1, FrameUnchanged, Zenon
<1>2. CASE ~UNCHANGED <<recv, sock, outq, peer, cut>>
  <2>1. PICK p \in Seq(Units), q \in Seq(Units), n \in 0..Size[r] :
                 /\ outq[c] = <<>> => peer[c] = "open"
                 /\ outq[c] = <<>> \/ p = <<>>
                 /\ p \o q = SubSeq(Frame(r), 1, n)
                 /\ sock' = [sock EXCEPT ![c] = sock[c] \o p]
                 /\ outq' = [outq EXCEPT ![c] = outq[c] \o q]
                 /\ UNCHANGED <<recv, peer>> /\ cut \subseteq cut'
                 /\ n = 0 \/ n = Size[r] \/ r \in cut'
    BY <1>2, WriteEffect, Zenon DEF FrameInv
  <2>2. /\ c \in Conns /\ recv[c] \in Seq(Units) /\ sock[c] \in Seq(Units) /\ outq[c] \in Seq(Units)
        /\ Stream(c) \in Seq(Units)
    BY SizeAssumption, StreamType, Zenon
  <2>3. sock \in [Conns -> Seq(Units)] /\ outq \in [Conns -> Seq(Units)] /\ StreamTypes
    BY Zenon DEF FrameInv, BudgetInv, QueueTypes
  <2> HIDE DEF c
  <2>4. /\ sock'[c] = sock[c] \o p /\ outq'[c] = outq[c] \o q /\ StreamTypes'
        /\ \A d \in Conns : d # c => sock'[d] = sock[d] /\ outq'[d] = outq[d]
    BY <2>1, <2>2, <2>3, Zenon DEF StreamTypes
  <2>5. StreamInv(c) /\ Whole(Stream(c), cut')
    BY <2>1, <2>2, WholeGrows, Zenon DEF FrameInv, StreamInv
  <2>6. StreamInv(c)'
    <3>1. CASE peer[c] = "open"
      <4>1. Stream(c)' = Stream(c) \o SubSeq(Frame(r), 1, n)
        <5>1. /\ Stream(c)' = recv[c] \o ((sock[c] \o p) \o (outq[c] \o q))
              /\ Stream(c) = recv[c] \o (sock[c] \o outq[c])
          BY <2>1, <2>4, <3>1, Zenon DEF Stream
        <5>2. Written(recv[c], sock[c], outq[c], p, q)
          BY <2>1, <2>2, WriteRow, Zenon
        <5> QED
          BY <2>1, <5>1, <5>2, Zenon DEF Written
      <4>2. Ended(Stream(c), cut')
        BY <2>1, <2>5, <3>1, WholeGrows, Zenon DEF StreamInv
      <4>3. Whole(Stream(c)', cut') /\ Ended(Stream(c)', cut')
        BY <2>1, <2>2, <2>5, <4>1, <4>2, WholeAppended, Zenon
      <4> QED
        BY <2>1, <3>1, <4>3, Zenon DEF StreamInv
    <3>2. CASE peer[c] = "gone"
      <4>1. Stream(c)' = Stream(c)
        BY <2>1, <3>2, Zenon DEF Stream
      <4> QED
        BY <2>1, <2>5, <3>2, <4>1, Zenon DEF StreamInv
    <3>3. peer[c] \in {"open", "gone"}
      BY <2>1, <2>2, <2>3, <2>5, Zenon DEF StreamTypes, StreamInv
    <3> QED
      BY <3>1, <3>2, <3>3, Zenon
  <2> QED
    BY <2>1, <2>2, <2>4, <2>6, FrameLocal, Zenon
<1> QED
  BY <1>1, <1>2, Zenon

\* Every step keeps frames whole.
LEMMA FrameStep == FrameInv /\ ConnTypes /\ [Next]_vars => FrameInv'
<1> SUFFICES ASSUME FrameInv, ConnTypes, [Next]_vars PROVE FrameInv'
  BY Zenon
<1>0. BudgetInv' /\ DOMAIN stage = Requests /\ \A r \in Requests : ConnOf[r] \in Conns
  BY BudgetStep, SizeAssumption, Zenon DEF FrameInv, ConnTypes
<1> USE DEF kept, client
<1>1. ASSUME NEW r \in Requests, ClientSend(r) \/ EnableOutput(r) \/ Complete(r) \/ Continue(r)
                                 \/ Dispatch(r)
      PROVE  FrameInv'
  <2>1. UNCHANGED <<recv, sock, outq, peer, cut>>
    BY <1>1, Zenon DEF ClientSend, EnableOutput, Complete, Continue, Dispatch
  <2> QED
    BY <1>0, <2>1, FrameUnchanged, Zenon
<1>2. ASSUME NEW r \in Requests, WriteFixedResponse(r) PROVE FrameInv'
  BY <1>0, <1>2, FrameWritten, Zenon
<1>3. ASSUME NEW r \in Requests, Overflow(r) \/ RearmAndServe(r) \/ Release(r) PROVE FrameInv'
  <2>1. UNCHANGED <<recv, sock, cut>>
    BY <1>3, Zenon DEF Overflow, RearmAndServe, Release
  <2>2. CloseConnection(ConnOf[r]) \/ UNCHANGED <<outq, peer>>
    BY <1>3, Zenon DEF Overflow, RearmAndServe, Release, Rearmed
  <2> QED
    BY <1>0, <2>1, <2>2, FrameClosed, FrameUnchanged, Zenon
<1>4. ASSUME NEW c \in Conns, ClientRead(c) PROVE FrameInv'
  BY <1>0, <1>4, FrameRead, Zenon
<1>5. ASSUME NEW c \in Conns, ClientHangup(c) PROVE FrameInv'
  <2>1. /\ UNCHANGED <<recv, outq, cut>> /\ peer' = [peer EXCEPT ![c] = "gone"]
        /\ sock' = [sock EXCEPT ![c] = <<>>]
    BY <1>5, Zenon DEF ClientHangup
  <2>2. /\ StreamTypes' /\ peer'[c] = "gone"
        /\ \A d \in Conns : d # c => sock'[d] = sock[d] /\ outq'[d] = outq[d] /\ peer'[d] = peer[d]
    BY <2>1, Zenon DEF FrameInv, StreamTypes, BudgetInv, QueueTypes
  <2> QED
    BY <1>0, <2>1, <2>2, FrameCut, Zenon
<1>6. ASSUME NEW c \in Conns, Expire(c) PROVE FrameInv'
  BY <1>0, <1>6, FrameClosed, Zenon DEF Expire
<1>7. ASSUME NEW c \in Conns, Flush(c) PROVE FrameInv'
  BY <1>0, <1>7, FrameFlushed, Zenon
<1>8. ASSUME NEW c \in Conns, FlushRefresh(c) PROVE FrameInv'
  BY <1>0, <1>8, FrameUnchanged, Zenon DEF FlushRefresh
<1>9. CASE UNCHANGED vars
  BY <1>0, <1>9, FrameUnchanged, Zenon DEF vars
<1> QED
  BY <1>1, <1>2, <1>3, <1>4, <1>5, <1>6, <1>7, <1>8, <1>9, Zenon DEF Next, Worker, Reactor

\* Responses to pipelined requests do not interleave on a connection, whatever part of each
\* the socket takes (write_fixed_response, flush_connection_output), for any number of
\* workers, connections and any sizes; a response cut by the budgets is the one exception.
THEOREM FramesStayWhole == Spec => []FramesWhole
<1>1. Init => FrameInv
  <2> SUFFICES ASSUME Init PROVE FrameInv
    BY Zenon
  <2>1. StreamTypes
    BY DEF Init, StreamTypes
  <2>2. ASSUME NEW c \in Conns PROVE Stream(c) = <<>> /\ peer[c] = "open"
    BY DEF Init, Stream
  <2>3. \A c \in Conns : StreamInv(c)
    BY <2>2 DEF StreamInv, Whole, Ended
  <2> QED
    BY <2>1, <2>3, InitBudget, Zenon DEF FrameInv
<1>2. FrameInv => FramesWhole
  BY Zenon DEF FrameInv, StreamInv, Stream, Whole, FramesWhole
<1>3. ReachInv => ConnTypes
  BY Zenon DEF ReachInv
<1> QED
  BY <1>1, <1>2, <1>3, InitReach, ReachStep, FrameStep, PTL DEF Spec
=============================================================================
