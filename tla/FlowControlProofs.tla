-------------------------- MODULE FlowControlProofs --------------------------
(***************************************************************************)
(* Input stays within its limits, is not forgotten, and is accounted for   *)
(* exactly (flow_control.cpp), for any connections, workers, request sizes *)
(* and budgets.                                                            *)
(***************************************************************************)
EXTENDS FlowControl, FiniteSetTheorems, TLAPS

\* Every step is tried with SMT and Zenon and, where a loaded machine needs it, with
\* SMT for longer.
USE SMT, Zenon, SMTT(30)

\* The client's stream: what has arrived, was read and was parsed, in this order.
StreamTypes ==
    /\ arrived \in [Conns -> Nat] /\ read \in [Conns -> Nat] /\ consumed \in [Conns -> Nat]
    /\ \A c \in Conns : consumed[c] <= read[c] /\ read[c] <= arrived[c]
                        /\ arrived[c] <= 2 * Len(Sizes[c])

CounterTypes ==
    /\ reserved \in [Conns -> BOOLEAN] /\ paused \in [Conns -> BOOLEAN]
    /\ open \in [Conns -> BOOLEAN] /\ leased \in SUBSET Conns
    /\ reqs \in [Conns -> Int] /\ bytes \in [Conns -> Int] /\ total \in Int
    /\ cur \in Conns /\ maxTotal \in Nat /\ after \in {"read", "parse"}

FlowTypes == StreamTypes /\ CounterTypes

\* The requests in the queue and in the hands of workers.
WorkTypes ==
    /\ pendingJobs \in Seq(Requests) /\ DOMAIN poolPc = PoolWorkers /\ DOMAIN poolReq = PoolWorkers
    /\ \A w \in PoolWorkers : poolPc[w] # "idle" => poolReq[w] \in Requests

\* A reservation belongs to a header whose payload is outstanding, and the connection
\* that the reactor is consuming from is not paused.
Parsing ==
    /\ \A c \in Conns : reserved[c] => consumed[c] % 2 = 1 /\ Strict
    /\ readPc \in {"reserve", "global", "rollback"} =>
          consumed[cur] % 2 = 1 /\ Strict /\ ~reserved[cur]
    /\ readPc \notin {"idle", "release", "close"} => ~paused[cur]

\* The reactor is in consume, or about to close what it consumed from.
Consuming(c) == cur = c /\ readPc \notin {"idle", "release"}

\* A leased connection has one owner, and nothing of it is active, buffered, paused or
\* in the reactor's hands.
Leases ==
    /\ \A w \in PoolWorkers : poolPc[w] \in {"lease", "continue"} => ~Strict
    /\ \A w \in PoolWorkers : poolPc[w] = "continue" => poolReq[w][1] \in leased
    /\ \A v, w \in PoolWorkers :
          poolPc[v] = "continue" /\ poolPc[w] = "continue" /\ poolReq[v][1] = poolReq[w][1] => v = w
    /\ \A c \in leased : /\ ~Strict /\ ~paused[c] /\ ~Consuming(c)
                         /\ Executing(c) = {} /\ QueuedOf(c) = {}
                         /\ consumed[c] = read[c] /\ consumed[c] % 2 = 0

FlowInv == FlowTypes /\ WorkTypes /\ Parsing /\ Leases

\* Most steps leave the client's stream alone.
LEMMA StreamKept ==
    ASSUME StreamTypes, UNCHANGED <<arrived, read, consumed>> PROVE StreamTypes'
  BY Zenon DEF StreamTypes

\* A request's connection, number and declared size.
LEMMA RequestType ==
    ASSUME NEW r \in Requests
    PROVE  r[1] \in Conns /\ r[2] \in Nat /\ SizeOf(r) \in 1..MaxMessage /\ SizeOf(r) \in Nat
<1>1. PICK c \in Conns : r \in {c} \X DOMAIN Sizes[c]
  BY Zenon DEF Requests
<1>2. r[1] = c /\ r[2] \in DOMAIN Sizes[c]
  BY <1>1, Zenon
<1>3. Sizes[c] \in Seq(1..MaxMessage) /\ MaxMessage \in Nat
  BY SizesAssumption, LimitsAssumption, Zenon
<1>4. r[2] \in Nat /\ Sizes[c][r[2]] \in 1..MaxMessage
  BY <1>2, <1>3
<1>5. Sizes[c][r[2]] \in Nat
  BY <1>3, <1>4
<1> QED
  BY <1>2, <1>4, <1>5, Zenon DEF SizeOf

\* A request that has arrived is one of its connection's.
LEMMA ArrivedType ==
    ASSUME FlowTypes, NEW c \in Conns, NEW i \in Nat \ {0}, 2 * i <= arrived[c] + 1
    PROVE  <<c, i>> \in Requests
<1> DEFINE n == Len(Sizes[c])
<1>1. arrived[c] \in Nat /\ arrived[c] <= 2 * n /\ n \in Nat /\ DOMAIN Sizes[c] = 1..n
  BY SizesAssumption DEF FlowTypes, StreamTypes
<1> HIDE DEF n
<1>2. i \in 1..n
  BY <1>1
<1> QED
  BY <1>1, <1>2 DEF Requests

\* The request being parsed is one of its connection's.
LEMMA CurrentType ==
    ASSUME FlowTypes, NEW c \in Conns, consumed[c] % 2 = 1
    PROVE  Parsed(c) \in Requests /\ Parsed(c)[1] = c /\ SizeOf(Parsed(c)) \in Nat
<1>1. /\ consumed[c] \in Nat /\ read[c] \in Nat /\ arrived[c] \in Nat
      /\ consumed[c] <= read[c] /\ read[c] <= arrived[c]
  BY Zenon DEF FlowTypes, StreamTypes
<1> DEFINE i == (consumed[c] + 1) \div 2
<1>2. i \in Nat \ {0} /\ 2 * i <= arrived[c] + 1
  BY <1>1
<1>3. Parsed(c) = <<c, i>>
  BY Zenon DEF Parsed
<1> HIDE DEF i
<1>4. <<c, i>> \in Requests /\ <<c, i>>[1] = c
  BY <1>2, ArrivedType
<1> QED
  BY <1>3, <1>4, RequestType, Zenon

\* A header is followed by its payload: positions in the stream alternate.
LEMMA OddAfterEven == ASSUME NEW n \in Nat, n % 2 = 0 PROVE (n + 1) % 2 = 1
  OBVIOUS

\* Min of the community modules, for the read of strict mode.
LEMMA MinIsBound ==
    ASSUME NEW a \in Int, NEW b \in Int
    PROVE  Min({a, b}) \in {a, b} /\ Min({a, b}) <= a /\ Min({a, b}) <= b
<1>1. \E x \in {a, b} : \A y \in {a, b} : x <= y
  <2>1. CASE a <= b
    BY <2>1
  <2>2. CASE ~(a <= b)
    BY <2>2
  <2> QED
    BY <2>1, <2>2, Zenon
<1> QED
  BY <1>1, Zenon DEF Min

\* The initial state satisfies the invariant.
LEMMA InitFlow == FlowInit => FlowInv
<1> SUFFICES ASSUME FlowInit PROVE FlowInv
  BY Zenon
<1>1. maxTotal \in Nat /\ cur \in Conns
  BY LimitsAssumption, Zenon DEF FlowInit
<1>2. FlowTypes
  <2>1. \A c \in Conns : Len(Sizes[c]) \in Nat
    BY SizesAssumption
  <2> QED
    BY <1>1, <2>1 DEF FlowInit, FlowTypes, CounterTypes, StreamTypes
<1>3. WorkTypes /\ Parsing
  BY DEF FlowInit, WorkTypes, Parsing
<1>4. Leases
  BY Zenon DEF FlowInit, Leases
<1> QED
  BY <1>2, <1>3, <1>4, Zenon DEF FlowInv

\* A lease outlives every step that leaves the workers and the queue alone and does not
\* begin to consume from its connection.
LEMMA LeasesKept ==
    ASSUME Leases, UNCHANGED <<pendingJobs, poolPc, poolReq, leased, maxTotal>>,
           \A c \in leased : /\ paused'[c] => paused[c]
                             /\ consumed'[c] = consumed[c] /\ read'[c] = read[c]
                             /\ Consuming(c)' => Consuming(c)
    PROVE  Leases'
<1>1. \A c \in leased : Executing(c)' = Executing(c) /\ QueuedOf(c)' = QueuedOf(c)
  BY Zenon DEF Executing, QueuedOf
<1> QED
  BY <1>1, Zenon DEF Leases, Strict

\* Steps of the reactor that leave the counters alone.
LEMMA ReactorMoves ==
    ASSUME FlowInv, UNCHANGED maxTotal,
           \/ Read \/ ParseDone \/ ParseHeader \/ PauseIfNeeded \/ Pause
           \/ \E c \in Conns : ClientSends(c) \/ ReadableEvent(c) \/ ProcessResumed(c)
    PROVE  FlowInv'
<1>1. FlowTypes /\ WorkTypes /\ Parsing /\ Leases
  BY Zenon DEF FlowInv
<1>2. /\ UNCHANGED <<pendingJobs, poolPc, poolReq, reqs, bytes, total, reserved, open, leased>>
      /\ Strict' = Strict
  BY Zenon DEF Read, ParseDone, ParseHeader, PauseIfNeeded, Pause, ClientSends, ReadableEvent,
         ProcessResumed, parser, counters, gates, pool, queue, Strict
<1>3. WorkTypes'
  BY <1>1, <1>2, Zenon DEF WorkTypes
<1>4. ASSUME FlowTypes', Parsing', cur' = cur, Consuming(cur),
             \A c \in Conns : c # cur => /\ consumed'[c] = consumed[c] /\ read'[c] = read[c]
                                         /\ paused'[c] = paused[c]
      PROVE  FlowInv'
  <2>1. cur \notin leased /\ \A c \in leased : c \in Conns /\ ~Consuming(c)'
    BY <1>1, <1>4, Zenon DEF Leases, Consuming, FlowTypes, CounterTypes
  <2>2. Leases'
    BY <1>1, <1>2, <1>4, <2>1, LeasesKept, Zenon
  <2> QED
    BY <1>3, <1>4, <2>2, Zenon DEF FlowInv
<1>5. /\ cur \in Conns /\ paused \in [Conns -> BOOLEAN] /\ arrived \in [Conns -> Nat]
      /\ read \in [Conns -> Nat] /\ consumed \in [Conns -> Nat]
  BY <1>1, Zenon DEF FlowTypes, CounterTypes, StreamTypes
<1>6. CASE Read
  <2>1. /\ readPc = "read" /\ readPc' = "parse" /\ UNCHANGED <<arrived, consumed, paused, cur, after>>
        /\ read' = [read EXCEPT ![cur] =
               IF Strict THEN Min({arrived[cur], consumed[cur] + 1}) ELSE arrived[cur]]
    BY <1>6, Zenon DEF Read, gates
  <2>2. arrived[cur] \in Nat /\ consumed[cur] \in Nat /\ consumed[cur] <= arrived[cur]
    BY <1>1 DEF FlowTypes, CounterTypes, StreamTypes
  <2> DEFINE m == Min({arrived[cur], consumed[cur] + 1})
  <2>3. m \in {arrived[cur], consumed[cur] + 1} /\ m <= arrived[cur]
    <3>1. arrived[cur] \in Int /\ consumed[cur] + 1 \in Int
      BY <2>2
    <3> QED
      BY <3>1, MinIsBound, Zenon
  <2>4. m \in Nat /\ consumed[cur] <= m /\ m <= arrived[cur]
    BY <2>2, <2>3
  <2> HIDE DEF m
  <2>5. PICK k \in Nat : read' = [read EXCEPT ![cur] = k] /\ consumed[cur] <= k /\ k <= arrived[cur]
    <3>1. CASE Strict
      BY <2>1, <2>4, <3>1, Zenon DEF m
    <3>2. CASE ~Strict
      <4>1. read' = [read EXCEPT ![cur] = arrived[cur]] /\ arrived[cur] <= arrived[cur]
        BY <2>1, <2>2, <3>2
      <4> QED
        BY <2>2, <4>1, Zenon
    <3> QED
      BY <3>1, <3>2, Zenon
  <2>6. read' \in [Conns -> Nat] /\ read'[cur] = k /\ \A c \in Conns : c # cur => read'[c] = read[c]
    BY <1>5, <2>5, Zenon
  <2>7. FlowTypes'
    <3>1. StreamTypes'
      BY <1>1, <1>5, <2>1, <2>5, <2>6, Zenon DEF FlowTypes, StreamTypes
    <3> QED
      BY <1>1, <1>2, <2>1, <3>1, Zenon DEF FlowTypes, CounterTypes
  <2>8. Parsing' /\ Consuming(cur)
    BY <1>1, <1>2, <2>1, Zenon DEF Parsing, Consuming
  <2> QED
    BY <1>4, <2>1, <2>6, <2>7, <2>8, Zenon
<1>7. CASE ParseDone
  <2>1. /\ readPc = "parse" /\ readPc' \in {"idle", "close"}
        /\ UNCHANGED <<arrived, read, consumed, paused, cur, after>>
    BY <1>7, Zenon DEF ParseDone, Leave, parser, gates
  <2>2. FlowTypes'
    BY <1>1, <1>2, <2>1, StreamKept, Zenon DEF FlowTypes, CounterTypes
  <2>3. Parsing' /\ Consuming(cur)
    BY <1>1, <1>2, <2>1, Zenon DEF Parsing, Consuming
  <2> QED
    BY <1>4, <2>1, <2>2, <2>3, Zenon
<1>8. CASE ParseHeader
  <2>1. /\ readPc = "parse" /\ readPc' = IF Strict THEN "reserve" ELSE "parse"
        /\ consumed[cur] < read[cur] /\ consumed[cur] % 2 = 0 /\ after' = "parse"
        /\ consumed' = [consumed EXCEPT ![cur] = @ + 1] /\ UNCHANGED <<arrived, read, paused, cur>>
    BY <1>8, Zenon DEF ParseHeader, gates
  <2>2. consumed[cur] \in Nat /\ read[cur] \in Nat
    BY <1>5, Zenon
  <2>3. consumed'[cur] = consumed[cur] + 1 /\ (consumed[cur] + 1) % 2 = 1
    BY <1>5, <2>1, <2>2, OddAfterEven, Zenon
  <2>4. consumed' \in [Conns -> Nat] /\ \A c \in Conns : c # cur => consumed'[c] = consumed[c]
    BY <1>5, <2>1, <2>2
  <2>5. consumed'[cur] <= read[cur] /\ ~reserved[cur]
    BY <1>1, <1>5, <2>1, <2>2, <2>3 DEF Parsing
  <2>6. FlowTypes'
    <3>1. StreamTypes'
      BY <1>1, <1>5, <2>1, <2>4, <2>5, Zenon DEF FlowTypes, StreamTypes
    <3> QED
      BY <1>1, <1>2, <2>1, <3>1, Zenon DEF FlowTypes, CounterTypes
  <2>7. Parsing' /\ Consuming(cur)
    BY <1>1, <1>2, <2>1, <2>2, <2>3, <2>4, <2>5, Zenon DEF Parsing, Consuming
  <2> QED
    BY <1>4, <2>1, <2>4, <2>6, <2>7, Zenon
<1>9. CASE PauseIfNeeded
  <2>1. /\ readPc = "check" /\ readPc' \in {"pause", "parse"}
        /\ UNCHANGED <<arrived, read, consumed, paused, cur, after>>
    BY <1>9, Zenon DEF PauseIfNeeded, parser, gates
  <2>2. FlowTypes'
    BY <1>1, <1>2, <2>1, StreamKept, Zenon DEF FlowTypes, CounterTypes
  <2>3. Parsing' /\ Consuming(cur)
    BY <1>1, <1>2, <2>1, Zenon DEF Parsing, Consuming
  <2> QED
    BY <1>4, <2>1, <2>2, <2>3, Zenon
<1>10. CASE Pause
  <2>1. /\ readPc = "pause" /\ readPc' \in {"idle", "close"}
        /\ paused' = [paused EXCEPT ![cur] = TRUE] /\ UNCHANGED <<arrived, read, consumed, cur, after>>
    BY <1>10, Zenon DEF Pause, Leave, parser
  <2>2. paused' \in [Conns -> BOOLEAN] /\ \A c \in Conns : c # cur => paused'[c] = paused[c]
    BY <1>5, <2>1, Zenon
  <2>3. FlowTypes'
    BY <1>1, <1>2, <2>1, <2>2, StreamKept, Zenon DEF FlowTypes, CounterTypes
  <2>4. Parsing' /\ Consuming(cur)
    BY <1>1, <1>2, <2>1, Zenon DEF Parsing, Consuming
  <2> QED
    BY <1>4, <2>1, <2>2, <2>3, <2>4, Zenon
<1>11. ASSUME NEW c \in Conns, ClientSends(c) PROVE FlowInv'
  <2>1. /\ arrived[c] < 2 * Len(Sizes[c]) /\ arrived' = [arrived EXCEPT ![c] = @ + 1]
        /\ UNCHANGED <<read, consumed, paused, cur, readPc, after>>
    BY <1>11, Zenon DEF ClientSends, gates, reactor
  <2>2. Len(Sizes[c]) \in Nat
    BY SizesAssumption
  <2>3. /\ arrived' \in [Conns -> Nat]
        /\ \A d \in Conns : read[d] <= arrived'[d] /\ arrived'[d] <= 2 * Len(Sizes[d])
    <3>1. arrived \in [Conns -> Nat] /\ read[c] \in Nat /\ read[c] <= arrived[c]
      BY <1>1, Zenon DEF FlowTypes, CounterTypes, StreamTypes
    <3>2. arrived'[c] = arrived[c] + 1 /\ \A d \in Conns : d # c => arrived'[d] = arrived[d]
      BY <2>1, <3>1, Zenon
    <3>3. read[c] <= arrived'[c] /\ arrived'[c] <= 2 * Len(Sizes[c])
      BY <2>1, <2>2, <3>1, <3>2
    <3>4. arrived' \in [Conns -> Nat]
      BY <2>1, <3>1
    <3>5. \A d \in Conns : read[d] <= arrived[d] /\ arrived[d] <= 2 * Len(Sizes[d])
      BY <1>1, Zenon DEF FlowTypes, CounterTypes, StreamTypes
    <3> QED
      BY <3>2, <3>3, <3>4, <3>5, Zenon
  <2>4. FlowTypes'
    <3>1. StreamTypes'
      BY <1>1, <2>1, <2>3, Zenon DEF FlowTypes, StreamTypes
    <3> QED
      BY <1>1, <1>2, <2>1, <3>1, Zenon DEF FlowTypes, CounterTypes
  <2>5. Parsing'
    BY <1>1, <1>2, <2>1, Zenon DEF Parsing
  <2>6. Leases'
    BY <1>1, <1>2, <2>1, LeasesKept, Zenon DEF Consuming
  <2> QED
    BY <1>3, <2>4, <2>5, <2>6, Zenon DEF FlowInv
<1>12. ASSUME NEW c \in Conns, ReadableEvent(c) \/ ProcessResumed(c) PROVE FlowInv'
  <2>1. readPc = "idle" /\ UNCHANGED <<arrived, read, consumed, paused>>
    BY <1>12, Zenon DEF ReadableEvent, ProcessResumed, parser, gates
  <2>2. CASE ~paused[c] /\ c \notin leased /\ Enter(c)
    <3>1. AwaitsBudget(c) => consumed[c] % 2 = 1 /\ Strict /\ ~reserved[c]
      BY Zenon DEF AwaitsBudget
    <3>2. FlowTypes' /\ Parsing'
      BY <1>1, <1>2, <2>1, <2>2, <3>1, StreamKept, Zenon
         DEF FlowTypes, CounterTypes, Parsing, Enter
    <3>3. Leases'
      BY <1>1, <1>2, <2>1, <2>2, LeasesKept, Zenon DEF Consuming, Enter
    <3> QED
      BY <1>3, <3>2, <3>3, Zenon DEF FlowInv
  <2>3. CASE UNCHANGED reactor
    <3>1. FlowTypes' /\ Parsing'
      BY <1>1, <1>2, <2>1, <2>3, StreamKept, Zenon DEF FlowTypes, CounterTypes, Parsing, reactor
    <3>2. Leases'
      BY <1>1, <1>2, <2>1, <2>3, LeasesKept, Zenon DEF Consuming, reactor
    <3> QED
      BY <1>3, <3>1, <3>2, Zenon DEF FlowInv
  <2> QED
    BY <1>12, <2>2, <2>3, Zenon DEF ReadableEvent, ProcessResumed
<1> QED
  BY <1>6, <1>7, <1>8, <1>9, <1>10, <1>11, <1>12, Zenon

\* resume_paused_connections pauses nothing.
LEMMA ResumedTypes ==
    ASSUME FlowInv, NEW released, ResumePaused(released)
    PROVE  /\ paused' \in [Conns -> BOOLEAN] /\ leased' = leased
           /\ \A c \in Conns : paused'[c] => paused[c]
<1>1. paused \in [Conns -> BOOLEAN]
  BY Zenon DEF FlowInv, FlowTypes, CounterTypes
<1> QED
  BY <1>1, Zenon DEF ResumePaused

\* close_connection gives back at most what the parser holds.
LEMMA ClosingTypes ==
    ASSUME FlowInv, NEW c \in Conns, Closing(c)
    PROVE  /\ open' \in [Conns -> BOOLEAN] /\ reserved' \in [Conns -> BOOLEAN]
           /\ bytes' \in [Conns -> Int] /\ total' \in Int
           /\ ~open'[c] /\ ~reserved'[c]
           /\ \A d \in Conns : d # c => open'[d] = open[d] /\ reserved'[d] = reserved[d]
<1> DEFINE held == IF reserved[c] THEN SizeOf(Parsed(c)) ELSE 0
<1>1. /\ open \in [Conns -> BOOLEAN] /\ reserved \in [Conns -> BOOLEAN]
      /\ bytes \in [Conns -> Int] /\ total \in Int /\ FlowTypes
  BY Zenon DEF FlowInv, FlowTypes, CounterTypes
<1>2. /\ open' = [open EXCEPT ![c] = FALSE] /\ reserved' = [reserved EXCEPT ![c] = FALSE]
      /\ bytes' = [bytes EXCEPT ![c] = @ - held] /\ total' = total - held
  BY Zenon DEF Closing
<1>3. held \in Int
  <2>1. reserved[c] => SizeOf(Parsed(c)) \in Nat
    BY <1>1, CurrentType, Zenon DEF FlowInv, Parsing
  <2> QED
    BY <2>1
<1> HIDE DEF held
<1>4. bytes' \in [Conns -> Int] /\ total' \in Int
  BY <1>1, <1>2, <1>3
<1> QED
  BY <1>1, <1>2, <1>4, Zenon

\* A step of one worker touches no lease but its own.
LEMMA LeasesOfOthers ==
    ASSUME FlowInv, NEW w \in PoolWorkers, UNCHANGED <<maxTotal, readPc, cur>>,
           \A v \in PoolWorkers : v # w => poolPc'[v] = poolPc[v] /\ poolReq'[v] = poolReq[v],
           poolPc'[w] # "continue", poolPc'[w] = "lease" => ~Strict, leased' \subseteq leased,
           \A v \in PoolWorkers : v # w /\ poolPc[v] = "continue" => poolReq[v][1] \in leased',
           \A c \in leased' : /\ ~paused'[c] /\ consumed'[c] = consumed[c] /\ read'[c] = read[c]
                              /\ QueuedOf(c)' = {}
                              /\ poolPc'[w] \in {"running", "closed"} => poolReq'[w][1] # c
    PROVE  Leases'
<1>1. Leases /\ Strict' = Strict
  BY Zenon DEF FlowInv, Strict
<1>2. \A c \in leased' : Executing(c)' = {}
  <2> SUFFICES ASSUME NEW c \in leased', NEW v \in Executing(c)' PROVE FALSE
    BY Zenon
  <2>1. v \in PoolWorkers /\ poolPc'[v] \in {"running", "closed"} /\ poolReq'[v][1] = c
    BY Zenon DEF Executing
  <2>2. v # w /\ v \in Executing(c)
    BY <2>1, Zenon DEF Executing
  <2> QED
    BY <1>1, <2>2, Zenon DEF Leases
<1>3. \A c \in leased' : ~Consuming(c)'
  BY <1>1, Zenon DEF Leases, Consuming
<1>4. \A v \in PoolWorkers : poolPc'[v] = "continue" => v # w /\ poolPc[v] = "continue"
  BY Zenon
<1>5. \A u, v \in PoolWorkers :
        poolPc'[u] = "continue" /\ poolPc'[v] = "continue" /\ poolReq'[u][1] = poolReq'[v][1] => u = v
  <2> SUFFICES ASSUME NEW u \in PoolWorkers, NEW v \in PoolWorkers, poolPc'[u] = "continue",
                      poolPc'[v] = "continue", poolReq'[u][1] = poolReq'[v][1]
               PROVE  u = v
    BY Zenon
  <2>1. poolReq[u][1] = poolReq[v][1] /\ poolPc[u] = "continue" /\ poolPc[v] = "continue"
    BY <1>4, Zenon
  <2> QED
    BY <1>1, <2>1, Zenon DEF Leases
<1>6. \A v \in PoolWorkers : poolPc'[v] \in {"lease", "continue"} => ~Strict
  BY <1>1, Zenon DEF Leases
<1>7. \A c \in leased' : /\ ~Strict /\ consumed[c] = read[c] /\ consumed[c] % 2 = 0
  BY <1>1, Zenon DEF Leases
<1>8. \A v \in PoolWorkers : poolPc'[v] = "continue" => poolReq'[v][1] \in leased'
  BY <1>4, Zenon
<1> QED
  BY <1>1, <1>2, <1>3, <1>5, <1>6, <1>7, <1>8 DEF Leases

\* The three steps of try_reserve_connection_request_bytes, in strict mode.
LEMMA ReserveFlow ==
    ASSUME FlowInv, UNCHANGED maxTotal,
           ReserveConnection \/ ReserveGlobal \/ ReserveRollback
    PROVE  FlowInv'
<1> DEFINE size == SizeOf(Current)
<1>1. FlowTypes /\ WorkTypes /\ Parsing /\ Leases
  BY Zenon DEF FlowInv
<1>2. /\ readPc \in {"reserve", "global", "rollback"} /\ Strict /\ Strict' = Strict
      /\ consumed[cur] % 2 = 1 /\ ~paused[cur] /\ ~reserved[cur]
      /\ UNCHANGED <<arrived, read, consumed, open, paused, leased, cur, after, reqs, pendingJobs,
                     poolPc, poolReq>>
  BY <1>1, Zenon DEF ReserveConnection, ReserveGlobal, ReserveRollback, Parsing, parser, gates,
              pool, queue, Strict
<1>3. /\ size \in Nat /\ cur \in Conns /\ total \in Int /\ maxTotal \in Nat
      /\ bytes \in [Conns -> Int] /\ reserved \in [Conns -> BOOLEAN] /\ after \in {"read", "parse"}
  BY <1>1, <1>2, CurrentType, Zenon DEF Current, FlowTypes, CounterTypes
<1> HIDE DEF size
<1>4. WorkTypes'
  BY <1>1, <1>2, Zenon DEF WorkTypes
<1>5. ASSUME bytes' \in [Conns -> Int], total' \in Int,
             UNCHANGED reserved \/ \E b \in BOOLEAN : reserved' = [reserved EXCEPT ![cur] = b],
             readPc' \in {"global", "rollback"} => ~reserved'[cur],
             readPc' \in {"global", "pause", "rollback", "read", "parse"}
      PROVE  FlowInv'
  <2>1. reserved' \in [Conns -> BOOLEAN] /\ \A c \in Conns : c # cur => reserved'[c] = reserved[c]
    BY <1>3, <1>5, Zenon
  <2>2. FlowTypes'
    BY <1>1, <1>2, <1>5, <2>1, StreamKept, Zenon DEF FlowTypes, CounterTypes
  <2>3. Parsing'
    BY <1>1, <1>2, <1>5, <2>1, Zenon DEF Parsing
  <2>4. Leases'
    BY <1>1, <1>2, <1>5, LeasesKept, Zenon DEF Consuming
  <2> QED
    BY <1>4, <2>2, <2>3, <2>4, Zenon DEF FlowInv
<1>6. CASE ReserveConnection
  <2> DEFINE fits == AtMost(bytes[cur], MaxBytes - size)
  <2>1. /\ bytes' = [bytes EXCEPT ![cur] = IF fits THEN @ + size ELSE @]
        /\ readPc' = IF fits THEN "global" ELSE "pause"
        /\ UNCHANGED <<reserved, total>>
    BY <1>6, Zenon DEF ReserveConnection, parser, size
  <2> HIDE DEF fits
  <2>2. bytes' \in [Conns -> Int]
    BY <1>3, <2>1
  <2> QED
    BY <1>2, <1>3, <1>5, <2>1, <2>2, Zenon
<1>7. CASE ReserveGlobal
  <2> DEFINE fits == AtMost(total, maxTotal - size)
  <2>1. /\ total' = IF fits THEN total + size ELSE total
        /\ reserved' = [reserved EXCEPT ![cur] = fits]
        /\ readPc' = IF fits THEN after ELSE "rollback"
        /\ UNCHANGED bytes
    BY <1>7, Zenon DEF ReserveGlobal, size
  <2>2. fits \in BOOLEAN
    BY DEF AtMost
  <2> HIDE DEF fits
  <2>3. total' \in Int
    BY <1>3, <2>1
  <2>4. reserved'[cur] = fits
    BY <1>3, <2>1, Zenon
  <2> QED
    BY <1>3, <1>5, <2>1, <2>2, <2>3, <2>4, Zenon
<1>8. CASE ReserveRollback
  <2>1. /\ bytes' = [bytes EXCEPT ![cur] = @ - size] /\ readPc' = "pause"
        /\ UNCHANGED <<reserved, total>>
    BY <1>8, Zenon DEF ReserveRollback, parser, size
  <2>2. bytes' \in [Conns -> Int]
    BY <1>3, <2>1
  <2> QED
    BY <1>3, <1>5, <2>1, <2>2, Zenon
<1> QED
  BY <1>6, <1>7, <1>8, Zenon

\* A dispatch moves a request from the parser to the queue.
LEMMA DispatchFlow == ASSUME FlowInv, UNCHANGED maxTotal, Dispatch PROVE FlowInv'
<1> DEFINE added == IF Strict THEN 0 ELSE SizeOf(Current)
<1>1. FlowTypes /\ WorkTypes /\ Parsing /\ Leases /\ cur \in Conns
  BY Zenon DEF FlowInv, FlowTypes, CounterTypes
<1>2. /\ readPc = "parse" /\ readPc' = "check" /\ consumed[cur] < read[cur] /\ consumed[cur] % 2 = 1
      /\ bytes' = [bytes EXCEPT ![cur] = @ + added] /\ total' = total + added
      /\ reqs' = [reqs EXCEPT ![cur] = @ + 1] /\ pendingJobs' = Append(pendingJobs, Current)
      /\ consumed' = [consumed EXCEPT ![cur] = @ + 1]
      /\ reserved' = [reserved EXCEPT ![cur] = FALSE]
      /\ UNCHANGED <<arrived, read, open, paused, leased, cur, after, poolPc, poolReq>>
  BY Zenon DEF Dispatch, gates, pool
<1>3. Current \in Requests /\ Current[1] = cur /\ added \in Int
  <2>1. Current \in Requests /\ Current[1] = cur /\ SizeOf(Current) \in Nat
    BY <1>1, <1>2, CurrentType, Zenon DEF Current
  <2> QED
    BY <2>1
<1> HIDE DEF added
<1>4. /\ bytes \in [Conns -> Int] /\ reqs \in [Conns -> Int] /\ total \in Int
      /\ reserved \in [Conns -> BOOLEAN] /\ Strict' = Strict
  BY <1>1, Zenon DEF FlowTypes, CounterTypes, Strict
<1>5. /\ bytes' \in [Conns -> Int] /\ reqs' \in [Conns -> Int] /\ total' \in Int
  BY <1>1, <1>2, <1>3, <1>4
<1>6. /\ reserved' \in [Conns -> BOOLEAN] /\ ~reserved'[cur]
      /\ \A c \in Conns : c # cur => reserved'[c] = reserved[c]
  BY <1>1, <1>2, <1>4, Zenon
<1>7. arrived \in [Conns -> Nat] /\ read \in [Conns -> Nat] /\ consumed \in [Conns -> Nat]
  BY <1>1, Zenon DEF FlowTypes, StreamTypes
<1>8. /\ consumed' \in [Conns -> Nat] /\ consumed'[cur] = consumed[cur] + 1
      /\ \A c \in Conns : c # cur => consumed'[c] = consumed[c]
  BY <1>1, <1>2, <1>7
<1>9. FlowTypes'
  <2>1. consumed'[cur] <= read[cur]
    BY <1>1, <1>2, <1>7, <1>8
  <2>2. StreamTypes'
    BY <1>1, <1>2, <1>7, <1>8, <2>1, Zenon DEF FlowTypes, StreamTypes
  <2> QED
    BY <1>1, <1>2, <1>5, <1>6, <2>2, Zenon DEF FlowTypes, CounterTypes
<1>10. WorkTypes'
  BY <1>1, <1>2, <1>3 DEF WorkTypes
<1>11. Parsing'
  BY <1>1, <1>2, <1>4, <1>6, <1>8, Zenon DEF Parsing
<1>12. Leases'
  <2>1. cur \notin leased
    BY <1>1, <1>2, Zenon DEF Leases, Consuming
  <2>2. ASSUME NEW c \in leased PROVE QueuedOf(c)' = {} /\ Executing(c)' = Executing(c)
    <3>1. QueuedOf(c) = {}
      BY <1>1, Zenon DEF Leases
    <3>2. /\ pendingJobs \in Seq(Requests) /\ DOMAIN pendingJobs' = 1..(Len(pendingJobs) + 1)
          /\ DOMAIN pendingJobs = 1..Len(pendingJobs) /\ Len(pendingJobs) \in Nat
          /\ pendingJobs'[Len(pendingJobs) + 1] = Current
          /\ \A i \in DOMAIN pendingJobs : pendingJobs'[i] = pendingJobs[i]
      BY <1>1, <1>2, <1>3 DEF WorkTypes
    <3>3. \A i \in DOMAIN pendingJobs' : i \in DOMAIN pendingJobs \/ i = Len(pendingJobs) + 1
      BY <3>2
    <3>4. QueuedOf(c)' = {}
      BY <1>3, <2>1, <3>1, <3>2, <3>3, Zenon DEF QueuedOf
    <3> QED
      BY <1>2, <3>4, Zenon DEF Executing
  <2>3. \A c \in leased : c \in Conns /\ c # cur /\ ~Consuming(c)'
    BY <1>1, <1>2, <2>1, Zenon DEF FlowTypes, CounterTypes, Consuming
  <2> QED
    BY <1>1, <1>2, <1>4, <1>8, <2>2, <2>3, Zenon DEF Leases
<1> QED
  BY <1>9, <1>10, <1>11, <1>12, Zenon DEF FlowInv

\* close_connection by the reactor.
LEMMA CloseFlow ==
    ASSUME FlowInv, UNCHANGED maxTotal, CloseResume \/ CloseConsumed \/ \E c \in Conns : Close(c)
    PROVE  FlowInv'
<1>1. FlowTypes /\ WorkTypes /\ Parsing /\ Leases /\ cur \in Conns /\ Strict' = Strict
  BY Zenon DEF FlowInv, FlowTypes, CounterTypes, Strict
<1>2. UNCHANGED <<arrived, read, consumed, after, reqs, pendingJobs, poolPc, poolReq>>
  BY Zenon DEF CloseResume, CloseConsumed, Close, parser, counters, pool, queue
<1>3. WorkTypes'
  BY <1>1, <1>2, Zenon DEF WorkTypes
<1>4. CASE CloseResume
  <2>1. /\ readPc = "release" /\ ResumePaused(cur) /\ readPc' = "idle"
        /\ UNCHANGED <<reserved, open, bytes, total, cur>>
    BY <1>4, Zenon DEF CloseResume, parser, counters
  <2>2. /\ paused' \in [Conns -> BOOLEAN] /\ leased' = leased
        /\ \A c \in Conns : paused'[c] => paused[c]
    BY <2>1, ResumedTypes, Zenon
  <2>3. FlowTypes' /\ Parsing'
    BY <1>1, <1>2, <2>1, <2>2, StreamKept, Zenon DEF FlowTypes, CounterTypes, Parsing
  <2>4. Leases'
    BY <1>1, <1>2, <2>1, <2>2, LeasesKept, Zenon DEF Consuming, FlowTypes, CounterTypes
  <2> QED
    BY <1>3, <2>3, <2>4, Zenon DEF FlowInv
<1>5. ASSUME NEW c \in Conns, Close(c) \/ (c = cur /\ CloseConsumed) PROVE FlowInv'
  <2>1. /\ readPc' \in {"release", "idle"} /\ cur' = c /\ Closing(c) /\ UNCHANGED <<paused, leased>>
    BY <1>5, Zenon DEF Close, CloseConsumed, gates
  <2>2. /\ open' \in [Conns -> BOOLEAN] /\ reserved' \in [Conns -> BOOLEAN]
        /\ bytes' \in [Conns -> Int] /\ total' \in Int
        /\ \A d \in Conns : reserved'[d] => reserved[d]
    BY <2>1, ClosingTypes, Zenon
  <2>3. FlowTypes'
    BY <1>1, <1>2, <2>1, <2>2, StreamKept, Zenon DEF FlowTypes, CounterTypes
  <2>4. Parsing'
    BY <1>1, <1>2, <2>1, <2>2, Zenon DEF Parsing
  <2>5. Leases'
    BY <1>1, <1>2, <2>1, LeasesKept, Zenon DEF Consuming
  <2> QED
    BY <1>3, <2>3, <2>4, <2>5, Zenon DEF FlowInv
<1> QED
  BY <1>1, <1>4, <1>5, Zenon

\* What a worker leaves alone, and which of its steps keep the leases for the reason that
\* the request it holds is still active or no longer is.
LEMMA WorkerKeeps ==
    ASSUME FlowInv, UNCHANGED maxTotal, NEW w \in PoolWorkers, PoolWorker(w)
    PROVE  /\ UNCHANGED <<arrived, cur, readPc, after>> /\ Strict' = Strict
           /\ DOMAIN poolPc' = PoolWorkers /\ DOMAIN poolReq' = PoolWorkers
           /\ \A v \in PoolWorkers : v # w => poolPc'[v] = poolPc[v] /\ poolReq'[v] = poolReq[v]
<1>1. DOMAIN poolPc = PoolWorkers /\ DOMAIN poolReq = PoolWorkers
  BY Zenon DEF FlowInv, WorkTypes
<1> QED
  BY <1>1, Zenon DEF PoolWorker, TakeJob, Respond, Overflow, OverflowResume, Completed, Release,
       Resume, AcquireLease, Continue, ContinueNothing, Idle, parser, reactor, pool, Strict

\* A worker that takes a request, answers it or gives it back.
LEMMA AnswerFlow ==
    ASSUME FlowInv, UNCHANGED maxTotal, NEW w \in PoolWorkers,
           TakeJob(w) \/ Respond(w) \/ Overflow(w) \/ OverflowResume(w) \/ Release(w) \/ Resume(w)
    PROVE  FlowInv'
<1>1. FlowTypes /\ WorkTypes /\ Parsing /\ Leases
  BY Zenon DEF FlowInv
<1>2. /\ UNCHANGED <<arrived, cur, readPc, after>> /\ Strict' = Strict
      /\ DOMAIN poolPc' = PoolWorkers /\ DOMAIN poolReq' = PoolWorkers
      /\ \A v \in PoolWorkers : v # w => poolPc'[v] = poolPc[v] /\ poolReq'[v] = poolReq[v]
  BY WorkerKeeps, Zenon DEF PoolWorker
<1>3. UNCHANGED <<read, consumed, leased>>
  <2>1. CASE TakeJob(w) \/ Respond(w) \/ Overflow(w) \/ Release(w)
    BY <2>1, Zenon DEF TakeJob, Respond, Overflow, Release, parser, gates
  <2>2. CASE OverflowResume(w) \/ Resume(w)
    BY <2>2, Zenon DEF OverflowResume, Resume, ResumePaused, parser
  <2> QED
    BY <2>1, <2>2, Zenon
<1>4. \A v \in PoolWorkers : v # w /\ poolPc[v] = "continue" => poolReq[v][1] \in leased'
  BY <1>1, <1>3, Zenon DEF Leases
<1>5. /\ open \in [Conns -> BOOLEAN] /\ paused \in [Conns -> BOOLEAN] /\ leased \in SUBSET Conns
      /\ bytes \in [Conns -> Int] /\ reqs \in [Conns -> Int] /\ total \in Int
  BY <1>1, Zenon DEF FlowTypes, CounterTypes
<1>6. ASSUME open' \in [Conns -> BOOLEAN], reserved' \in [Conns -> BOOLEAN],
             \A c \in Conns : reserved'[c] => reserved[c],
             paused' \in [Conns -> BOOLEAN], \A c \in Conns : paused'[c] => paused[c],
             bytes' \in [Conns -> Int], reqs' \in [Conns -> Int], total' \in Int
      PROVE  FlowTypes' /\ Parsing'
  <2>1. FlowTypes'
    BY <1>1, <1>2, <1>3, <1>6, StreamKept, Zenon DEF FlowTypes, CounterTypes
  <2> QED
    BY <1>1, <1>2, <1>3, <1>6, <2>1, Zenon DEF FlowTypes, CounterTypes, Parsing
<1>7. CASE TakeJob(w)
  <2>1. /\ pendingJobs # <<>> /\ poolReq' = [poolReq EXCEPT ![w] = Head(pendingJobs)]
        /\ pendingJobs' = Tail(pendingJobs) /\ poolPc' = [poolPc EXCEPT ![w] = "running"]
        /\ UNCHANGED <<open, reserved, reqs, bytes, total, paused>>
    BY <1>7, Zenon DEF TakeJob, parser, counters, gates
  <2>2. /\ Head(pendingJobs) = pendingJobs[1] /\ 1 \in DOMAIN pendingJobs
        /\ Head(pendingJobs) \in Requests /\ Tail(pendingJobs) \in Seq(Requests)
        /\ \A i \in DOMAIN Tail(pendingJobs) :
              i + 1 \in DOMAIN pendingJobs /\ Tail(pendingJobs)[i] = pendingJobs[i + 1]
    BY <1>1, <2>1 DEF WorkTypes
  <2>3. poolReq'[w] = Head(pendingJobs) /\ poolPc'[w] = "running"
    BY <1>1, <2>1, Zenon DEF WorkTypes
  <2>4. WorkTypes'
    BY <1>1, <1>2, <2>1, <2>2, <2>3, Zenon DEF WorkTypes
  <2>5. FlowTypes' /\ Parsing'
    BY <1>1, <1>2, <1>3, <2>1, StreamKept, Zenon DEF FlowTypes, CounterTypes, Parsing
  <2>6. ASSUME NEW c \in leased' PROVE QueuedOf(c)' = {} /\ poolReq'[w][1] # c /\ ~paused'[c]
    <3>1. QueuedOf(c) = {} /\ ~paused[c]
      BY <1>1, <1>3, Zenon DEF Leases
    <3> QED
      BY <2>1, <2>2, <2>3, <3>1, Zenon DEF QueuedOf
  <2>7. Leases'
    BY <1>2, <1>3, <1>4, <2>3, <2>6, LeasesOfOthers, Zenon
  <2> QED
    BY <2>4, <2>5, <2>7, Zenon DEF FlowInv
<1>8. ASSUME UNCHANGED pendingJobs, poolPc[w] # "idle",
             poolPc'[w] \in {"closed", "release", "resume", "lease", "idle"},
             poolPc'[w] = "closed" => poolPc[w] = "running",
             poolPc'[w] = "lease" => ~Strict,
             poolPc'[w] # "idle" => poolReq'[w] = poolReq[w],
             paused' \in [Conns -> BOOLEAN], \A c \in Conns : paused'[c] => paused[c]
      PROVE  WorkTypes' /\ Leases'
  <2>1. WorkTypes'
    BY <1>1, <1>2, <1>8, Zenon DEF WorkTypes
  <2>2. ASSUME NEW c \in leased' PROVE /\ QueuedOf(c)' = {} /\ ~paused'[c]
                                       /\ poolPc'[w] \in {"running", "closed"} => poolReq'[w][1] # c
    <3>1. QueuedOf(c) = {} /\ ~paused[c] /\ Executing(c) = {} /\ c \in Conns
      BY <1>1, <1>3, <1>5, Zenon DEF Leases
    <3>2. QueuedOf(c)' = QueuedOf(c)
      BY <1>8, Zenon DEF QueuedOf
    <3>3. poolPc[w] = "running" => poolReq[w][1] # c
      BY <3>1, Zenon DEF Executing
    <3> QED
      BY <1>8, <3>1, <3>2, <3>3, Zenon
  <2>3. Leases'
    BY <1>2, <1>3, <1>4, <1>8, <2>2, LeasesOfOthers, Zenon
  <2> QED
    BY <2>1, <2>3, Zenon
<1>9. CASE Respond(w)
  <2>1. /\ poolPc[w] = "running" /\ poolPc' = [poolPc EXCEPT ![w] = "release"]
        /\ open' \in {open, [open EXCEPT ![poolReq[w][1]] = FALSE]}
        /\ UNCHANGED <<poolReq, reserved, pendingJobs, reqs, bytes, total, paused>>
    BY <1>9, Zenon DEF Respond, Completed, counters, gates, queue
  <2>2. open' \in [Conns -> BOOLEAN] /\ poolPc'[w] = "release"
    BY <1>1, <1>5, <2>1, Zenon DEF WorkTypes
  <2>3. FlowTypes' /\ Parsing'
    BY <1>1, <1>2, <1>3, <2>1, <2>2, StreamKept, Zenon DEF FlowTypes, CounterTypes, Parsing
  <2>4. WorkTypes' /\ Leases'
    BY <1>5, <1>8, <2>1, <2>2, Zenon
  <2> QED
    BY <2>3, <2>4, Zenon DEF FlowInv
<1>10. CASE Overflow(w)
  <2>1. /\ poolPc[w] = "running" /\ Closing(poolReq[w][1])
        /\ \E p \in {"closed", "release"} : poolPc' = [poolPc EXCEPT ![w] = p]
        /\ UNCHANGED <<poolReq, pendingJobs, reqs, paused>>
    BY <1>10, Zenon DEF Overflow, Completed, gates, queue
  <2>2. poolPc'[w] \in {"closed", "release"} /\ poolReq[w] \in Requests
    BY <1>1, <2>1, Zenon DEF WorkTypes
  <2>3. PICK c \in Conns : c = poolReq[w][1]
    BY <2>2, RequestType, Zenon
  <2>4. /\ open' \in [Conns -> BOOLEAN] /\ reserved' \in [Conns -> BOOLEAN]
        /\ bytes' \in [Conns -> Int] /\ total' \in Int
        /\ \A d \in Conns : reserved'[d] => reserved[d]
    BY <2>1, <2>3, ClosingTypes, Zenon
  <2>5. FlowTypes' /\ Parsing'
    BY <1>5, <1>6, <2>1, <2>4, Zenon
  <2>6. WorkTypes' /\ Leases'
    BY <1>5, <1>8, <2>1, <2>2, Zenon
  <2> QED
    BY <2>5, <2>6, Zenon DEF FlowInv
<1>11. CASE OverflowResume(w)
  <2>1. /\ poolPc[w] = "closed" /\ poolPc' = [poolPc EXCEPT ![w] = "release"]
        /\ ResumePaused(poolReq[w][1])
        /\ UNCHANGED <<poolReq, reserved, open, pendingJobs, reqs, bytes, total>>
    BY <1>11, Zenon DEF OverflowResume, Completed, parser, counters, queue
  <2>2. /\ paused' \in [Conns -> BOOLEAN] /\ \A c \in Conns : paused'[c] => paused[c]
        /\ poolPc'[w] = "release"
    BY <1>1, <2>1, ResumedTypes, Zenon DEF WorkTypes
  <2>3. FlowTypes' /\ Parsing'
    BY <1>1, <1>2, <1>3, <2>1, <2>2, StreamKept, Zenon DEF FlowTypes, CounterTypes, Parsing
  <2>4. WorkTypes' /\ Leases'
    BY <1>8, <2>1, <2>2, Zenon
  <2> QED
    BY <2>3, <2>4, Zenon DEF FlowInv
<1>12. CASE Release(w)
  <2> DEFINE c == poolReq[w][1]
             size == SizeOf(poolReq[w])
  <2>1. /\ bytes' = [bytes EXCEPT ![c] = @ - size] /\ reqs' = [reqs EXCEPT ![c] = @ - 1]
        /\ total' = total - size /\ poolPc[w] = "release"
        /\ poolPc' = [poolPc EXCEPT ![w] = "resume"]
        /\ UNCHANGED <<poolReq, pendingJobs, paused, reserved, open>>
    BY <1>12, Zenon DEF Release, gates, parser, queue
  <2>2. c \in Conns /\ size \in Nat
    BY <1>1, <2>1, RequestType, Zenon DEF WorkTypes
  <2> HIDE DEF c, size
  <2>3. bytes' \in [Conns -> Int] /\ reqs' \in [Conns -> Int] /\ total' \in Int
    BY <1>5, <2>1, <2>2
  <2>4. FlowTypes' /\ Parsing'
    BY <1>1, <1>2, <1>3, <2>1, <2>3, StreamKept, Zenon DEF FlowTypes, CounterTypes, Parsing
  <2>5. poolPc'[w] = "resume"
    BY <1>1, <2>1, Zenon DEF WorkTypes
  <2>6. WorkTypes' /\ Leases'
    BY <1>5, <1>8, <2>1, <2>5, Zenon
  <2> QED
    BY <2>4, <2>6, Zenon DEF FlowInv
<1>13. CASE Resume(w)
  <2>1. /\ poolPc[w] = "resume" /\ ResumePaused(poolReq[w][1])
        /\ \/ ~Strict /\ poolPc' = [poolPc EXCEPT ![w] = "lease"] /\ UNCHANGED poolReq
           \/ poolPc' = [poolPc EXCEPT ![w] = "idle"]
        /\ UNCHANGED <<reserved, open, pendingJobs, reqs, bytes, total>>
    BY <1>13, Zenon DEF Resume, parser, counters, queue
  <2>2. /\ paused' \in [Conns -> BOOLEAN] /\ \A c \in Conns : paused'[c] => paused[c]
    BY <2>1, ResumedTypes, Zenon
  <2>3. FlowTypes' /\ Parsing'
    BY <1>1, <1>2, <1>3, <2>1, <2>2, StreamKept, Zenon DEF FlowTypes, CounterTypes, Parsing
  <2>4. \/ ~Strict /\ poolPc'[w] = "lease" /\ poolReq'[w] = poolReq[w]
        \/ poolPc'[w] = "idle"
    BY <1>1, <2>1, Zenon DEF WorkTypes
  <2>5. WorkTypes' /\ Leases'
    BY <1>8, <2>1, <2>2, <2>4, Zenon
  <2> QED
    BY <2>3, <2>5, Zenon DEF FlowInv
<1> QED
  BY <1>7, <1>9, <1>10, <1>11, <1>12, <1>13, Zenon

\* A worker that asks for a lease.
LEMMA LeaseFlow ==
    ASSUME FlowInv, UNCHANGED maxTotal, NEW w \in PoolWorkers, AcquireLease(w) PROVE FlowInv'
<1>1. FlowTypes /\ WorkTypes /\ Parsing /\ Leases
  BY Zenon DEF FlowInv
<1>2. /\ UNCHANGED <<arrived, cur, readPc, after>> /\ Strict' = Strict
      /\ DOMAIN poolPc' = PoolWorkers /\ DOMAIN poolReq' = PoolWorkers
      /\ \A v \in PoolWorkers : v # w => poolPc'[v] = poolPc[v] /\ poolReq'[v] = poolReq[v]
  BY WorkerKeeps, Zenon DEF PoolWorker
<1>3. /\ poolPc[w] = "lease" /\ ~Strict /\ poolReq[w] \in Requests
      /\ UNCHANGED <<read, consumed, reserved, open, reqs, bytes, total, paused, pendingJobs>>
  BY <1>1, Zenon DEF AcquireLease, Leases, WorkTypes, parser, counters, queue
<1>4. PICK k \in Conns : k = poolReq[w][1]
  BY <1>3, RequestType, Zenon
<1>5. Parsing'
  BY <1>1, <1>2, <1>3, Zenon DEF Parsing
<1>6. \A c \in Conns : QueuedOf(c)' = QueuedOf(c)
  BY <1>3, Zenon DEF QueuedOf
<1>7. CASE Idle(w) /\ UNCHANGED leased
  <2>1. poolPc'[w] = "idle"
    BY <1>1, <1>7, Zenon DEF Idle, WorkTypes
  <2>2. FlowTypes' /\ WorkTypes'
    BY <1>1, <1>2, <1>3, <1>7, <2>1, StreamKept, Zenon DEF FlowTypes, CounterTypes, WorkTypes
  <2>3. \A c \in leased' : ~paused[c] /\ QueuedOf(c)' = {} /\ c \in Conns
    BY <1>1, <1>6, <1>7, Zenon DEF Leases, FlowTypes, CounterTypes
  <2>4. \A v \in PoolWorkers : v # w /\ poolPc[v] = "continue" => poolReq[v][1] \in leased'
    BY <1>1, <1>7, Zenon DEF Leases
  <2>5. Leases'
    BY <1>2, <1>3, <1>7, <2>1, <2>3, <2>4, LeasesOfOthers, Zenon
  <2> QED
    BY <1>5, <2>2, <2>5, Zenon DEF FlowInv
<1>8. CASE /\ Leasable(k) /\ leased' = leased \cup {k}
           /\ poolPc' = [poolPc EXCEPT ![w] = "continue"] /\ UNCHANGED poolReq
  <2>1. poolPc'[w] = "continue"
    BY <1>1, <1>8, Zenon DEF WorkTypes
  <2>2. FlowTypes' /\ WorkTypes'
    BY <1>1, <1>2, <1>3, <1>4, <1>8, StreamKept, Zenon DEF FlowTypes, CounterTypes, WorkTypes
  <2>3. \A c \in Conns : Executing(c)' = Executing(c)
    BY <1>2, <1>3, <1>8, <2>1, Zenon DEF Executing
  <2>4. ASSUME NEW c \in leased'
        PROVE  /\ ~Strict /\ ~paused[c] /\ ~Consuming(c) /\ Executing(c) = {} /\ QueuedOf(c) = {}
               /\ consumed[c] = read[c] /\ consumed[c] % 2 = 0 /\ c \in Conns
    <3>1. CASE c \in leased
      BY <1>1, <3>1, Zenon DEF Leases, FlowTypes, CounterTypes
    <3>2. CASE c = k
      BY <1>3, <1>8, <3>2, Zenon DEF Leasable, Consuming
    <3> QED
      BY <1>8, <3>1, <3>2, Zenon
  <2>5. \A c \in leased' : ~Consuming(c)'
    BY <1>2, <2>4, Zenon DEF Consuming
  <2>6. k \notin leased
    BY <1>8, Zenon DEF Leasable
  <2>7. \A v \in PoolWorkers : v # w /\ poolPc'[v] = "continue" => poolReq'[v][1] \in leased
    BY <1>1, <1>2, Zenon DEF Leases
  <2>8. \A u, v \in PoolWorkers :
          poolPc'[u] = "continue" /\ poolPc'[v] = "continue" /\ poolReq'[u][1] = poolReq'[v][1] => u = v
    <3> SUFFICES ASSUME NEW u \in PoolWorkers, NEW v \in PoolWorkers, poolPc'[u] = "continue",
                        poolPc'[v] = "continue", poolReq'[u][1] = poolReq'[v][1]
                 PROVE  u = v
      BY Zenon
    <3>1. CASE u = w \/ v = w
      BY <1>4, <1>8, <2>6, <2>7, <3>1, Zenon
    <3>2. CASE u # w /\ v # w
      BY <1>1, <1>2, <3>2, Zenon DEF Leases
    <3> QED
      BY <3>1, <3>2, Zenon
  <2>9. \A v \in PoolWorkers : poolPc'[v] = "continue" => poolReq'[v][1] \in leased'
    BY <1>4, <1>8, <2>7, Zenon
  <2>10. \A v \in PoolWorkers : poolPc'[v] \in {"lease", "continue"} => ~Strict
    BY <1>3, Zenon
  <2>11. \A c \in leased' : /\ ~Strict' /\ ~paused'[c] /\ ~Consuming(c)' /\ Executing(c)' = {}
                            /\ QueuedOf(c)' = {} /\ consumed'[c] = read'[c] /\ consumed'[c] % 2 = 0
    BY <1>2, <1>3, <1>6, <2>3, <2>4, <2>5, Zenon
  <2>12. Leases'
    BY <1>2, <2>8, <2>9, <2>10, <2>11, Zenon DEF Leases
  <2> QED
    BY <1>5, <2>2, <2>12, Zenon DEF FlowInv
<1> QED
  BY <1>4, <1>7, <1>8, Zenon DEF AcquireLease

\* The request a lease reads is one of its connection's, and follows what was parsed.
LEMMA ContinueType ==
    ASSUME FlowInv, NEW w \in PoolWorkers, Continue(w), NEW c, c = poolReq[w][1]
    PROVE  /\ c \in leased /\ c \in Conns /\ ~Strict /\ ~reserved[c]
           /\ consumed[c] \in Nat /\ consumed[c] = read[c] /\ consumed[c] % 2 = 0
           /\ arrived[c] \in Nat /\ consumed[c] + 2 <= arrived[c]
           /\ <<c, consumed[c] \div 2 + 1>> \in Requests
           /\ SizeOf(<<c, consumed[c] \div 2 + 1>>) \in Nat
<1>1. FlowTypes /\ WorkTypes /\ Parsing /\ Leases
  BY Zenon DEF FlowInv
<1>2. poolPc[w] = "continue" /\ read[c] + 2 <= arrived[c]
  BY Zenon DEF Continue
<1>3. c \in leased /\ c \in Conns
  BY <1>1, <1>2, Zenon DEF Leases, FlowTypes, CounterTypes
<1>4. ~Strict /\ consumed[c] = read[c] /\ consumed[c] % 2 = 0 /\ ~reserved[c]
  BY <1>1, <1>3, Zenon DEF Leases, Parsing
<1>5. consumed[c] \in Nat /\ arrived[c] \in Nat
  BY <1>1, <1>3, Zenon DEF FlowTypes, StreamTypes
<1> DEFINE i == consumed[c] \div 2 + 1
<1>6. i \in Nat \ {0} /\ 2 * i <= arrived[c] + 1
  BY <1>2, <1>4, <1>5
<1> HIDE DEF i
<1>7. <<c, i>> \in Requests
  BY <1>1, <1>3, <1>6, ArrivedType, Zenon
<1>8. SizeOf(<<c, i>>) \in Nat
  BY <1>7, RequestType, Zenon
<1> QED
  BY <1>2, <1>3, <1>4, <1>5, <1>7, <1>8, Zenon DEF i

\* A lease ends: with a request, or with nothing.
LEMMA ContinueFlow ==
    ASSUME FlowInv, UNCHANGED maxTotal, NEW w \in PoolWorkers, Continue(w) \/ ContinueNothing(w)
    PROVE  FlowInv'
<1>1. FlowTypes /\ WorkTypes /\ Parsing /\ Leases
  BY Zenon DEF FlowInv
<1>2. /\ UNCHANGED <<arrived, cur, readPc, after>> /\ Strict' = Strict
      /\ DOMAIN poolPc' = PoolWorkers /\ DOMAIN poolReq' = PoolWorkers
      /\ \A v \in PoolWorkers : v # w => poolPc'[v] = poolPc[v] /\ poolReq'[v] = poolReq[v]
  BY WorkerKeeps, Zenon DEF PoolWorker
<1>3. PICK k : k = poolReq[w][1]
  BY Zenon
<1>4. /\ poolPc[w] = "continue" /\ leased' = leased \ {k} /\ paused' = [paused EXCEPT ![k] = FALSE]
      /\ UNCHANGED <<reserved, pendingJobs>>
  BY <1>3, Zenon DEF Continue, ContinueNothing, queue
<1>5. k \in leased /\ k \in Conns /\ ~Strict
  BY <1>1, <1>3, <1>4, Zenon DEF Leases, FlowTypes, CounterTypes
<1>6. /\ paused' \in [Conns -> BOOLEAN] /\ \A c \in Conns : paused'[c] => paused[c]
      /\ leased' \in SUBSET Conns
  BY <1>1, <1>4, <1>5, Zenon DEF FlowTypes, CounterTypes
<1>7. ASSUME poolPc'[w] # "continue", poolPc'[w] # "lease",
             poolPc'[w] \in {"running", "closed"} => poolReq'[w][1] = k,
             \A c \in Conns : c # k => consumed'[c] = consumed[c] /\ read'[c] = read[c]
      PROVE  Leases'
  <2>1. \A v \in PoolWorkers : v # w /\ poolPc[v] = "continue" => poolReq[v][1] \in leased'
    BY <1>1, <1>3, <1>4, Zenon DEF Leases
  <2>2. ASSUME NEW c \in leased'
        PROVE  /\ ~paused'[c] /\ consumed'[c] = consumed[c] /\ read'[c] = read[c]
               /\ QueuedOf(c)' = {}
               /\ poolPc'[w] \in {"running", "closed"} => poolReq'[w][1] # c
    <3>1. c \in leased /\ c # k /\ c \in Conns
      BY <1>4, <1>6, Zenon
    <3>2. ~paused[c] /\ QueuedOf(c) = {}
      BY <1>1, <3>1, Zenon DEF Leases
    <3>3. QueuedOf(c)' = QueuedOf(c)
      BY <1>4, Zenon DEF QueuedOf
    <3> QED
      BY <1>6, <1>7, <3>1, <3>2, <3>3, Zenon
  <2>3. leased' \subseteq leased
    BY <1>4, Zenon
  <2> QED
    BY <1>2, <1>7, <2>1, <2>2, <2>3, LeasesOfOthers, Zenon
<1>8. CASE ContinueNothing(w)
  <2>1. /\ open' \in {open, [open EXCEPT ![k] = FALSE]} /\ Idle(w)
        /\ UNCHANGED <<read, consumed, reqs, bytes, total>>
    BY <1>3, <1>8, Zenon DEF ContinueNothing, counters
  <2>2. poolPc'[w] = "idle" /\ open' \in [Conns -> BOOLEAN]
    BY <1>1, <2>1, Zenon DEF Idle, WorkTypes, FlowTypes, CounterTypes
  <2>3. FlowTypes'
    BY <1>1, <1>2, <1>4, <1>6, <2>1, <2>2, StreamKept, Zenon DEF FlowTypes, CounterTypes
  <2>4. Parsing'
    BY <1>1, <1>2, <1>4, <1>6, <2>1, Zenon DEF Parsing, FlowTypes, CounterTypes
  <2>5. WorkTypes'
    BY <1>1, <1>2, <1>4, <2>2, Zenon DEF WorkTypes
  <2>6. Leases'
    BY <1>7, <2>1, <2>2, Zenon
  <2> QED
    BY <2>3, <2>4, <2>5, <2>6, Zenon DEF FlowInv
<1>9. CASE Continue(w)
  <2>1. /\ consumed[k] \in Nat /\ consumed[k] = read[k] /\ arrived[k] \in Nat
        /\ consumed[k] + 2 <= arrived[k]
    BY <1>3, <1>9, ContinueType, Zenon
  <2>2. PICK next : next = <<k, consumed[k] \div 2 + 1>>
    BY Zenon
  <2>3. next \in Requests /\ SizeOf(next) \in Nat /\ next[1] = k /\ ~reserved[k]
    BY <1>3, <1>9, <2>2, ContinueType, Zenon
  <2>4. /\ read' = [read EXCEPT ![k] = @ + 2] /\ consumed' = [consumed EXCEPT ![k] = @ + 2]
        /\ reqs' = [reqs EXCEPT ![k] = @ + 1]
        /\ bytes' = [bytes EXCEPT ![k] = @ + SizeOf(next)] /\ total' = total + SizeOf(next)
        /\ poolReq' = [poolReq EXCEPT ![w] = next] /\ poolPc' = [poolPc EXCEPT ![w] = "running"]
        /\ UNCHANGED open
    BY <1>3, <1>9, <2>2, Zenon DEF Continue
  <2>5. /\ bytes \in [Conns -> Int] /\ reqs \in [Conns -> Int] /\ total \in Int
        /\ read \in [Conns -> Nat] /\ consumed \in [Conns -> Nat]
    BY <1>1, Zenon DEF FlowTypes, CounterTypes, StreamTypes
  <2>6. bytes' \in [Conns -> Int] /\ reqs' \in [Conns -> Int] /\ total' \in Int
    BY <1>5, <2>3, <2>4, <2>5
  <2>7. /\ read' \in [Conns -> Nat] /\ consumed' \in [Conns -> Nat]
        /\ read'[k] = read[k] + 2 /\ consumed'[k] = consumed[k] + 2
        /\ \A c \in Conns : c # k => consumed'[c] = consumed[c] /\ read'[c] = read[c]
    BY <1>5, <2>4, <2>5
  <2>8. consumed'[k] <= read'[k] /\ read'[k] <= arrived[k]
    BY <2>1, <2>7
  <2>9. FlowTypes'
    <3>1. StreamTypes'
      BY <1>1, <1>2, <2>7, <2>8, Zenon DEF FlowTypes, StreamTypes
    <3> QED
      BY <1>1, <1>2, <1>4, <1>6, <2>4, <2>6, <3>1, Zenon DEF FlowTypes, CounterTypes
  <2>10. poolReq'[w] = next /\ poolPc'[w] = "running"
    BY <1>1, <2>4, Zenon DEF WorkTypes
  <2>11. WorkTypes'
    BY <1>1, <1>2, <1>4, <2>3, <2>10, Zenon DEF WorkTypes
  <2>12. Parsing'
    BY <1>1, <1>2, <1>4, <1>5, <1>6, <2>3, <2>7, Zenon DEF Parsing, FlowTypes, CounterTypes
  <2>13. Leases'
    BY <1>7, <2>3, <2>7, <2>10, Zenon
  <2> QED
    BY <2>9, <2>11, <2>12, <2>13, Zenon DEF FlowInv
<1> QED
  BY <1>8, <1>9, Zenon

\* Every step preserves the invariant.
LEMMA FlowStep == FlowInv /\ [FlowNext]_flowVars => FlowInv'
<1> SUFFICES ASSUME FlowInv, [FlowNext]_flowVars PROVE FlowInv'
  BY Zenon
<1>1. CASE UNCHANGED flowVars
  <2>1. UNCHANGED <<arrived, read, consumed, reserved, open, paused, leased, reqs, bytes, total,
                    pendingJobs, readPc, cur, after, poolPc, poolReq, maxTotal>>
    BY <1>1, Zenon DEF flowVars, parser, counters, gates, reactor, pool, queue
  <2>2. FlowTypes'
    BY <2>1, StreamKept, Zenon DEF FlowInv, FlowTypes, CounterTypes
  <2>3. WorkTypes' /\ Parsing'
    BY <2>1, Zenon DEF FlowInv, WorkTypes, Parsing, Strict
  <2>4. Leases'
    BY <2>1, LeasesKept, Zenon DEF FlowInv, Consuming
  <2> QED
    BY <2>2, <2>3, <2>4, Zenon DEF FlowInv
<1>2. CASE FlowNext
  BY <1>2, ReactorMoves, ReserveFlow, DispatchFlow, CloseFlow, AnswerFlow, LeaseFlow, ContinueFlow,
     Zenon DEF FlowNext, FlowReactor, PoolWorker
<1> QED
  BY <1>1, <1>2, Zenon

-----------------------------------------------------------------------------
\* Buffered input.  While consume reads or parses an open connection, its header is not
\* waiting for budget, and a connection that consume or a release leaves to close has
\* closed.
QueuedInv ==
    /\ BufferedIsQueued
    /\ readPc \in {"read", "parse", "check"} /\ open[cur] => ~AwaitsBudget(cur)
    /\ readPc \in {"release", "close"} => ~open[cur]

\* What BufferedIsQueued says of one connection.
Queued(c) ==
    open[c] /\ (consumed[c] < read[c] \/ AwaitsBudget(c)) =>
        paused[c] \/ c \in resumed \/ (cur = c /\ readPc # "idle")

\* The initial state satisfies it: nothing has been read.
LEMMA InitQueued == FlowInit => QueuedInv
  BY DEF FlowInit, QueuedInv, BufferedIsQueued, AwaitsBudget

\* resume_paused_connections queues what it resumes.
LEMMA ResumeQueues ==
    ASSUME FlowInv, QueuedInv, NEW released, ResumePaused(released),
           UNCHANGED <<read, consumed, reserved, open, cur, maxTotal>>,
           readPc' = readPc \/ (readPc = "release" /\ readPc' = "idle")
    PROVE  QueuedInv'
<1>1. paused' = [c \in Conns |-> paused[c] /\ c \notin Resumable(released)]
      /\ resumed' = resumed \cup Resumable(released)
  BY Zenon DEF ResumePaused
<1>2. ASSUME NEW c \in Conns PROVE AwaitsBudget(c)' = AwaitsBudget(c)
  BY Zenon DEF AwaitsBudget, Strict
<1>3. ASSUME NEW c \in Conns PROVE Queued(c)'
  <2>1. Queued(c)
    BY Zenon DEF QueuedInv, BufferedIsQueued, Queued
  <2>2. paused[c] => paused'[c] \/ c \in resumed'
    BY <1>1, Zenon
  <2> QED
    BY <1>1, <1>2, <2>1, <2>2, Zenon DEF Queued, QueuedInv
<1>4. cur \in Conns
  BY Zenon DEF FlowInv, FlowTypes, CounterTypes
<1> QED
  BY <1>2, <1>3, <1>4, Zenon DEF QueuedInv, BufferedIsQueued, Queued

\* Steps of consume: input stays with the connection being consumed until it is exhausted
\* or the connection is paused or closed.
LEMMA ConsumeQueued ==
    ASSUME FlowInv, QueuedInv, UNCHANGED <<maxTotal, open, resumed>>,
           UNCHANGED paused \/ Pause,
           \/ Read \/ ParseDone \/ ParseHeader \/ Dispatch \/ PauseIfNeeded \/ Pause
           \/ ReserveConnection \/ ReserveGlobal \/ ReserveRollback
    PROVE  QueuedInv'
<1>1. /\ cur \in Conns /\ consumed \in [Conns -> Nat] /\ read \in [Conns -> Nat]
      /\ reserved \in [Conns -> BOOLEAN] /\ paused \in [Conns -> BOOLEAN]
      /\ after \in {"read", "parse"} /\ Parsing
  BY Zenon DEF FlowInv, FlowTypes, CounterTypes, StreamTypes
<1>2. readPc \notin {"idle", "release", "close"} /\ cur' = cur
  BY Zenon DEF Read, ParseDone, ParseHeader, Dispatch, PauseIfNeeded, Pause, ReserveConnection,
         ReserveGlobal, ReserveRollback
<1>3. \A c \in Conns : c # cur => consumed'[c] = consumed[c] /\ read'[c] = read[c]
                                  /\ reserved'[c] = reserved[c] /\ paused'[c] = paused[c]
  BY <1>1, Zenon
     DEF Read, ParseDone, ParseHeader, Dispatch, PauseIfNeeded, Pause, ReserveConnection,
         ReserveGlobal, ReserveRollback, parser
<1>4. ASSUME NEW c \in Conns, c # cur PROVE Queued(c)'
  <2>1. Queued(c)
    BY <1>4, Zenon DEF QueuedInv, BufferedIsQueued, Queued
  <2>2. AwaitsBudget(c)' <=> AwaitsBudget(c)
    BY <1>3, <1>4, Zenon DEF AwaitsBudget, Strict
  <2>3. /\ UNCHANGED <<open, resumed>> /\ cur' # c /\ consumed'[c] = consumed[c]
        /\ read'[c] = read[c] /\ paused'[c] = paused[c]
    BY <1>2, <1>3, <1>4, Zenon
  <2> QED
    BY <1>4, <2>1, <2>2, <2>3, Zenon DEF Queued
<1>5. readPc' # "release" /\ (readPc' = "close" => ~open[cur])
  BY <1>1, Zenon
     DEF Read, ParseDone, ParseHeader, Dispatch, PauseIfNeeded, Pause, ReserveConnection,
         ReserveGlobal, ReserveRollback, Leave
<1>6. ASSUME Queued(cur)', readPc' \in {"read", "parse", "check"} /\ open[cur] => ~AwaitsBudget(cur)'
      PROVE  QueuedInv'
  <2>1. \A c \in Conns : Queued(c)'
    BY <1>2, <1>4, <1>6, Zenon
  <2>2. BufferedIsQueued'
    BY <2>1, Zenon DEF BufferedIsQueued, Queued
  <2> QED
    BY <1>2, <1>5, <1>6, <2>2, Zenon DEF QueuedInv
<1>7. CASE Read
  BY <1>2, <1>6, <1>7, Zenon DEF Read, Queued, QueuedInv, AwaitsBudget, Strict
<1>8. CASE ParseDone
  BY <1>1, <1>6, <1>8 DEF ParseDone, Leave, Queued, QueuedInv, AwaitsBudget, Strict, parser
<1>9. CASE ParseHeader
  BY <1>2, <1>6, <1>9, Zenon DEF ParseHeader, Queued, AwaitsBudget, Strict
<1>10. CASE Dispatch
  <2>1. consumed'[cur] = consumed[cur] + 1 /\ consumed[cur] % 2 = 1 /\ readPc' = "check"
    BY <1>1, <1>10, Zenon DEF Dispatch
  <2>2. (consumed[cur] + 1) % 2 # 1
    <3>1. consumed[cur] \in Nat
      BY <1>1, Zenon
    <3> QED
      BY <2>1, <3>1
  <2> QED
    BY <1>2, <1>6, <2>1, <2>2, Zenon DEF Queued, AwaitsBudget
<1>11. CASE PauseIfNeeded
  BY <1>2, <1>6, <1>11, Zenon DEF PauseIfNeeded, Queued, QueuedInv, AwaitsBudget, Strict, parser
<1>12. CASE Pause
  BY <1>1, <1>2, <1>6, <1>12, Zenon DEF Pause, Leave, Queued
<1>13. CASE ReserveConnection \/ ReserveRollback
  BY <1>2, <1>6, <1>13, Zenon DEF ReserveConnection, ReserveRollback, Queued
<1>14. CASE ReserveGlobal
  <2>1. readPc' \in {"read", "parse"} => reserved'[cur]
    BY <1>1, <1>14, Zenon DEF ReserveGlobal
  <2>2. readPc' \in {"read", "parse", "rollback"}
    BY <1>1, <1>14, Zenon DEF ReserveGlobal
  <2> QED
    BY <1>2, <1>6, <2>1, <2>2, Zenon DEF Queued, AwaitsBudget
<1> QED
  BY <1>7, <1>8, <1>9, <1>10, <1>11, <1>12, <1>13, <1>14, Zenon

\* A step that moves neither the parser nor the reactor nor the gates, and at most closes
\* connections.
LEMMA ClosedQueued ==
    ASSUME FlowInv, QueuedInv, UNCHANGED <<read, consumed, paused, resumed, readPc, cur, maxTotal>>,
           \A c \in Conns : open'[c] => open[c] /\ reserved'[c] = reserved[c]
    PROVE  QueuedInv'
<1>1. ASSUME NEW c \in Conns, open'[c] PROVE open[c] /\ (AwaitsBudget(c)' <=> AwaitsBudget(c))
  BY <1>1, Zenon DEF AwaitsBudget, Strict
<1>2. \A c \in Conns : Queued(c)'
  BY <1>1, Zenon DEF QueuedInv, BufferedIsQueued, Queued
<1>3. cur \in Conns
  BY Zenon DEF FlowInv, FlowTypes, CounterTypes
<1> QED
  BY <1>1, <1>2, <1>3, Zenon DEF QueuedInv, BufferedIsQueued, Queued

\* consume is entered with the connection that was taken off the queue.
LEMMA EnterQueued ==
    ASSUME FlowInv, QueuedInv, UNCHANGED maxTotal, NEW c \in Conns,
           ReadableEvent(c) \/ ProcessResumed(c)
    PROVE  QueuedInv'
<1>1. readPc = "idle" /\ UNCHANGED <<read, consumed, reserved, open, paused>>
  BY Zenon DEF ReadableEvent, ProcessResumed, parser, gates
<1>2. \A d \in Conns : AwaitsBudget(d)' = AwaitsBudget(d)
  BY <1>1, Zenon DEF AwaitsBudget, Strict
<1>3. \A d \in Conns : d # c /\ d \in resumed => d \in resumed'
  BY Zenon DEF ReadableEvent, ProcessResumed, gates
<1>4. CASE Enter(c)
  <2>1. cur' = c /\ readPc' \in {"reserve", "read"} /\ (readPc' = "read" => ~AwaitsBudget(c))
    BY <1>4, Zenon DEF Enter
  <2>2. ASSUME NEW d \in Conns PROVE Queued(d)'
    BY <1>1, <1>2, <1>3, <2>1, Zenon DEF Queued, QueuedInv, BufferedIsQueued
  <2> QED
    BY <1>1, <1>2, <2>1, <2>2, Zenon DEF QueuedInv, BufferedIsQueued, Queued
<1>5. CASE UNCHANGED reactor /\ ~(open[c] /\ ~paused[c] /\ c \notin leased)
  <2>1. c \in leased => consumed[c] = read[c] /\ ~AwaitsBudget(c) /\ consumed[c] \in Nat
    BY Zenon DEF FlowInv, Leases, AwaitsBudget, FlowTypes, StreamTypes
  <2>2. c \in leased => ~(consumed[c] < read[c])
    BY <2>1
  <2>3. ASSUME NEW d \in Conns PROVE Queued(d)'
    BY <1>1, <1>2, <1>3, <1>5, <2>1, <2>2, Zenon DEF Queued, QueuedInv, BufferedIsQueued
  <2> QED
    BY <1>1, <1>5, <2>3, Zenon DEF QueuedInv, BufferedIsQueued, Queued, reactor
<1> QED
  BY <1>4, <1>5, Zenon DEF ReadableEvent, ProcessResumed

\* A lease that ends leaves nothing buffered.
LEMMA ContinueQueued ==
    ASSUME FlowInv, QueuedInv, UNCHANGED maxTotal, NEW w \in PoolWorkers,
           Continue(w) \/ ContinueNothing(w)
    PROVE  QueuedInv'
<1>1. FlowTypes /\ Leases
  BY Zenon DEF FlowInv
<1>2. UNCHANGED <<cur, readPc>> /\ Strict' = Strict
  BY WorkerKeeps, Zenon DEF PoolWorker
<1>3. PICK k : k = poolReq[w][1]
  BY Zenon
<1>4. /\ poolPc[w] = "continue" /\ paused' = [paused EXCEPT ![k] = FALSE]
      /\ UNCHANGED <<reserved, resumed>> /\ open' \in {open, [open EXCEPT ![k] = FALSE]}
  BY <1>3, Zenon DEF Continue, ContinueNothing
<1>5. k \in leased /\ k \in Conns /\ ~Strict /\ consumed[k] = read[k]
  BY <1>1, <1>3, <1>4, Zenon DEF Leases, FlowTypes, CounterTypes
<1>6. /\ open \in [Conns -> BOOLEAN] /\ paused \in [Conns -> BOOLEAN] /\ cur \in Conns
      /\ read \in [Conns -> Nat] /\ consumed \in [Conns -> Nat]
  BY <1>1, Zenon DEF FlowTypes, CounterTypes, StreamTypes
<1>7. /\ consumed'[k] = read'[k] /\ consumed'[k] \in Nat
      /\ \A c \in Conns : c # k => consumed'[c] = consumed[c] /\ read'[c] = read[c]
  <2>1. CASE Continue(w)
    <3>1. read' = [read EXCEPT ![k] = @ + 2] /\ consumed' = [consumed EXCEPT ![k] = @ + 2]
      BY <1>3, <2>1, Zenon DEF Continue
    <3> QED
      BY <1>5, <1>6, <3>1
  <2>2. CASE ContinueNothing(w)
    BY <1>5, <1>6, <2>2, Zenon DEF ContinueNothing
  <2> QED
    BY <2>1, <2>2, Zenon
<1>8. ~(consumed'[k] < read'[k])
  BY <1>7
<1>9. \A c \in Conns : ~AwaitsBudget(c) /\ ~AwaitsBudget(c)'
  BY <1>2, <1>5, Zenon DEF AwaitsBudget
<1>10. \A c \in Conns : (open'[c] => open[c]) /\ (c # k => paused'[c] = paused[c])
  BY <1>4, <1>5, <1>6, Zenon
<1>11. ASSUME NEW c \in Conns PROVE Queued(c)'
  BY <1>2, <1>4, <1>7, <1>8, <1>9, <1>10, Zenon DEF Queued, QueuedInv, BufferedIsQueued
<1> QED
  BY <1>2, <1>6, <1>9, <1>10, <1>11, Zenon DEF QueuedInv, BufferedIsQueued, Queued

\* Every step preserves the invariant.
LEMMA QueuedStep == FlowInv /\ QueuedInv /\ [FlowNext]_flowVars => QueuedInv'
<1> SUFFICES ASSUME FlowInv, QueuedInv, [FlowNext]_flowVars PROVE QueuedInv'
  BY Zenon
<1>1. CASE UNCHANGED flowVars
  BY <1>1, ClosedQueued, Zenon DEF flowVars, parser, gates, reactor
<1>2. ASSUME UNCHANGED maxTotal, NEW c \in Conns, ClientSends(c) PROVE QueuedInv'
  BY <1>2, ClosedQueued, Zenon DEF ClientSends, gates, reactor
<1>3. ASSUME UNCHANGED maxTotal, NEW c \in Conns, Close(c) \/ (c = cur /\ CloseConsumed)
      PROVE  QueuedInv'
  <2>1. /\ readPc = "idle" \/ c = cur
        /\ readPc' \in {"release", "idle"} /\ cur' = c
        /\ Closing(c) /\ UNCHANGED <<read, consumed, paused, resumed>>
    BY <1>3, Zenon DEF Close, CloseConsumed, gates
  <2>2. ~open'[c] /\ \A d \in Conns : d # c => open'[d] = open[d] /\ reserved'[d] = reserved[d]
    BY <2>1, ClosingTypes, Zenon
  <2>3. ASSUME NEW d \in Conns PROVE Queued(d)'
    BY <1>3, <2>1, <2>2, Zenon DEF Queued, QueuedInv, BufferedIsQueued, AwaitsBudget, Strict
  <2> QED
    BY <2>1, <2>2, <2>3, Zenon DEF QueuedInv, BufferedIsQueued, Queued
<1>4. ASSUME UNCHANGED maxTotal, CloseResume PROVE QueuedInv'
  BY <1>4, ResumeQueues, Zenon DEF CloseResume, parser
<1>5. ASSUME UNCHANGED maxTotal,
             \/ Read \/ ParseDone \/ ParseHeader \/ Dispatch \/ PauseIfNeeded \/ Pause
             \/ ReserveConnection \/ ReserveGlobal \/ ReserveRollback
      PROVE  QueuedInv'
  <2>1. UNCHANGED <<open, resumed>> /\ (UNCHANGED paused \/ Pause)
    BY <1>5, Zenon
       DEF Read, ParseDone, ParseHeader, Dispatch, PauseIfNeeded, Pause, ReserveConnection,
                ReserveGlobal, ReserveRollback, parser, gates
  <2> QED
    BY <1>5, <2>1, ConsumeQueued, Zenon
<1>6. ASSUME UNCHANGED maxTotal, NEW w \in PoolWorkers, PoolWorker(w) PROVE QueuedInv'
  <2>1. CASE TakeJob(w) \/ Release(w) \/ AcquireLease(w)
    BY <1>6, <2>1, ClosedQueued, Zenon DEF TakeJob, Release, AcquireLease, parser, gates, reactor
  <2>2. CASE Resume(w) \/ OverflowResume(w)
    BY <1>6, <2>2, ResumeQueues, Zenon DEF Resume, OverflowResume, parser, reactor
  <2>3. CASE Respond(w)
    <3>1. /\ open' \in {open, [open EXCEPT ![poolReq[w][1]] = FALSE]}
          /\ UNCHANGED <<read, consumed, paused, resumed, readPc, cur, reserved>>
      BY <2>3, Zenon DEF Respond, gates, reactor
    <3>2. \A c \in Conns : open'[c] => open[c]
      BY <3>1, Zenon DEF FlowInv, FlowTypes, CounterTypes
    <3> QED
      BY <1>6, <3>1, <3>2, ClosedQueued, Zenon
  <2>4. CASE Overflow(w)
    <3>1. /\ poolPc[w] = "running" /\ Closing(poolReq[w][1])
          /\ UNCHANGED <<read, consumed, paused, resumed, readPc, cur>>
      BY <2>4, Zenon DEF Overflow, gates, reactor
    <3>2. PICK c \in Conns : c = poolReq[w][1]
      BY <3>1, RequestType, Zenon DEF FlowInv, WorkTypes
    <3>3. ~open'[c] /\ \A d \in Conns : d # c => open'[d] = open[d] /\ reserved'[d] = reserved[d]
      BY <3>1, <3>2, ClosingTypes, Zenon
    <3> QED
      BY <1>6, <3>1, <3>3, ClosedQueued, Zenon
  <2> QED
    BY <1>6, <2>1, <2>2, <2>3, <2>4, ContinueQueued, Zenon DEF PoolWorker
<1>7. cur \in Conns
  BY Zenon DEF FlowInv, FlowTypes, CounterTypes
<1>8. CASE FlowNext
  BY <1>2, <1>3, <1>4, <1>5, <1>6, <1>7, <1>8, EnterQueued, Zenon DEF FlowNext, FlowReactor
<1> QED
  BY <1>1, <1>8, Zenon

\* Input is never forgotten: bytes already read, or a header that waits for budget, which
\* no readiness event will announce again, belong to a connection that is paused, queued
\* in resumed_connections or being consumed, whichever thread resumes, leases or closes
\* it when.
THEOREM BufferedInputIsKept == FlowSpec => []BufferedIsQueued
<1>1. QueuedInv => BufferedIsQueued
  BY Zenon DEF QueuedInv
<1> QED
  BY InitFlow, FlowStep, InitQueued, QueuedStep, <1>1, PTL DEF FlowSpec

-----------------------------------------------------------------------------
(* The accounts: requests and bytes of each connection, and the budget of the *)
(* server. *)

\* The declared bytes of finitely many requests are finite.
LEMMA BytesFinite ==
    ASSUME NEW S \in SUBSET Requests, IsFiniteSet(S)
    PROVE  IsFiniteSet(BytesOf(S)) /\ Cardinality(BytesOf(S)) \in Nat
<1> DEFINE f == [r \in S |-> {r} \X (1..SizeOf(r))]
           T == {{r} \X (1..SizeOf(r)) : r \in S}
<1>1. f \in Surjection(S, T)
  BY Zenon DEF Surjection
<1>2. IsFiniteSet(T)
  BY <1>1, FS_Surjection, Zenon
<1>3. ASSUME NEW X \in T PROVE IsFiniteSet(X)
  <2>1. PICK r \in S : X = {r} \X (1..SizeOf(r))
    BY <1>3, Zenon
  <2>2. SizeOf(r) \in Int
    BY RequestType
  <2>3. IsFiniteSet({r})
    BY FS_Singleton, Zenon
  <2>4. IsFiniteSet(1..SizeOf(r))
    BY <2>2, FS_Interval
  <2> QED
    BY <2>1, <2>3, <2>4, FS_Product, Zenon
<1>4. IsFiniteSet(UNION T)
  BY <1>2, <1>3, FS_UNION, Zenon
<1> QED
  BY <1>4, FS_CardinalityType, Zenon DEF BytesOf

\* One more request brings its declared size.
LEMMA BytesAdded ==
    ASSUME NEW S \in SUBSET Requests, IsFiniteSet(S), NEW x \in Requests, x \notin S
    PROVE  Cardinality(BytesOf(S \cup {x})) = Cardinality(BytesOf(S)) + SizeOf(x)
<1> DEFINE X == {x} \X (1..SizeOf(x))
<1>1. IsFiniteSet(BytesOf(S)) /\ Cardinality(BytesOf(S)) \in Nat
  BY BytesFinite, Zenon
<1>2. SizeOf(x) \in Nat
  BY RequestType, Zenon
<1>3. IsFiniteSet(X) /\ Cardinality(X) = SizeOf(x)
  <2>1. IsFiniteSet({x}) /\ Cardinality({x}) = 1
    BY FS_Singleton, Zenon
  <2>2. IsFiniteSet(1..SizeOf(x)) /\ Cardinality(1..SizeOf(x)) = SizeOf(x)
    BY <1>2, FS_Interval
  <2>3. IsFiniteSet(X) /\ Cardinality(X) = Cardinality({x}) * Cardinality(1..SizeOf(x))
    BY <2>1, <2>2, FS_Product, Zenon
  <2> HIDE DEF X
  <2>4. Cardinality(X) = 1 * SizeOf(x)
    BY <2>1, <2>2, <2>3, Zenon
  <2> QED
    BY <1>2, <2>3, <2>4
<1>4. BytesOf(S \cup {x}) = BytesOf(S) \cup X
  BY Zenon DEF BytesOf
<1>5. BytesOf(S) \cap X = {}
  <2>1. ASSUME NEW b \in BytesOf(S) PROVE b[1] \in S
    <3>1. PICK r \in S : b \in {r} \X (1..SizeOf(r))
      BY <2>1, Zenon DEF BytesOf
    <3> QED
      BY <3>1, Zenon
  <2>2. \A b \in X : b[1] = x
    BY Zenon
  <2> HIDE DEF X
  <2> QED
    BY <2>1, <2>2, Zenon
<1> HIDE DEF X
<1>6. Cardinality(BytesOf(S) \cup X)
         = Cardinality(BytesOf(S)) + Cardinality(X) - Cardinality(BytesOf(S) \cap X)
  BY <1>1, <1>3, FS_Union, Zenon
<1>7. Cardinality(BytesOf(S) \cap X) = 0
  BY <1>5, FS_EmptySet, Zenon
<1> DEFINE m == Cardinality(BytesOf(S))
           n == SizeOf(x)
<1>8. m \in Nat /\ n \in Nat /\ Cardinality(BytesOf(S \cup {x})) = m + n - 0
  BY <1>1, <1>2, <1>3, <1>4, <1>6, <1>7, Zenon
<1> HIDE DEF m, n
<1>9. m + n - 0 = m + n
  BY <1>8
<1> QED
  BY <1>8, <1>9, Zenon DEF m, n

\* One request less takes its declared size.
LEMMA BytesRemoved ==
    ASSUME NEW S \in SUBSET Requests, IsFiniteSet(S), NEW x \in S
    PROVE  Cardinality(BytesOf(S \ {x})) = Cardinality(BytesOf(S)) - SizeOf(x)
<1>1. S \ {x} \in SUBSET Requests /\ IsFiniteSet(S \ {x}) /\ x \in Requests
  BY FS_RemoveElement, Zenon
<1>2. (S \ {x}) \cup {x} = S /\ x \notin S \ {x}
  BY Zenon
<1>3. Cardinality(BytesOf(S)) = Cardinality(BytesOf(S \ {x})) + SizeOf(x)
  BY <1>1, <1>2, BytesAdded, Zenon
<1>4. Cardinality(BytesOf(S \ {x})) \in Nat /\ SizeOf(x) \in Nat
  BY <1>1, BytesFinite, RequestType, Zenon
<1> QED
  BY <1>3, <1>4

\* The declared bytes of a set of requests, as a number.
Weight(S) == Cardinality(BytesOf(S))

\* A request changes the weight of a set by its size.
LEMMA WeightChanges ==
    ASSUME NEW S \in SUBSET Requests, IsFiniteSet(S)
    PROVE  /\ Weight(S) \in Nat
           /\ \A x \in Requests : x \notin S => Weight(S \cup {x}) = Weight(S) + SizeOf(x)
           /\ \A x \in S : Weight(S \ {x}) = Weight(S) + (-SizeOf(x))
<1>1. Weight(S) \in Nat
  BY BytesFinite, Zenon DEF Weight
<1>2. ASSUME NEW x \in Requests, x \notin S PROVE Weight(S \cup {x}) = Weight(S) + SizeOf(x)
  BY <1>2, BytesAdded, Zenon DEF Weight
<1>3. ASSUME NEW x \in S PROVE Weight(S \ {x}) = Weight(S) + (-SizeOf(x))
  <2>1. Weight(S \ {x}) = Weight(S) - SizeOf(x)
    BY BytesRemoved, Zenon DEF Weight
  <2>2. SizeOf(x) \in Nat
    BY RequestType, Zenon
  <2> QED
    BY <1>1, <2>1, <2>2
<1> QED
  BY <1>1, <1>2, <1>3, Zenon

\* A worker with a request that is not released yet.
Holds(w) == poolPc[w] \in {"running", "closed", "release"}

\* A dispatched request is in one place, the queue or the hands of one worker, and its
\* connection's parser is past it.
Distinct ==
    /\ \A i, j \in DOMAIN pendingJobs : pendingJobs[i] = pendingJobs[j] => i = j
    /\ \A w \in PoolWorkers : Holds(w) => \A i \in DOMAIN pendingJobs : pendingJobs[i] # poolReq[w]
    /\ \A v, w \in PoolWorkers : Holds(v) /\ Holds(w) /\ poolReq[v] = poolReq[w] => v = w
    /\ \A r \in Outstanding \cup unbacked : 2 * r[2] <= consumed[r[1]]

\* What is dispatched are requests, and the one being parsed is not among them.
LEMMA OutstandingType ==
    ASSUME FlowInv, Distinct
    PROVE  /\ Outstanding \in SUBSET Requests
           /\ \A c \in Conns : consumed[c] % 2 = 1 =>
                 /\ Parsed(c) \in Requests /\ Parsed(c) \notin Outstanding /\ Parsed(c)[1] = c
                 /\ Parsed(c) \notin unbacked
<1>1. WorkTypes /\ FlowTypes
  BY Zenon DEF FlowInv
<1>2. Outstanding \in SUBSET Requests
  BY <1>1 DEF Outstanding, WorkTypes
<1>3. ASSUME NEW c \in Conns, consumed[c] % 2 = 1
      PROVE  /\ Parsed(c) \in Requests /\ Parsed(c) \notin Outstanding /\ Parsed(c)[1] = c
             /\ Parsed(c) \notin unbacked
  <2>1. Parsed(c) \in Requests
    BY <1>1, <1>3, CurrentType, Zenon DEF Parsed
  <2>2. consumed[c] \in Nat
    BY <1>1, Zenon DEF FlowTypes, StreamTypes
  <2>3. ~(2 * ((consumed[c] + 1) \div 2) <= consumed[c])
    BY <1>3, <2>2
  <2>4. Parsed(c)[1] = c /\ Parsed(c)[2] = (consumed[c] + 1) \div 2
    BY Zenon DEF Parsed
  <2> QED
    BY <2>1, <2>3, <2>4, Zenon DEF Distinct
<1> QED
  BY <1>2, <1>3, Zenon

\* A parser only moves forward.
LEMMA PastRequests ==
    ASSUME FlowInv, NEW S \in SUBSET Requests, \A r \in S : 2 * r[2] <= consumed[r[1]],
           \A c \in Conns : consumed'[c] \in Nat /\ consumed[c] <= consumed'[c]
    PROVE  \A r \in S : 2 * r[2] <= consumed'[r[1]]
<1> SUFFICES ASSUME NEW r \in S PROVE 2 * r[2] <= consumed'[r[1]]
  BY Zenon
<1>1. PICK c \in Conns : c = r[1]
  BY RequestType, Zenon
<1>2. r[2] \in Nat
  BY RequestType, Zenon
<1>3. /\ consumed[c] \in Nat /\ consumed'[c] \in Nat /\ consumed[c] <= consumed'[c]
      /\ 2 * r[2] <= consumed[c]
  BY <1>1, Zenon DEF FlowInv, FlowTypes, StreamTypes
<1>4. 2 * r[2] <= consumed'[c]
  BY <1>2, <1>3
<1> QED
  BY <1>1, <1>4, Zenon

\* Workers take requests out of the queue, let go of them once released, and read others.
LEMMA WorkerDistinct ==
    ASSUME FlowInv, Distinct, unbacked \in SUBSET Requests, UNCHANGED maxTotal,
           NEW w \in PoolWorkers, PoolWorker(w)
    PROVE  /\ Distinct' /\ unbacked' = unbacked
           /\ Release(w) => /\ poolReq[w] \in Outstanding
                            /\ Outstanding' = Outstanding \ {poolReq[w]}
           /\ Continue(w) => \E r \in Requests :
                 /\ r = <<poolReq[w][1], consumed[poolReq[w][1]] \div 2 + 1>>
                 /\ r \notin Outstanding /\ Outstanding' = Outstanding \cup {r}
           /\ ~Release(w) /\ ~Continue(w) => Outstanding' = Outstanding
<1>1. /\ WorkTypes /\ DOMAIN poolPc' = PoolWorkers /\ DOMAIN poolReq' = PoolWorkers
      /\ \A v \in PoolWorkers : v # w => poolPc'[v] = poolPc[v] /\ poolReq'[v] = poolReq[v]
  BY WorkerKeeps, Zenon DEF FlowInv
<1>2. \A v \in PoolWorkers : v # w => (Holds(v)' <=> Holds(v))
  BY <1>1, Zenon DEF Holds
<1>3. unbacked' = unbacked
  BY Zenon DEF PoolWorker, TakeJob, Respond, Overflow, OverflowResume, Release, Resume, AcquireLease,
         Continue, ContinueNothing, queue
<1>4. CASE TakeJob(w)
  <2>1. /\ pendingJobs # <<>> /\ poolReq' = [poolReq EXCEPT ![w] = Head(pendingJobs)]
        /\ pendingJobs' = Tail(pendingJobs) /\ consumed' = consumed
        /\ poolPc[w] = "idle" /\ poolPc' = [poolPc EXCEPT ![w] = "running"]
    BY <1>4, Zenon DEF TakeJob, parser
  <2>2. /\ Len(pendingJobs) \in Nat /\ Len(pendingJobs) > 0 /\ DOMAIN pendingJobs = 1..Len(pendingJobs)
        /\ Head(pendingJobs) = pendingJobs[1] /\ DOMAIN pendingJobs' = 1..(Len(pendingJobs) - 1)
        /\ \A i \in 1..(Len(pendingJobs) - 1) : pendingJobs'[i] = pendingJobs[i + 1]
    BY <1>1, <2>1 DEF WorkTypes
  <2>3. poolReq'[w] = pendingJobs[1] /\ Holds(w)' /\ ~Holds(w)
    BY <1>1, <2>1, <2>2, Zenon DEF WorkTypes, Holds
  <2>4. \A i \in DOMAIN pendingJobs' :
           i + 1 \in DOMAIN pendingJobs /\ pendingJobs'[i] = pendingJobs[i + 1] /\ i + 1 # 1
    BY <2>2
  <2>5. \A i \in DOMAIN pendingJobs :
           i = 1 \/ (i - 1 \in DOMAIN pendingJobs' /\ pendingJobs'[i - 1] = pendingJobs[i])
    BY <2>2
  <2>6. 1 \in DOMAIN pendingJobs
    BY <2>2
  <2>7. Outstanding' = Outstanding
    <3>1. Outstanding' \subseteq Outstanding
      <4>1. \A i \in DOMAIN pendingJobs' : pendingJobs'[i] \in Outstanding
        BY <2>4, Zenon DEF Outstanding
      <4>2. pendingJobs[1] \in Outstanding
        BY <2>6, Zenon DEF Outstanding
      <4>3. \A v \in PoolWorkers : Holds(v)' => poolReq'[v] \in Outstanding
        BY <1>1, <1>2, <2>3, <4>2, Zenon DEF Outstanding, Holds
      <4> QED
        BY <4>1, <4>3, Zenon DEF Outstanding, Holds
    <3>2. Outstanding \subseteq Outstanding'
      <4>1. \A i \in DOMAIN pendingJobs : pendingJobs[i] \in Outstanding'
        BY <2>3, <2>5, Zenon DEF Outstanding, Holds
      <4>2. \A v \in PoolWorkers : Holds(v) => poolReq[v] \in Outstanding'
        BY <1>1, <1>2, <2>3, Zenon DEF Outstanding, Holds
      <4> QED
        BY <4>1, <4>2, Zenon DEF Outstanding, Holds
    <3> QED
      BY <3>1, <3>2, Zenon
  <2>8. \A i, j \in DOMAIN pendingJobs' : pendingJobs'[i] = pendingJobs'[j] => i = j
    <3> SUFFICES ASSUME NEW i \in DOMAIN pendingJobs', NEW j \in DOMAIN pendingJobs',
                        pendingJobs'[i] = pendingJobs'[j]
                 PROVE  i = j
      BY Zenon
    <3>1. i + 1 = j + 1
      BY <2>4 DEF Distinct
    <3>2. i \in Int /\ j \in Int
      BY <2>2
    <3> QED
      BY <3>1, <3>2
  <2>9. \A v \in PoolWorkers : Holds(v)' => \A i \in DOMAIN pendingJobs' : pendingJobs'[i] # poolReq'[v]
    BY <1>1, <1>2, <2>3, <2>4, <2>6 DEF Distinct
  <2>10. \A u, v \in PoolWorkers : Holds(u)' /\ Holds(v)' /\ poolReq'[u] = poolReq'[v] => u = v
    BY <1>1, <1>2, <2>3, <2>6 DEF Distinct
  <2>11. ~Release(w) /\ ~Continue(w)
    BY <2>1, Zenon DEF Release, Continue
  <2>12. \A r \in Outstanding' \cup unbacked' : 2 * r[2] <= consumed'[r[1]]
    BY <1>3, <2>1, <2>7, Zenon DEF Distinct
  <2> QED
    BY <1>3, <2>7, <2>8, <2>9, <2>10, <2>11, <2>12, Zenon DEF Distinct
<1>5. ASSUME UNCHANGED <<pendingJobs, consumed>>, Holds(w)' => Holds(w) /\ poolReq'[w] = poolReq[w]
      PROVE  /\ Distinct' /\ Outstanding' \subseteq Outstanding
             /\ \A r \in Outstanding : r \in Outstanding' \/ (Holds(w) /\ ~Holds(w)' /\ r = poolReq[w])
  <2>1. Outstanding' \subseteq Outstanding
    BY <1>1, <1>2, <1>5, Zenon DEF Outstanding, Holds
  <2>2. /\ \A i, j \in DOMAIN pendingJobs' : pendingJobs'[i] = pendingJobs'[j] => i = j
        /\ \A v \in PoolWorkers : Holds(v)' => \A i \in DOMAIN pendingJobs' : pendingJobs'[i] # poolReq'[v]
    BY <1>1, <1>2, <1>5, Zenon DEF Distinct
  <2>3. \A u, v \in PoolWorkers : Holds(u)' /\ Holds(v)' /\ poolReq'[u] = poolReq'[v] => u = v
    BY <1>1, <1>2, <1>5 DEF Distinct
  <2>4. \A r \in Outstanding' \cup unbacked' : 2 * r[2] <= consumed'[r[1]]
    BY <1>3, <1>5, <2>1, Zenon DEF Distinct
  <2>5. Distinct'
    BY <2>2, <2>3, <2>4, Zenon DEF Distinct
  <2>6. ASSUME NEW r \in Outstanding
        PROVE  r \in Outstanding' \/ (Holds(w) /\ ~Holds(w)' /\ r = poolReq[w])
    <3>1. CASE \E i \in DOMAIN pendingJobs : r = pendingJobs[i]
      BY <1>5, <3>1, Zenon DEF Outstanding
    <3>2. CASE \E v \in PoolWorkers : Holds(v) /\ r = poolReq[v]
      BY <1>1, <1>2, <1>5, <3>2, Zenon DEF Outstanding, Holds
    <3> QED
      BY <3>1, <3>2, Zenon DEF Outstanding, Holds
  <2> QED
    BY <2>1, <2>5, <2>6, Zenon
<1>6. CASE Respond(w) \/ Overflow(w) \/ OverflowResume(w)
  <2>1. /\ UNCHANGED <<pendingJobs, consumed, poolReq>> /\ poolPc[w] \in {"running", "closed"}
        /\ \E p \in {"closed", "release"} : poolPc' = [poolPc EXCEPT ![w] = p]
    BY <1>6, Zenon DEF Respond, Overflow, OverflowResume, Completed, parser, queue
  <2>2. Holds(w) /\ Holds(w)' /\ ~Release(w) /\ ~Continue(w)
    BY <1>1, <2>1, Zenon DEF Holds, WorkTypes, Release, Continue
  <2> QED
    BY <1>3, <1>5, <2>1, <2>2, Zenon
<1>7. CASE Resume(w) \/ AcquireLease(w) \/ ContinueNothing(w)
  <2>1. /\ UNCHANGED <<pendingJobs, consumed>> /\ poolPc[w] \in {"resume", "lease", "continue"}
        /\ \E p \in {"idle", "lease", "continue"} : poolPc' = [poolPc EXCEPT ![w] = p]
    BY <1>7, Zenon DEF Resume, AcquireLease, ContinueNothing, Idle, parser, queue
  <2>2. ~Holds(w) /\ ~Holds(w)' /\ ~Release(w)
    BY <1>1, <2>1, Zenon DEF Holds, WorkTypes, Release
  <2>3. ~Continue(w)
    BY <1>1, <2>1, <2>2, Zenon DEF Continue, WorkTypes, Holds
  <2> QED
    BY <1>3, <1>5, <2>1, <2>2, <2>3, Zenon
<1>8. CASE Release(w)
  <2>1. /\ UNCHANGED <<pendingJobs, consumed, poolReq>> /\ poolPc[w] = "release"
        /\ poolPc' = [poolPc EXCEPT ![w] = "resume"]
    BY <1>8, Zenon DEF Release, parser, queue
  <2>2. Holds(w) /\ ~Holds(w)' /\ ~Continue(w)
    BY <1>1, <2>1, Zenon DEF Holds, WorkTypes, Continue
  <2>3. poolReq[w] \in Outstanding
    BY <2>2, Zenon DEF Outstanding, Holds
  <2>4. poolReq[w] \notin Outstanding'
    BY <1>1, <1>2, <2>1, <2>2, Zenon DEF Outstanding, Distinct, Holds
  <2>5. Outstanding' = Outstanding \ {poolReq[w]}
    BY <1>5, <2>1, <2>2, <2>4, Zenon
  <2> QED
    BY <1>3, <1>5, <1>8, <2>1, <2>2, <2>3, <2>5, Zenon
<1>9. CASE Continue(w)
  <2>1. PICK k : k = poolReq[w][1]
    BY Zenon
  <2>2. /\ k \in Conns /\ consumed[k] \in Nat /\ consumed[k] % 2 = 0
        /\ <<k, consumed[k] \div 2 + 1>> \in Requests
    BY <1>9, <2>1, ContinueType, Zenon
  <2>3. PICK r \in Requests : r = <<k, consumed[k] \div 2 + 1>>
    BY <2>2, Zenon
  <2>4. /\ poolReq' = [poolReq EXCEPT ![w] = r] /\ poolPc' = [poolPc EXCEPT ![w] = "running"]
        /\ poolPc[w] = "continue" /\ consumed' = [consumed EXCEPT ![k] = @ + 2] /\ UNCHANGED pendingJobs
    BY <1>9, <2>1, <2>3, Zenon DEF Continue, queue
  <2>5. poolReq'[w] = r /\ Holds(w)' /\ ~Holds(w) /\ ~Release(w)
    BY <1>1, <2>4, Zenon DEF WorkTypes, Holds, Release
  <2>6. r[1] = k /\ r[2] = consumed[k] \div 2 + 1
    BY <2>3, Zenon
  <2>7. 2 * r[2] = consumed[k] + 2 /\ ~(2 * r[2] <= consumed[k]) /\ 2 * r[2] <= consumed[k] + 2
    BY <2>2, <2>6
  <2>8. r \notin Outstanding
    BY <2>6, <2>7, Zenon DEF Distinct
  <2>9. Outstanding' = Outstanding \cup {r}
    <3>1. Outstanding' \subseteq Outstanding \cup {r}
      BY <1>1, <1>2, <2>4, <2>5, Zenon DEF Outstanding, Holds
    <3>2. r \in Outstanding'
      BY <2>5, Zenon DEF Outstanding, Holds
    <3>3. Outstanding \subseteq Outstanding'
      BY <1>1, <1>2, <2>4, <2>5, Zenon DEF Outstanding, Holds
    <3> QED
      BY <3>1, <3>2, <3>3, Zenon
  <2>10. \A i \in DOMAIN pendingJobs : pendingJobs[i] # r
    BY <2>8, Zenon DEF Outstanding
  <2>11. \A v \in PoolWorkers : Holds(v) => poolReq[v] # r
    BY <2>8, Zenon DEF Outstanding, Holds
  <2>12. \A v \in PoolWorkers : Holds(v)' => \A i \in DOMAIN pendingJobs' : pendingJobs'[i] # poolReq'[v]
    BY <1>1, <1>2, <2>4, <2>5, <2>10, Zenon DEF Distinct
  <2>13. \A u, v \in PoolWorkers : Holds(u)' /\ Holds(v)' /\ poolReq'[u] = poolReq'[v] => u = v
    BY <1>1, <1>2, <2>5, <2>11, Zenon DEF Distinct
  <2>14. consumed \in [Conns -> Nat]
    BY Zenon DEF FlowInv, FlowTypes, StreamTypes
  <2>15. \A c \in Conns : consumed'[c] \in Nat /\ consumed[c] <= consumed'[c]
    BY <2>2, <2>4, <2>14
  <2>16. Outstanding \cup unbacked \in SUBSET Requests
    BY OutstandingType, Zenon
  <2>17. \A q \in Outstanding \cup unbacked : 2 * q[2] <= consumed'[q[1]]
    BY <2>15, <2>16, PastRequests, Zenon DEF Distinct
  <2>18. 2 * r[2] <= consumed'[r[1]]
    <3>1. consumed'[k] = consumed[k] + 2
      BY <2>2, <2>4, <2>14, Zenon
    <3> QED
      BY <2>6, <2>7, <3>1, Zenon
  <2>19. \A q \in Outstanding' \cup unbacked' : 2 * q[2] <= consumed'[q[1]]
    BY <1>3, <2>9, <2>17, <2>18, Zenon
  <2>20. \A i, j \in DOMAIN pendingJobs' : pendingJobs'[i] = pendingJobs'[j] => i = j
    BY <2>4, Zenon DEF Distinct
  <2>21. Distinct'
    BY <2>12, <2>13, <2>19, <2>20, Zenon DEF Distinct
  <2> QED
    BY <1>3, <1>9, <2>1, <2>3, <2>5, <2>8, <2>9, <2>21, Zenon
<1> QED
  BY <1>4, <1>6, <1>7, <1>8, <1>9, Zenon DEF PoolWorker

\* A dispatch appends the request that was being parsed and moves the parser past it.
LEMMA DispatchDistinct ==
    ASSUME FlowInv, Distinct, unbacked \in SUBSET Requests, Dispatch
    PROVE  /\ Distinct' /\ Outstanding' = Outstanding \cup {Parsed(cur)}
           /\ cur \in Conns /\ consumed[cur] % 2 = 1
<1>1. WorkTypes /\ FlowTypes /\ cur \in Conns
  BY Zenon DEF FlowInv, FlowTypes, CounterTypes
<1>2. /\ pendingJobs' = Append(pendingJobs, Parsed(cur)) /\ consumed' = [consumed EXCEPT ![cur] = @ + 1]
      /\ consumed[cur] % 2 = 1 /\ UNCHANGED <<poolPc, poolReq>>
      /\ unbacked' \subseteq unbacked \cup {Parsed(cur)}
  BY Zenon DEF Dispatch, Current, pool
<1>3. consumed \in [Conns -> Nat]
  BY <1>1, Zenon DEF FlowTypes, StreamTypes
<1>4. /\ Outstanding \in SUBSET Requests
      /\ Parsed(cur) \in Requests /\ Parsed(cur) \notin Outstanding /\ Parsed(cur)[1] = cur
  BY <1>1, <1>2, OutstandingType, Zenon
<1>5. /\ Len(pendingJobs) \in Nat /\ DOMAIN pendingJobs = 1..Len(pendingJobs)
      /\ DOMAIN pendingJobs' = 1..(Len(pendingJobs) + 1)
      /\ pendingJobs'[Len(pendingJobs) + 1] = Parsed(cur)
      /\ \A i \in 1..Len(pendingJobs) : pendingJobs'[i] = pendingJobs[i]
  BY <1>1, <1>2, <1>4 DEF WorkTypes
<1> DEFINE n == Len(pendingJobs) + 1
<1>6. n \in DOMAIN pendingJobs' /\ pendingJobs'[n] = Parsed(cur) /\ n \notin DOMAIN pendingJobs
  BY <1>5
<1>7. \A i \in DOMAIN pendingJobs : i \in DOMAIN pendingJobs' /\ pendingJobs'[i] = pendingJobs[i]
  BY <1>5
<1>8. \A i \in DOMAIN pendingJobs' : i = n \/ i \in DOMAIN pendingJobs
  BY <1>5
<1> HIDE DEF n
<1>9. Outstanding' = Outstanding \cup {Parsed(cur)}
  <2>1. Outstanding' \subseteq Outstanding \cup {Parsed(cur)}
    BY <1>2, <1>6, <1>7, <1>8, Zenon DEF Outstanding
  <2>2. Outstanding \cup {Parsed(cur)} \subseteq Outstanding'
    BY <1>2, <1>6, <1>7, Zenon DEF Outstanding
  <2> QED
    BY <2>1, <2>2, Zenon
<1>10. \A i \in DOMAIN pendingJobs : pendingJobs[i] # Parsed(cur)
  BY <1>4, Zenon DEF Outstanding
<1>11. \A w \in PoolWorkers : Holds(w) => poolReq[w] # Parsed(cur)
  BY <1>4, Zenon DEF Outstanding, Holds
<1>12. \A i, j \in DOMAIN pendingJobs' : pendingJobs'[i] = pendingJobs'[j] => i = j
  BY <1>6, <1>7, <1>8, <1>10, Zenon DEF Distinct
<1>13. \A w \in PoolWorkers : Holds(w)' <=> Holds(w)
  BY <1>2, Zenon DEF Holds
<1>14. \A w \in PoolWorkers : Holds(w)' => \A i \in DOMAIN pendingJobs' : pendingJobs'[i] # poolReq'[w]
  BY <1>2, <1>6, <1>7, <1>8, <1>11, <1>13 DEF Distinct
<1>15. \A r \in Outstanding' \cup unbacked' : 2 * r[2] <= consumed'[r[1]]
  <2>1. \A c \in Conns : consumed'[c] \in Nat /\ consumed[c] <= consumed'[c]
    BY <1>1, <1>2, <1>3
  <2>2. Outstanding \cup unbacked \in SUBSET Requests
    BY <1>4, Zenon
  <2>3. \A r \in Outstanding \cup unbacked : 2 * r[2] <= consumed'[r[1]]
    BY <2>1, <2>2, PastRequests, Zenon DEF Distinct
  <2>4. 2 * Parsed(cur)[2] <= consumed'[Parsed(cur)[1]]
    <3>1. consumed'[cur] = consumed[cur] + 1 /\ consumed[cur] \in Nat
      BY <1>1, <1>2, <1>3, Zenon
    <3>2. Parsed(cur)[2] = (consumed[cur] + 1) \div 2
      BY Zenon DEF Parsed
    <3>3. 2 * ((consumed[cur] + 1) \div 2) <= consumed[cur] + 1
      BY <3>1
    <3> QED
      BY <1>4, <3>1, <3>2, <3>3, Zenon
  <2> QED
    BY <1>2, <1>9, <2>3, <2>4, Zenon
<1>16. \A u, v \in PoolWorkers : Holds(u)' /\ Holds(v)' /\ poolReq'[u] = poolReq'[v] => u = v
  BY <1>2, <1>13, Zenon DEF Distinct
<1> QED
  BY <1>1, <1>2, <1>9, <1>12, <1>14, <1>15, <1>16, Zenon DEF Distinct

\* The other steps leave the dispatched requests where they are.
LEMMA OtherDistinct ==
    ASSUME FlowInv, Distinct, unbacked \in SUBSET Requests,
           UNCHANGED <<pendingJobs, poolPc, poolReq, unbacked>>,
           \A c \in Conns : consumed'[c] \in Nat /\ consumed[c] <= consumed'[c]
    PROVE  Distinct' /\ Outstanding' = Outstanding
<1>1. Outstanding' = Outstanding /\ \A w \in PoolWorkers : Holds(w)' <=> Holds(w)
  BY Zenon DEF Outstanding, Holds
<1>2. Outstanding \cup unbacked \in SUBSET Requests
  BY OutstandingType, Zenon
<1>3. \A r \in Outstanding \cup unbacked : 2 * r[2] <= consumed'[r[1]]
  BY <1>2, PastRequests, Zenon DEF Distinct
<1> QED
  BY <1>1, <1>3, Zenon DEF Distinct

\* What a connection accounts for, and what it gave back too early.
AccountedOf(c) == OutstandingOf(c) \cup ReservedOf(c)
UnbackedOf(c) == {r \in unbacked : r[1] = c}

\* The accounts, over these sets.
Exact ==
    /\ \A c \in Conns : reqs[c] = Cardinality(OutstandingOf(c))
    /\ \A c \in Conns : bytes[c] = Weight(AccountedOf(c)) - Weight(UnbackedOf(c))
    /\ \A c \in Conns : open[c] => UnbackedOf(c) = {}
    /\ total = Weight(Admitted) - Weight(unbacked)

\* AccountingExact is not inductive without the places of the requests.
CountInv ==
    /\ Distinct /\ Exact /\ IsFiniteSet(Admitted)
    /\ unbacked \in SUBSET Requests /\ IsFiniteSet(unbacked)

\* What is accounted for are finitely many requests, and the one being parsed is among
\* them just when its bytes are reserved.
LEMMA CountFacts ==
    ASSUME FlowInv, CountInv
    PROVE  /\ Outstanding \in SUBSET Requests /\ IsFiniteSet(Outstanding)
           /\ Admitted \in SUBSET Requests
           /\ Weight(Admitted) \in Nat /\ Weight(unbacked) \in Nat
           /\ \A c \in Conns :
                 /\ OutstandingOf(c) \in SUBSET Requests /\ IsFiniteSet(OutstandingOf(c))
                 /\ AccountedOf(c) \in SUBSET Requests /\ IsFiniteSet(AccountedOf(c))
                 /\ UnbackedOf(c) \in SUBSET Requests /\ IsFiniteSet(UnbackedOf(c))
                 /\ Weight(AccountedOf(c)) \in Nat /\ Weight(UnbackedOf(c)) \in Nat
                 /\ consumed[c] % 2 = 1 =>
                       /\ Parsed(c) \in Requests /\ Parsed(c) \notin Outstanding
                       /\ Parsed(c) \notin unbacked /\ Parsed(c)[1] = c
                       /\ ReservedOf(c) = {} => Parsed(c) \notin AccountedOf(c)
                       /\ ~reserved[c] => Parsed(c) \notin Admitted
<1>1. Distinct /\ IsFiniteSet(Admitted) /\ Parsing /\ unbacked \in SUBSET Requests /\ IsFiniteSet(unbacked)
  BY Zenon DEF CountInv, FlowInv
<1>2. /\ Outstanding \in SUBSET Requests
      /\ \A c \in Conns : consumed[c] % 2 = 1 =>
            /\ Parsed(c) \in Requests /\ Parsed(c) \notin Outstanding /\ Parsed(c)[1] = c
            /\ Parsed(c) \notin unbacked
  BY <1>1, OutstandingType, Zenon
<1>3. Outstanding \in SUBSET Admitted
  BY Zenon DEF Admitted
<1>4. IsFiniteSet(Outstanding)
  BY <1>1, <1>3, FS_Subset, Zenon
<1>5. Admitted \in SUBSET Requests
  BY <1>1, <1>2, Zenon DEF Admitted, Parsing
<1>6. ASSUME NEW c \in Conns
      PROVE  /\ OutstandingOf(c) \in SUBSET Requests /\ IsFiniteSet(OutstandingOf(c))
             /\ AccountedOf(c) \in SUBSET Requests /\ IsFiniteSet(AccountedOf(c))
             /\ UnbackedOf(c) \in SUBSET Requests /\ IsFiniteSet(UnbackedOf(c))
  <2>1. OutstandingOf(c) \in SUBSET Outstanding
    BY Zenon DEF OutstandingOf
  <2>2. IsFiniteSet(OutstandingOf(c))
    BY <1>4, <2>1, FS_Subset, Zenon
  <2>3. IsFiniteSet(OutstandingOf(c) \cup {Parsed(c)})
    BY <2>2, FS_AddElement, Zenon
  <2>4. AccountedOf(c) \in SUBSET (OutstandingOf(c) \cup {Parsed(c)})
    BY Zenon DEF AccountedOf, ReservedOf
  <2>5. IsFiniteSet(AccountedOf(c))
    BY <2>3, <2>4, FS_Subset, Zenon
  <2>6. ReservedOf(c) \subseteq Requests
    BY <1>1, <1>2, Zenon DEF ReservedOf, Parsing
  <2>7. UnbackedOf(c) \in SUBSET unbacked
    BY Zenon DEF UnbackedOf
  <2>8. UnbackedOf(c) \in SUBSET Requests /\ IsFiniteSet(UnbackedOf(c))
    BY <1>1, <2>7, FS_Subset, Zenon
  <2> QED
    BY <1>2, <2>1, <2>2, <2>5, <2>6, <2>8, Zenon DEF AccountedOf
<1>7. ASSUME NEW c \in Conns, consumed[c] % 2 = 1
      PROVE  /\ Parsed(c) \in Requests /\ Parsed(c) \notin Outstanding
             /\ Parsed(c) \notin unbacked /\ Parsed(c)[1] = c
             /\ ReservedOf(c) = {} => Parsed(c) \notin AccountedOf(c)
             /\ ~reserved[c] => Parsed(c) \notin Admitted
  <2>1. \A d \in Conns : Parsed(d) = Parsed(c) => d = c
    BY Zenon DEF Parsed
  <2> QED
    BY <1>2, <1>7, <2>1, Zenon DEF AccountedOf, OutstandingOf, Admitted
<1>8. /\ Weight(Admitted) \in Nat /\ Weight(unbacked) \in Nat
      /\ \A c \in Conns : Weight(AccountedOf(c)) \in Nat /\ Weight(UnbackedOf(c)) \in Nat
  BY <1>1, <1>5, <1>6, WeightChanges, Zenon
<1> QED
  BY <1>2, <1>4, <1>5, <1>6, <1>7, <1>8, Zenon

\* A step that accounts for nothing else.
LEMMA CountSame ==
    ASSUME FlowInv, CountInv, Distinct', Outstanding' = Outstanding,
           UNCHANGED <<reqs, bytes, total, unbacked>>,
           \A c \in Conns : /\ ReservedOf(c)' = ReservedOf(c) /\ reserved'[c] = reserved[c]
                            /\ reserved[c] => consumed'[c] = consumed[c]
                            /\ open'[c] => open[c]
    PROVE  CountInv'
<1>1. Admitted' = Admitted
  <2>1. {Parsed(c)' : c \in {d \in Conns : reserved'[d]}} = {Parsed(c) : c \in {d \in Conns : reserved[d]}}
    BY Zenon DEF Parsed
  <2> QED
    BY <2>1, Zenon DEF Admitted
<1>2. ASSUME NEW c \in Conns
      PROVE  /\ OutstandingOf(c)' = OutstandingOf(c) /\ UnbackedOf(c)' = UnbackedOf(c)
             /\ AccountedOf(c)' = AccountedOf(c)
  BY Zenon DEF OutstandingOf, UnbackedOf, AccountedOf
<1>3. Exact'
  BY <1>1, <1>2, Zenon DEF CountInv, Exact
<1> QED
  BY <1>1, <1>3, Zenon DEF CountInv

\* A step that changes what one connection and the server account for, by as many bytes
\* as it moves their counters.
LEMMA CountMoved ==
    ASSUME FlowInv, CountInv, NEW k \in Conns, NEW d \in Int, NEW t \in Int,
           Distinct', IsFiniteSet(Admitted'), unbacked' = unbacked,
           \A c \in Conns : c # k => AccountedOf(c)' = AccountedOf(c) /\ bytes'[c] = bytes[c],
           Weight(AccountedOf(k)') = Weight(AccountedOf(k)) + d, bytes'[k] = bytes[k] + d,
           Weight(Admitted') = Weight(Admitted) + t, total' = total + t,
           \A c \in Conns : reqs'[c] = Cardinality(OutstandingOf(c)'),
           \A c \in Conns : open'[c] => open[c]
    PROVE  CountInv'
<1>1. /\ Weight(Admitted) \in Nat /\ Weight(unbacked) \in Nat
      /\ Weight(AccountedOf(k)) \in Nat /\ Weight(UnbackedOf(k)) \in Nat
  BY CountFacts, Zenon
<1>2. \A c \in Conns : UnbackedOf(c)' = UnbackedOf(c)
  BY Zenon DEF UnbackedOf
<1>3. bytes[k] = Weight(AccountedOf(k)) - Weight(UnbackedOf(k))
  BY Zenon DEF CountInv, Exact
<1>4. bytes'[k] = Weight(AccountedOf(k)') - Weight(UnbackedOf(k))
  BY <1>1, <1>3
<1>5. total = Weight(Admitted) - Weight(unbacked)
  BY Zenon DEF CountInv, Exact
<1>6. total' = Weight(Admitted') - Weight(unbacked)
  BY <1>1, <1>5
<1>7. \A c \in Conns : bytes'[c] = Weight(AccountedOf(c)') - Weight(UnbackedOf(c))
  BY <1>4, Zenon DEF CountInv, Exact
<1>8. Exact'
  BY <1>2, <1>6, <1>7, Zenon DEF CountInv, Exact
<1> QED
  BY <1>8, Zenon DEF CountInv

\* A connection's share of a reservation is made ...
LEMMA ReserveConnectionCounts == ASSUME FlowInv, CountInv, ReserveConnection PROVE CountInv'
<1>1. PICK k \in Conns : k = cur
  BY Zenon DEF FlowInv, FlowTypes, CounterTypes
<1>2. /\ Parsing /\ FlowTypes /\ Distinct /\ readPc = "reserve" /\ unbacked \in SUBSET Requests
      /\ bytes \in [Conns -> Int] /\ IsFiniteSet(Admitted)
  BY Zenon DEF FlowInv, CountInv, FlowTypes, CounterTypes, ReserveConnection
<1>3. UNCHANGED <<consumed, reserved, open, reqs, total, cur, pendingJobs, poolPc, poolReq, unbacked>>
  BY Zenon DEF ReserveConnection, parser, pool, queue
<1>4. ~reserved[k] /\ consumed[k] % 2 = 1 /\ ReservedOf(k) = {}
  BY <1>1, <1>2, Zenon DEF Parsing, ReservedOf
<1>5. Distinct' /\ Outstanding' = Outstanding
  <2>1. \A c \in Conns : consumed[c] \in Nat /\ consumed[c] <= consumed[c]
    BY <1>2 DEF FlowTypes, StreamTypes
  <2> QED
    BY <1>2, <1>3, <2>1, OtherDistinct, Zenon
<1>6. \A c \in Conns : c # k => ReservedOf(c)' = ReservedOf(c)
  BY <1>1, <1>3, Zenon DEF ReservedOf, Parsed
<1>7. CASE readPc' = "global" /\ bytes' = [bytes EXCEPT ![cur] = @ + SizeOf(Current)]
  <2>1. ReservedOf(k)' = {Parsed(k)}
    BY <1>1, <1>3, <1>7, Zenon DEF ReservedOf, Parsed
  <2>2. \A c \in Conns : OutstandingOf(c)' = OutstandingOf(c)
    BY <1>5, Zenon DEF OutstandingOf
  <2>3. /\ AccountedOf(k)' = AccountedOf(k) \cup {Parsed(k)}
        /\ \A c \in Conns : c # k => AccountedOf(c)' = AccountedOf(c)
    BY <1>4, <1>6, <2>1, <2>2, Zenon DEF AccountedOf
  <2>4. /\ Parsed(k) \in Requests /\ Parsed(k) \notin AccountedOf(k)
        /\ AccountedOf(k) \in SUBSET Requests /\ IsFiniteSet(AccountedOf(k))
    BY <1>4, CountFacts, Zenon
  <2>5. PICK d \in Int : d = SizeOf(Parsed(k))
    <3>1. SizeOf(Parsed(k)) \in Nat
      BY <2>4, RequestType, Zenon
    <3> QED
      BY <3>1
  <2>6. Weight(AccountedOf(k)') = Weight(AccountedOf(k)) + d
    BY <2>3, <2>4, <2>5, WeightChanges, Zenon
  <2>7. bytes'[k] = bytes[k] + d /\ \A c \in Conns : c # k => bytes'[c] = bytes[c]
    BY <1>1, <1>2, <1>7, <2>5, Zenon DEF Current
  <2>8. Admitted' = Admitted
    BY <1>3, <1>5, Zenon DEF Admitted, Parsed
  <2>9. Weight(Admitted') = Weight(Admitted) + 0 /\ total' = total + 0
    <3>1. Weight(Admitted) \in Nat /\ total \in Int
      BY CountFacts, Zenon DEF FlowInv, FlowTypes, CounterTypes
    <3> QED
      BY <1>3, <2>8, <3>1
  <2>10. \A c \in Conns : reqs'[c] = Cardinality(OutstandingOf(c)')
    BY <1>3, <2>2, Zenon DEF CountInv, Exact
  <2>11. 0 \in Int
    OBVIOUS
  <2> QED
    BY <1>2, <1>3, <1>5, <2>3, <2>6, <2>7, <2>8, <2>9, <2>10, <2>11, CountMoved, Zenon
<1>8. CASE readPc' = "pause" /\ bytes' = [bytes EXCEPT ![cur] = @]
  <2>1. bytes' = bytes
    BY <1>1, <1>2, <1>8, Zenon
  <2>2. ReservedOf(k)' = {}
    BY <1>3, <1>4, <1>8, Zenon DEF ReservedOf
  <2> QED
    BY <1>3, <1>4, <1>5, <1>6, <2>1, <2>2, CountSame, Zenon
<1> QED
  BY <1>7, <1>8, Zenon DEF ReserveConnection

\* ... the server's, or it is taken back.
LEMMA ReserveGlobalCounts == ASSUME FlowInv, CountInv, ReserveGlobal PROVE CountInv'
<1>1. PICK k \in Conns : k = cur
  BY Zenon DEF FlowInv, FlowTypes, CounterTypes
<1>2. /\ Parsing /\ FlowTypes /\ Distinct /\ readPc = "global" /\ unbacked \in SUBSET Requests
      /\ reserved \in [Conns -> BOOLEAN] /\ total \in Int /\ after \in {"read", "parse"}
      /\ bytes \in [Conns -> Int]
  BY Zenon DEF FlowInv, CountInv, FlowTypes, CounterTypes, ReserveGlobal
<1>3. UNCHANGED <<consumed, open, reqs, bytes, cur, pendingJobs, poolPc, poolReq, unbacked>>
  BY Zenon DEF ReserveGlobal, pool, queue
<1>4. ~reserved[k] /\ consumed[k] % 2 = 1
  BY <1>1, <1>2, Zenon DEF Parsing
<1>5. Distinct' /\ Outstanding' = Outstanding
  <2>1. \A c \in Conns : consumed[c] \in Nat /\ consumed[c] <= consumed[c]
    BY <1>2 DEF FlowTypes, StreamTypes
  <2> QED
    BY <1>2, <1>3, <2>1, OtherDistinct, Zenon
<1>6. \A c \in Conns : OutstandingOf(c)' = OutstandingOf(c)
  BY <1>5, Zenon DEF OutstandingOf
<1>7. CASE /\ total' = total + SizeOf(Current) /\ reserved' = [reserved EXCEPT ![cur] = TRUE]
           /\ readPc' = after
  <2>1. reserved'[k] /\ \A c \in Conns : c # k => reserved'[c] = reserved[c]
    BY <1>1, <1>2, <1>7, Zenon
  <2>2. \A c \in Conns : ReservedOf(c)' = ReservedOf(c)
    <3>1. ReservedOf(k)' = {Parsed(k)} /\ ReservedOf(k) = {Parsed(k)}
      BY <1>1, <1>2, <1>3, <2>1, Zenon DEF ReservedOf, Parsed
    <3>2. \A c \in Conns : c # k => ReservedOf(c)' = ReservedOf(c)
      BY <1>1, <1>3, <2>1, Zenon DEF ReservedOf, Parsed
    <3> QED
      BY <3>1, <3>2, Zenon
  <2>3. Admitted' = Admitted \cup {Parsed(k)}
    <3>1. {Parsed(c)' : c \in {d \in Conns : reserved'[d]}}
             = {Parsed(c) : c \in {d \in Conns : reserved[d]}} \cup {Parsed(k)}
      BY <1>1, <1>2, <1>3, <2>1, Zenon DEF Parsed
    <3> QED
      BY <1>5, <3>1, Zenon DEF Admitted
  <2>4. /\ Parsed(k) \in Requests /\ Parsed(k) \notin Admitted /\ Admitted \in SUBSET Requests
        /\ IsFiniteSet(Admitted)
    BY <1>4, CountFacts, Zenon DEF CountInv
  <2>5. PICK t \in Int : t = SizeOf(Parsed(k))
    <3>1. SizeOf(Parsed(k)) \in Nat
      BY <2>4, RequestType, Zenon
    <3> QED
      BY <3>1
  <2>6. Weight(Admitted') = Weight(Admitted) + t /\ total' = total + t
    BY <1>1, <1>7, <2>3, <2>4, <2>5, WeightChanges, Zenon DEF Current
  <2>7. IsFiniteSet(Admitted')
    BY <2>3, <2>4, FS_AddElement, Zenon
  <2>8. \A c \in Conns : AccountedOf(c)' = AccountedOf(c)
    BY <1>6, <2>2, Zenon DEF AccountedOf
  <2>9. Weight(AccountedOf(k)') = Weight(AccountedOf(k)) + 0 /\ bytes'[k] = bytes[k] + 0
    <3>1. Weight(AccountedOf(k)) \in Nat /\ bytes[k] \in Int
      BY <1>2, CountFacts, Zenon
    <3> QED
      BY <1>3, <2>8, <3>1
  <2>10. \A c \in Conns : reqs'[c] = Cardinality(OutstandingOf(c)')
    BY <1>3, <1>6, Zenon DEF CountInv, Exact
  <2>11. 0 \in Int
    OBVIOUS
  <2> QED
    BY <1>3, <1>5, <2>6, <2>7, <2>8, <2>9, <2>10, <2>11, CountMoved, Zenon
<1>8. CASE /\ total' = total /\ reserved' = [reserved EXCEPT ![cur] = FALSE]
           /\ readPc' = "rollback"
  <2>1. reserved' = reserved
    BY <1>1, <1>2, <1>4, <1>8, Zenon
  <2>2. \A c \in Conns : ReservedOf(c)' = ReservedOf(c)
    BY <1>1, <1>2, <1>3, <1>8, <2>1, Zenon DEF ReservedOf, Parsed
  <2> QED
    BY <1>1, <1>3, <1>4, <1>5, <1>8, <2>1, <2>2, CountSame, Zenon
<1>9. AtMost(total, maxTotal - SizeOf(Current)) \in BOOLEAN
  BY DEF AtMost
<1> QED
  BY <1>7, <1>8, <1>9, Zenon DEF ReserveGlobal

\* The connection's share of a refused reservation is given back.
LEMMA ReserveRollbackCounts == ASSUME FlowInv, CountInv, ReserveRollback PROVE CountInv'
<1>1. PICK k \in Conns : k = cur
  BY Zenon DEF FlowInv, FlowTypes, CounterTypes
<1>2. /\ Parsing /\ FlowTypes /\ Distinct /\ readPc = "rollback" /\ bytes \in [Conns -> Int]
      /\ unbacked \in SUBSET Requests /\ IsFiniteSet(Admitted)
  BY Zenon DEF FlowInv, CountInv, FlowTypes, CounterTypes, ReserveRollback
<1>3. /\ UNCHANGED <<consumed, reserved, open, reqs, total, cur, pendingJobs, poolPc, poolReq, unbacked>>
      /\ readPc' = "pause" /\ bytes' = [bytes EXCEPT ![k] = @ - SizeOf(Parsed(k))]
  BY <1>1, Zenon DEF ReserveRollback, parser, pool, queue, Current
<1>4. ~reserved[k] /\ consumed[k] % 2 = 1 /\ ReservedOf(k) = {Parsed(k)} /\ ReservedOf(k)' = {}
  BY <1>1, <1>2, <1>3, Zenon DEF Parsing, ReservedOf
<1>5. Distinct' /\ Outstanding' = Outstanding
  <2>1. \A c \in Conns : consumed[c] \in Nat /\ consumed[c] <= consumed[c]
    BY <1>2 DEF FlowTypes, StreamTypes
  <2> QED
    BY <1>2, <1>3, <2>1, OtherDistinct, Zenon
<1>6. \A c \in Conns : c # k => ReservedOf(c)' = ReservedOf(c)
  BY <1>1, <1>3, Zenon DEF ReservedOf, Parsed
<1>7. \A c \in Conns : OutstandingOf(c)' = OutstandingOf(c)
  BY <1>5, Zenon DEF OutstandingOf
<1>8. /\ AccountedOf(k) \in SUBSET Requests /\ IsFiniteSet(AccountedOf(k)) /\ Parsed(k) \in Requests
      /\ Parsed(k) \in AccountedOf(k) /\ Parsed(k) \notin OutstandingOf(k)
  BY <1>4, CountFacts, Zenon DEF AccountedOf, OutstandingOf
<1>9. /\ AccountedOf(k)' = AccountedOf(k) \ {Parsed(k)}
      /\ \A c \in Conns : c # k => AccountedOf(c)' = AccountedOf(c)
  BY <1>4, <1>6, <1>7, <1>8, Zenon DEF AccountedOf
<1>10. SizeOf(Parsed(k)) \in Nat
  BY <1>8, RequestType, Zenon
<1>11. PICK d \in Int : d = -SizeOf(Parsed(k))
  BY <1>10
<1>12. Weight(AccountedOf(k)') = Weight(AccountedOf(k)) + d
  BY <1>8, <1>9, <1>11, WeightChanges, Zenon
<1>13. bytes'[k] = bytes[k] - SizeOf(Parsed(k)) /\ \A c \in Conns : c # k => bytes'[c] = bytes[c]
  BY <1>2, <1>3, Zenon
<1>14. bytes'[k] = bytes[k] + d
  <2>1. bytes[k] \in Int
    BY <1>2, Zenon
  <2> QED
    BY <1>10, <1>11, <1>13, <2>1
<1>15. Admitted' = Admitted
  BY <1>3, <1>5, Zenon DEF Admitted, Parsed
<1>16. Weight(Admitted') = Weight(Admitted) + 0 /\ total' = total + 0 /\ 0 \in Int
  <2>1. Weight(Admitted) \in Nat /\ total \in Int
    BY CountFacts, Zenon DEF FlowInv, FlowTypes, CounterTypes
  <2> QED
    BY <1>3, <1>15, <2>1
<1>17. \A c \in Conns : reqs'[c] = Cardinality(OutstandingOf(c)')
  BY <1>3, <1>7, Zenon DEF CountInv, Exact
<1> QED
  BY <1>2, <1>3, <1>5, <1>9, <1>12, <1>13, <1>14, <1>15, <1>16, <1>17, CountMoved, Zenon

\* A request r of connection k that was accounted for no longer is.
LEMMA CountRemoved ==
    ASSUME FlowInv, CountInv, NEW k \in Conns, NEW r \in Admitted, r \in AccountedOf(k),
           Distinct', unbacked' = unbacked, Admitted' = Admitted \ {r},
           AccountedOf(k)' = AccountedOf(k) \ {r},
           \A c \in Conns : c # k => AccountedOf(c)' = AccountedOf(c),
           \A c \in Conns : reqs'[c] = Cardinality(OutstandingOf(c)'),
           bytes' = [bytes EXCEPT ![k] = @ - SizeOf(r)], total' = total - SizeOf(r),
           \A c \in Conns : open'[c] => open[c]
    PROVE  CountInv'
<1>1. bytes \in [Conns -> Int] /\ total \in Int /\ bytes[k] \in Int
  BY Zenon DEF FlowInv, FlowTypes, CounterTypes
<1>2. /\ Admitted \in SUBSET Requests /\ IsFiniteSet(Admitted)
      /\ AccountedOf(k) \in SUBSET Requests /\ IsFiniteSet(AccountedOf(k))
  BY CountFacts, Zenon DEF CountInv
<1>3. SizeOf(r) \in Nat
  BY <1>2, RequestType, Zenon
<1>4. PICK d \in Int : d = -SizeOf(r)
  BY <1>3
<1>5. /\ Weight(AccountedOf(k)') = Weight(AccountedOf(k)) + d
      /\ Weight(Admitted') = Weight(Admitted) + d
  BY <1>2, <1>4, WeightChanges, Zenon
<1>6. bytes'[k] = bytes[k] - SizeOf(r) /\ \A c \in Conns : c # k => bytes'[c] = bytes[c]
  BY <1>1, Zenon
<1>7. bytes'[k] = bytes[k] + d /\ total' = total + d
  BY <1>1, <1>3, <1>4, <1>6
<1>8. IsFiniteSet(Admitted')
  BY <1>2, FS_RemoveElement, Zenon
<1> QED
  BY <1>5, <1>6, <1>7, <1>8, CountMoved, Zenon

\* A request r of connection k is now accounted for.
LEMMA CountAdded ==
    ASSUME FlowInv, CountInv, NEW k \in Conns, NEW r \in Requests, r \notin Admitted,
           r \notin AccountedOf(k), Distinct', unbacked' = unbacked, Admitted' = Admitted \cup {r},
           AccountedOf(k)' = AccountedOf(k) \cup {r},
           \A c \in Conns : c # k => AccountedOf(c)' = AccountedOf(c),
           \A c \in Conns : reqs'[c] = Cardinality(OutstandingOf(c)'),
           bytes' = [bytes EXCEPT ![k] = @ + SizeOf(r)], total' = total + SizeOf(r),
           \A c \in Conns : open'[c] => open[c]
    PROVE  CountInv'
<1>1. bytes \in [Conns -> Int] /\ total \in Int /\ bytes[k] \in Int
  BY Zenon DEF FlowInv, FlowTypes, CounterTypes
<1>2. /\ Admitted \in SUBSET Requests /\ IsFiniteSet(Admitted)
      /\ AccountedOf(k) \in SUBSET Requests /\ IsFiniteSet(AccountedOf(k))
  BY CountFacts, Zenon DEF CountInv
<1>3. PICK d \in Int : d = SizeOf(r)
  <2>1. SizeOf(r) \in Nat
    BY RequestType, Zenon
  <2> QED
    BY <2>1
<1>4. /\ Weight(AccountedOf(k)') = Weight(AccountedOf(k)) + d
      /\ Weight(Admitted') = Weight(Admitted) + d
  BY <1>2, <1>3, WeightChanges, Zenon
<1>5. bytes'[k] = bytes[k] + d /\ \A c \in Conns : c # k => bytes'[c] = bytes[c]
  BY <1>1, <1>3, Zenon
<1>6. IsFiniteSet(Admitted')
  BY <1>2, FS_AddElement, Zenon
<1> QED
  BY <1>3, <1>4, <1>5, <1>6, CountMoved, Zenon

\* The requests that the server has reserved for, and whose payload is outstanding.
Reserving == {Parsed(c) : c \in {d \in Conns : reserved[d]}}

\* A connection's reservation passes to its job, or is given back.
LEMMA ReservationGone ==
    ASSUME FlowInv, NEW k \in Conns, reserved' = [reserved EXCEPT ![k] = FALSE],
           \A c \in Conns : c # k => consumed'[c] = consumed[c]
    PROVE  Reserving' = Reserving \ {Parsed(k)} /\ (~reserved[k] => Parsed(k) \notin Reserving)
<1>1. /\ reserved \in [Conns -> BOOLEAN] /\ ~reserved'[k]
      /\ \A c \in Conns : c # k => reserved'[c] = reserved[c]
  BY Zenon DEF FlowInv, FlowTypes, CounterTypes
<1>2. \A c \in Conns : c # k => Parsed(c)' = Parsed(c) /\ Parsed(c) # Parsed(k)
  BY Zenon DEF Parsed
<1>3. Reserving' \subseteq Reserving \ {Parsed(k)}
  BY <1>1, <1>2, Zenon DEF Reserving
<1>4. Reserving \ {Parsed(k)} \subseteq Reserving'
  <2> SUFFICES ASSUME NEW c \in Conns, reserved[c], Parsed(c) # Parsed(k) PROVE Parsed(c) \in Reserving'
    BY Zenon DEF Reserving
  <2>1. c # k
    OBVIOUS
  <2>2. reserved'[c] /\ Parsed(c)' = Parsed(c)
    BY <1>1, <1>2, <2>1, Zenon
  <2> QED
    BY <2>2, Zenon DEF Reserving
<1> QED
  BY <1>2, <1>3, <1>4, Zenon DEF Reserving

\* A connection has one request more.
LEMMA OneMore ==
    ASSUME FlowInv, CountInv, NEW k \in Conns, NEW r \in Requests, r[1] = k, r \notin Outstanding,
           Outstanding' = Outstanding \cup {r}, reqs' = [reqs EXCEPT ![k] = @ + 1]
    PROVE  /\ OutstandingOf(k)' = OutstandingOf(k) \cup {r}
           /\ \A c \in Conns : c # k => OutstandingOf(c)' = OutstandingOf(c)
           /\ \A c \in Conns : reqs'[c] = Cardinality(OutstandingOf(c)')
<1>1. /\ OutstandingOf(k)' = OutstandingOf(k) \cup {r} /\ r \notin OutstandingOf(k)
      /\ \A c \in Conns : c # k => OutstandingOf(c)' = OutstandingOf(c)
  BY Zenon DEF OutstandingOf
<1>2. IsFiniteSet(OutstandingOf(k)) /\ \A c \in Conns : reqs[c] = Cardinality(OutstandingOf(c))
  BY CountFacts, Zenon DEF CountInv, Exact
<1>3. Cardinality(OutstandingOf(k)') = Cardinality(OutstandingOf(k)) + 1
  BY <1>1, <1>2, FS_AddElement, Zenon
<1>4. reqs'[k] = reqs[k] + 1 /\ \A c \in Conns : c # k => reqs'[c] = reqs[c]
  BY Zenon DEF FlowInv, FlowTypes, CounterTypes
<1> QED
  BY <1>1, <1>2, <1>3, <1>4, Zenon

\* A dispatched request takes its reservation along, is accounted for here, or was given
\* back by a close and takes nothing.
LEMMA DispatchCounts == ASSUME FlowInv, QueuedInv, CountInv, Dispatch PROVE CountInv'
<1>1. PICK k \in Conns : k = cur
  BY Zenon DEF FlowInv, FlowTypes, CounterTypes
<1>2. /\ Parsing /\ FlowTypes /\ Distinct /\ readPc = "parse" /\ unbacked \in SUBSET Requests
      /\ reserved \in [Conns -> BOOLEAN] /\ bytes \in [Conns -> Int] /\ total \in Int
      /\ consumed \in [Conns -> Nat] /\ IsFiniteSet(Admitted) /\ IsFiniteSet(unbacked)
  BY Zenon DEF FlowInv, CountInv, FlowTypes, CounterTypes, StreamTypes, Dispatch
<1>3. /\ Distinct' /\ Outstanding' = Outstanding \cup {Parsed(k)} /\ consumed[k] % 2 = 1
      /\ UNCHANGED <<open, cur>> /\ readPc' = "check" /\ reqs' = [reqs EXCEPT ![k] = @ + 1]
      /\ reserved' = [reserved EXCEPT ![k] = FALSE] /\ consumed' = [consumed EXCEPT ![k] = @ + 1]
  BY <1>1, <1>2, DispatchDistinct, Zenon DEF Dispatch
<1>4. PICK r \in Requests : r = Parsed(k)
  BY <1>3, CountFacts, Zenon
<1>5. /\ r \notin Outstanding /\ r \notin unbacked /\ r[1] = k
      /\ ReservedOf(k) = {} => r \notin AccountedOf(k)
      /\ ~reserved[k] => r \notin Admitted
  BY <1>3, <1>4, CountFacts, Zenon
<1>6. \A c \in Conns : c # k => consumed'[c] = consumed[c] /\ reserved'[c] = reserved[c]
  BY <1>2, <1>3, Zenon
<1>7. /\ \A c \in Conns : c # k => ReservedOf(c)' = ReservedOf(c)
      /\ ReservedOf(k)' = {} /\ ReservedOf(k) = (IF reserved[k] THEN {r} ELSE {})
  BY <1>1, <1>2, <1>3, <1>4, <1>6, Zenon DEF ReservedOf, Parsed
<1>8. Reserving' = Reserving \ {r}
  BY <1>3, <1>4, <1>6, ReservationGone, Zenon
<1>9. Admitted' = Admitted \cup {r}
  BY <1>3, <1>4, <1>8, Zenon DEF Admitted, Reserving
<1>10. /\ OutstandingOf(k)' = OutstandingOf(k) \cup {r}
       /\ \A c \in Conns : c # k => OutstandingOf(c)' = OutstandingOf(c)
       /\ \A c \in Conns : reqs'[c] = Cardinality(OutstandingOf(c)')
  BY <1>3, <1>4, <1>5, OneMore, Zenon
<1>11. /\ AccountedOf(k)' = AccountedOf(k) \cup {r}
       /\ \A c \in Conns : c # k => AccountedOf(c)' = AccountedOf(c)
  BY <1>7, <1>10, Zenon DEF AccountedOf
<1>12. /\ Weight(Admitted) \in Nat /\ Weight(unbacked) \in Nat /\ Admitted \in SUBSET Requests
       /\ \A c \in Conns : /\ Weight(AccountedOf(c)) \in Nat /\ Weight(UnbackedOf(c)) \in Nat
                           /\ AccountedOf(c) \in SUBSET Requests /\ IsFiniteSet(AccountedOf(c))
                           /\ UnbackedOf(c) \in SUBSET Requests /\ IsFiniteSet(UnbackedOf(c))
  BY CountFacts, Zenon
<1>13. \A c \in Conns : bytes[c] \in Int
  BY <1>2, Zenon
<1>14. ASSUME Strict PROVE bytes' = bytes /\ total' = total
  <2>1. bytes' = [bytes EXCEPT ![k] = @ + 0] /\ total' = total + 0
    BY <1>1, <1>14, Zenon DEF Dispatch
  <2>2. bytes[k] + 0 = bytes[k] /\ total + 0 = total
    BY <1>2, <1>13
  <2> QED
    BY <1>2, <2>1, <2>2, Zenon
<1>15. CASE reserved[k]
  <2>1. Strict /\ ~AwaitsBudget(cur) /\ unbacked' = unbacked
    BY <1>1, <1>2, <1>15, Zenon DEF Parsing, AwaitsBudget, Dispatch
  <2>2. Admitted' = Admitted /\ AccountedOf(k)' = AccountedOf(k)
    <3>1. r \in Admitted /\ r \in AccountedOf(k)
      BY <1>4, <1>7, <1>15, Zenon DEF Admitted, AccountedOf
    <3> QED
      BY <1>9, <1>11, <3>1, Zenon
  <2>3. /\ Weight(Admitted') = Weight(Admitted) + 0 /\ total' = total + 0 /\ 0 \in Int
        /\ Weight(AccountedOf(k)') = Weight(AccountedOf(k)) + 0 /\ bytes'[k] = bytes[k] + 0
    BY <1>2, <1>12, <1>13, <1>14, <2>1, <2>2
  <2> QED
    BY <1>2, <1>3, <1>10, <1>11, <1>14, <2>1, <2>2, <2>3, CountMoved, Zenon
<1>16. CASE ~reserved[k] /\ ~Strict
  <2>1. unbacked' = unbacked /\ r \notin Admitted /\ r \notin AccountedOf(k)
    BY <1>5, <1>7, <1>16, Zenon DEF AwaitsBudget, Dispatch
  <2>2. bytes' = [bytes EXCEPT ![k] = @ + SizeOf(r)] /\ total' = total + SizeOf(r)
    BY <1>1, <1>4, <1>16, Zenon DEF Dispatch, Current
  <2> QED
    BY <1>3, <1>9, <1>10, <1>11, <2>1, <2>2, CountAdded, Zenon
<1>17. CASE ~reserved[k] /\ Strict
  <2>1. AwaitsBudget(cur) /\ ~open[k] /\ unbacked' = unbacked \cup {r}
    BY <1>1, <1>2, <1>3, <1>4, <1>17, Zenon DEF AwaitsBudget, QueuedInv, Dispatch, Current
  <2>2. /\ UnbackedOf(k)' = UnbackedOf(k) \cup {r} /\ r \notin UnbackedOf(k)
        /\ \A c \in Conns : c # k => UnbackedOf(c)' = UnbackedOf(c)
    BY <1>5, <2>1, Zenon DEF UnbackedOf
  <2>3. SizeOf(r) \in Nat
    BY RequestType, Zenon
  <2>4. r \notin Admitted /\ r \notin AccountedOf(k)
    BY <1>5, <1>7, <1>17, Zenon
  <2>5. /\ Weight(Admitted') = Weight(Admitted) + SizeOf(r)
        /\ Weight(unbacked') = Weight(unbacked) + SizeOf(r)
        /\ Weight(AccountedOf(k)') = Weight(AccountedOf(k)) + SizeOf(r)
        /\ Weight(UnbackedOf(k)') = Weight(UnbackedOf(k)) + SizeOf(r)
    BY <1>2, <1>5, <1>9, <1>11, <1>12, <2>1, <2>2, <2>4, WeightChanges, Zenon
  <2>6. /\ total = Weight(Admitted) - Weight(unbacked)
        /\ bytes[k] = Weight(AccountedOf(k)) - Weight(UnbackedOf(k))
    BY Zenon DEF CountInv, Exact
  <2>7. total' = Weight(Admitted') - Weight(unbacked')
    BY <1>12, <1>14, <1>17, <2>3, <2>5, <2>6
  <2>8. bytes'[k] = Weight(AccountedOf(k)') - Weight(UnbackedOf(k)')
    BY <1>12, <1>14, <1>17, <2>3, <2>5, <2>6
  <2>9. \A c \in Conns : bytes'[c] = Weight(AccountedOf(c)') - Weight(UnbackedOf(c)')
    BY <1>11, <1>14, <1>17, <2>2, <2>8, Zenon DEF CountInv, Exact
  <2>10. \A c \in Conns : open'[c] => UnbackedOf(c)' = {}
    BY <1>3, <2>1, <2>2, Zenon DEF CountInv, Exact
  <2>11. IsFiniteSet(Admitted') /\ IsFiniteSet(unbacked') /\ unbacked' \in SUBSET Requests
    BY <1>2, <1>9, <2>1, FS_AddElement, Zenon
  <2> QED
    BY <1>3, <1>10, <2>7, <2>9, <2>10, <2>11, Zenon DEF CountInv, Exact
<1> QED
  BY <1>15, <1>16, <1>17, Zenon

\* A close gives back the reservation that its parser had.
LEMMA ClosingCounts ==
    ASSUME FlowInv, CountInv, NEW k \in Conns, Closing(k), Distinct', Outstanding' = Outstanding,
           UNCHANGED <<consumed, reqs, unbacked>>,
           \A c \in Conns : (cur' = c /\ readPc' \in {"global", "rollback"})
                               <=> (cur = c /\ readPc \in {"global", "rollback"})
    PROVE  CountInv'
<1>1. /\ Parsing /\ FlowTypes /\ reserved \in [Conns -> BOOLEAN] /\ bytes \in [Conns -> Int]
      /\ total \in Int /\ open \in [Conns -> BOOLEAN]
  BY Zenon DEF FlowInv, FlowTypes, CounterTypes
<1>2. /\ open' = [open EXCEPT ![k] = FALSE] /\ reserved' = [reserved EXCEPT ![k] = FALSE]
      /\ reserved[k] => /\ bytes' = [bytes EXCEPT ![k] = @ - SizeOf(Parsed(k))]
                        /\ total' = total - SizeOf(Parsed(k))
      /\ ~reserved[k] => bytes' = [bytes EXCEPT ![k] = @ - 0] /\ total' = total - 0
  BY Zenon DEF Closing
<1>3. \A c \in Conns : open'[c] => open[c]
  BY <1>1, <1>2, Zenon
<1>4. \A c \in Conns : OutstandingOf(c)' = OutstandingOf(c)
  BY Zenon DEF OutstandingOf
<1>5. ~reserved'[k] /\ \A c \in Conns : c # k => reserved'[c] = reserved[c]
  BY <1>1, <1>2, Zenon
<1>6. \A c \in Conns : c # k => ReservedOf(c)' = ReservedOf(c)
  BY <1>5, Zenon DEF ReservedOf, Parsed
<1>7. CASE reserved[k]
  <2>1. consumed[k] % 2 = 1 /\ ~(cur = k /\ readPc \in {"global", "rollback"})
    BY <1>1, <1>7, Zenon DEF Parsing
  <2>2. PICK r \in Requests : r = Parsed(k)
    BY <2>1, CountFacts, Zenon
  <2>3. r \notin Outstanding
    BY <2>1, <2>2, CountFacts, Zenon
  <2>4. ReservedOf(k) = {r} /\ ReservedOf(k)' = {}
    BY <1>5, <1>7, <2>1, <2>2, Zenon DEF ReservedOf
  <2>5. /\ AccountedOf(k)' = AccountedOf(k) \ {r} /\ r \in AccountedOf(k)
        /\ \A c \in Conns : c # k => AccountedOf(c)' = AccountedOf(c)
    BY <1>4, <1>6, <2>3, <2>4, Zenon DEF AccountedOf, OutstandingOf
  <2>6. Reserving' = Reserving \ {r}
    BY <1>2, <2>2, ReservationGone, Zenon
  <2>7. r \in Admitted /\ Admitted' = Admitted \ {r}
    BY <1>7, <2>2, <2>3, <2>6, Zenon DEF Admitted, Reserving
  <2>8. \A c \in Conns : reqs'[c] = Cardinality(OutstandingOf(c)')
    BY <1>4, Zenon DEF CountInv, Exact
  <2> QED
    BY <1>2, <1>3, <1>7, <2>2, <2>5, <2>7, <2>8, CountRemoved, Zenon
<1>8. CASE ~reserved[k]
  <2>1. bytes[k] - 0 = bytes[k] /\ total - 0 = total
    <3>1. bytes[k] \in Int /\ total \in Int
      BY <1>1, Zenon
    <3> QED
      BY <3>1
  <2>2. bytes' = bytes /\ total' = total /\ reserved' = reserved
    BY <1>1, <1>2, <1>8, <2>1, Zenon
  <2>3. ReservedOf(k)' = ReservedOf(k)
    BY <2>2, Zenon DEF ReservedOf, Parsed
  <2> QED
    BY <1>3, <1>6, <2>2, <2>3, CountSame, Zenon
<1> QED
  BY <1>7, <1>8, Zenon

\* A worker's release takes its request off the accounts, whether or not its
\* reservation was given back before.
LEMMA ReleaseCounts ==
    ASSUME FlowInv, CountInv, NEW w \in PoolWorkers, Release(w), UNCHANGED maxTotal PROVE CountInv'
<1>1. /\ Distinct /\ unbacked \in SUBSET Requests /\ PoolWorker(w)
  BY Zenon DEF CountInv, PoolWorker
<1>2. PICK r : r = poolReq[w]
  BY Zenon
<1>3. Distinct' /\ unbacked' = unbacked /\ r \in Outstanding /\ Outstanding' = Outstanding \ {r}
  BY <1>1, <1>2, WorkerDistinct, Zenon
<1>4. r \in Requests
  BY <1>3, CountFacts, Zenon
<1>5. PICK k \in Conns : k = r[1]
  BY <1>4, RequestType, Zenon
<1>6. /\ bytes' = [bytes EXCEPT ![k] = @ - SizeOf(r)] /\ total' = total - SizeOf(r)
      /\ reqs' = [reqs EXCEPT ![k] = @ - 1] /\ UNCHANGED <<consumed, reserved, open, cur, readPc>>
  BY <1>2, <1>5, Zenon DEF Release, parser, reactor
<1>7. \A c \in Conns : ReservedOf(c)' = ReservedOf(c) /\ Parsed(c)' = Parsed(c)
  BY <1>6, Zenon DEF ReservedOf, Parsed
<1>8. r \notin ReservedOf(k) /\ r \notin Reserving
  <2>1. \A c \in Conns : consumed[c] % 2 = 1 => Parsed(c) # r
    BY <1>3, CountFacts, Zenon
  <2>2. Parsing
    BY Zenon DEF FlowInv
  <2> QED
    BY <2>1, <2>2, Zenon DEF ReservedOf, Reserving, Parsing
<1>9. Reserving' = Reserving
  BY <1>6, <1>7, Zenon DEF Reserving
<1>10. r \in Admitted /\ Admitted' = Admitted \ {r}
  BY <1>3, <1>8, <1>9, Zenon DEF Admitted, Reserving
<1>11. /\ OutstandingOf(k)' = OutstandingOf(k) \ {r} /\ r \in OutstandingOf(k)
       /\ \A c \in Conns : c # k => OutstandingOf(c)' = OutstandingOf(c)
  BY <1>3, <1>5, Zenon DEF OutstandingOf
<1>12. /\ AccountedOf(k)' = AccountedOf(k) \ {r} /\ r \in AccountedOf(k)
       /\ \A c \in Conns : c # k => AccountedOf(c)' = AccountedOf(c)
  BY <1>7, <1>8, <1>11, Zenon DEF AccountedOf
<1>13. \A c \in Conns : reqs'[c] = Cardinality(OutstandingOf(c)')
  <2>1. IsFiniteSet(OutstandingOf(k)) /\ \A c \in Conns : reqs[c] = Cardinality(OutstandingOf(c))
    BY CountFacts, Zenon DEF CountInv, Exact
  <2>2. Cardinality(OutstandingOf(k)') = Cardinality(OutstandingOf(k)) - 1
    BY <1>11, <2>1, FS_RemoveElement, Zenon
  <2>3. reqs'[k] = reqs[k] - 1 /\ \A c \in Conns : c # k => reqs'[c] = reqs[c]
    BY <1>6, Zenon DEF FlowInv, FlowTypes, CounterTypes
  <2> QED
    BY <1>11, <2>1, <2>2, <2>3, Zenon
<1> QED
  BY <1>3, <1>6, <1>10, <1>12, <1>13, CountRemoved, Zenon

\* A continuation read accounts for its request.
LEMMA ContinueCounts ==
    ASSUME FlowInv, CountInv, NEW w \in PoolWorkers, Continue(w), UNCHANGED maxTotal PROVE CountInv'
<1>1. /\ Distinct /\ unbacked \in SUBSET Requests /\ PoolWorker(w)
  BY Zenon DEF CountInv, PoolWorker
<1>2. PICK k : k = poolReq[w][1]
  BY Zenon
<1>3. PICK r \in Requests : /\ r = <<k, consumed[k] \div 2 + 1>>
                            /\ r \notin Outstanding /\ Outstanding' = Outstanding \cup {r}
  BY <1>1, <1>2, WorkerDistinct, Zenon
<1>4. Distinct' /\ unbacked' = unbacked
  BY <1>1, WorkerDistinct, Zenon
<1>5. k \in Conns /\ r[1] = k /\ consumed[k] % 2 = 0
  BY <1>2, <1>3, ContinueType, Zenon
<1>6. /\ bytes' = [bytes EXCEPT ![k] = @ + SizeOf(r)] /\ total' = total + SizeOf(r)
      /\ reqs' = [reqs EXCEPT ![k] = @ + 1] /\ UNCHANGED <<reserved, open, cur, readPc>>
      /\ consumed' = [consumed EXCEPT ![k] = @ + 2]
  BY <1>2, <1>3, Zenon DEF Continue, reactor
<1>7. Parsing /\ ~reserved[k] /\ ~(cur = k /\ readPc \in {"global", "rollback"})
  <2>1. Parsing /\ 0 # 1
    BY DEF FlowInv
  <2> QED
    BY <1>5, <2>1, Zenon DEF Parsing
<1>8. \A c \in Conns : c # k => consumed'[c] = consumed[c]
  BY <1>5, <1>6, Zenon DEF FlowInv, FlowTypes, StreamTypes
<1>9. /\ ReservedOf(k) = {} /\ ReservedOf(k)' = {}
      /\ \A c \in Conns : c # k => ReservedOf(c)' = ReservedOf(c)
  BY <1>6, <1>7, <1>8, Zenon DEF ReservedOf, Parsed
<1>10. Reserving' = Reserving
  BY <1>6, <1>7, <1>8, Zenon DEF Reserving, Parsed
<1>11. \A c \in Conns : reserved[c] => Parsed(c) # r
  BY <1>3, <1>7, Zenon DEF Parsed
<1>12. r \notin Admitted /\ Admitted' = Admitted \cup {r}
  BY <1>3, <1>10, <1>11, Zenon DEF Admitted, Reserving
<1>13. /\ OutstandingOf(k)' = OutstandingOf(k) \cup {r}
       /\ \A c \in Conns : c # k => OutstandingOf(c)' = OutstandingOf(c)
       /\ \A c \in Conns : reqs'[c] = Cardinality(OutstandingOf(c)')
  BY <1>3, <1>5, <1>6, OneMore, Zenon
<1>14. /\ r \notin AccountedOf(k) /\ AccountedOf(k)' = AccountedOf(k) \cup {r}
       /\ \A c \in Conns : c # k => AccountedOf(c)' = AccountedOf(c)
  BY <1>3, <1>9, <1>13, Zenon DEF AccountedOf, OutstandingOf
<1> QED
  BY <1>4, <1>5, <1>6, <1>12, <1>13, <1>14, CountAdded, Zenon

\* The other steps of the workers.
LEMMA WorkerCounts ==
    ASSUME FlowInv, CountInv, NEW w \in PoolWorkers, PoolWorker(w), UNCHANGED maxTotal PROVE CountInv'
<1>1. CASE Release(w)
  BY <1>1, ReleaseCounts, Zenon
<1>2. CASE Continue(w)
  BY <1>2, ContinueCounts, Zenon
<1>3. CASE ~Release(w) /\ ~Continue(w)
  <2>1. Distinct' /\ unbacked' = unbacked /\ Outstanding' = Outstanding
    BY <1>3, WorkerDistinct, Zenon DEF CountInv
  <2>2. CASE Overflow(w)
    <3>1. poolReq[w] \in Requests
      <4>1. poolPc[w] = "running" /\ WorkTypes
        BY <2>2, Zenon DEF Overflow, FlowInv
      <4> QED
        BY <4>1, Zenon DEF WorkTypes
    <3>2. PICK k \in Conns : k = poolReq[w][1]
      BY <3>1, RequestType, Zenon
    <3>3. Closing(k) /\ UNCHANGED <<consumed, reqs, cur, readPc>>
      BY <2>2, <3>2, Zenon DEF Overflow, reactor
    <3> QED
      BY <2>1, <3>3, ClosingCounts, Zenon
  <2>3. CASE ~Overflow(w)
    <3>1. UNCHANGED <<consumed, reserved, reqs, bytes, total, cur, readPc>>
      BY <1>3, <2>3, Zenon DEF PoolWorker, TakeJob, Respond, OverflowResume, Resume, AcquireLease,
             ContinueNothing, parser, counters, reactor
    <3>2. open' = open \/ \E c : open' = [open EXCEPT ![c] = FALSE]
      BY <1>3, <2>3, Zenon DEF PoolWorker, TakeJob, Respond, OverflowResume, Resume, AcquireLease,
             ContinueNothing, parser
    <3>3. \A c \in Conns : open'[c] => open[c]
      BY <3>2, Zenon DEF FlowInv, FlowTypes, CounterTypes
    <3>4. \A c \in Conns : ReservedOf(c)' = ReservedOf(c)
      BY <3>1, Zenon DEF ReservedOf, Parsed
    <3> QED
      BY <2>1, <3>1, <3>3, <3>4, CountSame, Zenon
  <2> QED
    BY <2>2, <2>3, Zenon
<1> QED
  BY <1>1, <1>2, <1>3, Zenon

\* The steps of the reactor and of the client that only move the parser.
LEMMA QuietCounts ==
    ASSUME FlowInv, CountInv, UNCHANGED <<reserved, open, reqs, bytes, total, pendingJobs, poolPc,
                                          poolReq, unbacked>>,
           readPc \notin {"global", "rollback"}, readPc' \notin {"global", "rollback"},
           \/ UNCHANGED consumed
           \/ \E c \in Conns : ~reserved[c] /\ consumed' = [consumed EXCEPT ![c] = @ + 1]
    PROVE  CountInv'
<1>1. consumed \in [Conns -> Nat] /\ \A c \in Conns : consumed[c] \in Nat
  BY Zenon DEF FlowInv, FlowTypes, StreamTypes
<1>2. \A c \in Conns : /\ consumed'[c] = consumed[c] \/ consumed'[c] = consumed[c] + 1
                       /\ reserved[c] => consumed'[c] = consumed[c]
  BY <1>1, Zenon
<1>3. \A c \in Conns : consumed'[c] \in Nat /\ consumed[c] <= consumed'[c]
  BY <1>1, <1>2
<1>4. Distinct' /\ Outstanding' = Outstanding
  BY <1>3, OtherDistinct, Zenon DEF CountInv
<1>5. \A c \in Conns : ReservedOf(c)' = ReservedOf(c)
  BY <1>2, Zenon DEF ReservedOf, Parsed
<1> QED
  BY <1>2, <1>4, <1>5, CountSame, Zenon

\* Initially nothing is accounted for.
LEMMA InitCount == FlowInit => CountInv
<1> SUFFICES ASSUME FlowInit PROVE CountInv
  BY Zenon
<1>1. Outstanding = {} /\ unbacked = {} /\ Admitted = {}
  BY DEF FlowInit, Outstanding, Admitted
<1>2. /\ \A c \in Conns : /\ OutstandingOf(c) = {} /\ AccountedOf(c) = {} /\ UnbackedOf(c) = {}
                          /\ reqs[c] = 0 /\ bytes[c] = 0
      /\ total = 0 /\ pendingJobs = <<>> /\ \A w \in PoolWorkers : ~Holds(w)
  BY <1>1 DEF FlowInit, OutstandingOf, AccountedOf, UnbackedOf, ReservedOf, Holds
<1>3. IsFiniteSet({}) /\ Cardinality({}) = 0
  BY FS_EmptySet, Zenon
<1>4. Weight({}) = 0
  BY <1>3, Zenon DEF Weight, BytesOf
<1>5. Exact
  <2>1. 0 = 0 - 0
    OBVIOUS
  <2> QED
    BY <1>1, <1>2, <1>3, <1>4, <2>1, Zenon DEF Exact
<1>6. Distinct
  BY <1>1, <1>2 DEF Distinct
<1> QED
  BY <1>1, <1>3, <1>5, <1>6, Zenon DEF CountInv

\* Every step keeps the accounts.
LEMMA CountStep == FlowInv /\ QueuedInv /\ CountInv /\ [FlowNext]_flowVars => CountInv'
<1> SUFFICES ASSUME FlowInv, QueuedInv, CountInv, [FlowNext]_flowVars PROVE CountInv'
  BY Zenon
<1>1. CASE UNCHANGED flowVars
  <2>1. /\ UNCHANGED <<reserved, open, reqs, bytes, total, pendingJobs, poolPc, poolReq, unbacked>>
        /\ UNCHANGED <<consumed, cur, readPc>>
    BY <1>1, Zenon DEF flowVars, parser, counters, reactor, pool, queue
  <2>2. /\ \A c \in Conns : ReservedOf(c)' = ReservedOf(c)
        /\ Outstanding' = Outstanding
    BY <2>1, Zenon DEF ReservedOf, Parsed, Outstanding
  <2>3. Distinct'
    BY <2>1, <2>2, Zenon DEF CountInv, Distinct, Holds
  <2> QED
    BY <2>1, <2>2, <2>3, CountSame, Zenon
<1>2. CASE \E c \in Conns : ClientSends(c)
  <2>1. /\ UNCHANGED <<reserved, open, reqs, bytes, total, pendingJobs, poolPc, poolReq, unbacked>>
        /\ UNCHANGED <<consumed, cur, readPc>>
    BY <1>2, Zenon DEF ClientSends, counters, reactor, pool, queue
  <2>2. /\ \A c \in Conns : ReservedOf(c)' = ReservedOf(c)
        /\ Outstanding' = Outstanding
    BY <2>1, Zenon DEF ReservedOf, Parsed, Outstanding
  <2>3. Distinct'
    BY <2>1, <2>2, Zenon DEF CountInv, Distinct, Holds
  <2> QED
    BY <2>1, <2>2, <2>3, CountSame, Zenon
<1>3. CASE CloseConsumed \/ \E c \in Conns : Close(c)
  <2>1. PICK k \in Conns : Close(k) \/ (k = cur /\ CloseConsumed)
    BY <1>3, Zenon DEF FlowInv, FlowTypes, CounterTypes
  <2>2. /\ Closing(k) /\ UNCHANGED <<consumed, reqs, pendingJobs, poolPc, poolReq, unbacked>>
        /\ readPc \in {"idle", "close"} /\ readPc' \in {"idle", "release"}
    BY <2>1, Zenon DEF Close, CloseConsumed, pool, queue
  <2>3. \A c \in Conns : consumed'[c] \in Nat /\ consumed[c] <= consumed'[c]
    BY <2>2 DEF FlowInv, FlowTypes, StreamTypes
  <2>4. Distinct' /\ Outstanding' = Outstanding
    BY <2>2, <2>3, OtherDistinct, Zenon DEF CountInv
  <2>5. \A c \in Conns : (cur' = c /\ readPc' \in {"global", "rollback"})
                            <=> (cur = c /\ readPc \in {"global", "rollback"})
    BY <2>2, Zenon
  <2> QED
    BY <2>2, <2>4, <2>5, ClosingCounts, Zenon
<1>4. CASE ReserveConnection
  BY <1>4, ReserveConnectionCounts, Zenon
<1>5. CASE ReserveGlobal
  BY <1>5, ReserveGlobalCounts, Zenon
<1>6. CASE ReserveRollback
  BY <1>6, ReserveRollbackCounts, Zenon
<1>7. CASE Dispatch
  BY <1>7, DispatchCounts, Zenon
<1>8. CASE Read \/ ParseDone \/ PauseIfNeeded \/ Pause \/ CloseResume
           \/ \E c \in Conns : ReadableEvent(c) \/ ProcessResumed(c)
  <2>1. /\ UNCHANGED <<reserved, open, reqs, bytes, total, pendingJobs, poolPc, poolReq, unbacked>>
        /\ UNCHANGED consumed
    BY <1>8, Zenon DEF Read, ParseDone, PauseIfNeeded, Pause, CloseResume, ReadableEvent, ProcessResumed,
           parser, counters, pool, queue
  <2>2. readPc \notin {"global", "rollback"} /\ readPc' \notin {"global", "rollback"}
    BY <1>8, Zenon DEF Read, ParseDone, PauseIfNeeded, Pause, CloseResume, ReadableEvent, ProcessResumed,
           Leave, Enter, reactor
  <2> QED
    BY <2>1, <2>2, QuietCounts, Zenon
<1>9. CASE ParseHeader
  <2>1. /\ UNCHANGED <<reserved, open, reqs, bytes, total, pendingJobs, poolPc, poolReq, unbacked>>
        /\ consumed' = [consumed EXCEPT ![cur] = @ + 1] /\ consumed[cur] % 2 = 0
        /\ readPc = "parse" /\ readPc' \in {"reserve", "parse"}
    BY <1>9, Zenon DEF ParseHeader, counters, pool, queue
  <2>2. cur \in Conns /\ Parsing /\ 0 # 1
    BY DEF FlowInv, FlowTypes, CounterTypes
  <2>3. ~reserved[cur]
    BY <2>1, <2>2, Zenon DEF Parsing
  <2> QED
    BY <2>1, <2>2, <2>3, QuietCounts, Zenon
<1>10. CASE \E w \in PoolWorkers : PoolWorker(w) /\ UNCHANGED maxTotal
  BY <1>10, WorkerCounts, Zenon
<1> QED
  BY <1>1, <1>2, <1>3, <1>4, <1>5, <1>6, <1>7, <1>8, <1>9, <1>10, Zenon DEF FlowNext, FlowReactor

\* flow_control.cpp's counters are what is queued, running or reserved, less what a close
\* gave back in the middle of a request that was dispatched all the same: whoever closes,
\* wherever the reactor is, and whatever continuation leases read.
THEOREM AccountsStayExact == FlowSpec => []AccountingExact
<1>1. FlowInit => FlowInv /\ QueuedInv /\ CountInv
  BY InitFlow, InitQueued, InitCount, Zenon
<1>2. FlowInv /\ QueuedInv /\ CountInv /\ [FlowNext]_flowVars => (FlowInv /\ QueuedInv /\ CountInv)'
  BY FlowStep, QueuedStep, CountStep, Zenon
<1>3. CountInv => AccountingExact
  BY Zenon DEF CountInv, Exact, AccountingExact, AccountedOf, UnbackedOf, Weight
<1> QED
  BY <1>1, <1>2, <1>3, PTL DEF FlowSpec

\* A connection is paused or about to be looked at, or has room for one more request.
Room(c) ==
    \/ paused[c] \/ (cur = c /\ readPc \in {"check", "pause"})
    \/ reqs[c] < RequestCap /\ (Strict \/ bytes[c] + MaxMessage <= ByteCap)

\* InputBounded is not inductive without it.
BoundInv == InputBounded /\ \A c \in Conns : Room(c)

\* What the limits leave room for.
LEMMA Caps ==
    ASSUME FlowInv
    PROVE  /\ RequestCap \in Nat /\ ByteCap \in Nat /\ MaxRequests <= RequestCap
           /\ Strict => ByteCap = MaxBytes
           /\ ~Strict => /\ Cardinality(PoolWorkers) + 1 <= RequestCap
                         /\ MaxBytes - 1 + MaxMessage <= ByteCap
                         /\ Cardinality(PoolWorkers) * MaxMessage + MaxMessage <= ByteCap
<1>1. PICK n \in Nat : n = Cardinality(PoolWorkers)
  BY LimitsAssumption, FS_CardinalityType, Zenon
<1>2. MaxMessage \in Nat /\ MaxBytes \in Nat \ {0} /\ MaxRequests \in Nat \ {0}
  BY LimitsAssumption, Zenon
<1>3. PICK p \in Nat : p = n * MaxMessage
  BY <1>1, <1>2
<1>4. RequestCap = (IF Strict THEN MaxRequests ELSE Larger(MaxRequests, n + 1))
  BY <1>1, Zenon DEF RequestCap
<1>5. ByteCap = (IF Strict THEN MaxBytes ELSE Larger(MaxBytes - 1, p) + MaxMessage)
  BY <1>1, <1>3, Zenon DEF ByteCap
<1>6. /\ Larger(MaxRequests, n + 1) \in Nat /\ n + 1 <= Larger(MaxRequests, n + 1)
      /\ MaxRequests <= Larger(MaxRequests, n + 1)
  BY <1>2 DEF Larger
<1>7. /\ Larger(MaxBytes - 1, p) \in Nat /\ MaxBytes - 1 <= Larger(MaxBytes - 1, p)
      /\ p <= Larger(MaxBytes - 1, p)
  BY <1>2 DEF Larger
<1>8. RequestCap \in Nat /\ MaxRequests <= RequestCap /\ (~Strict => n + 1 <= RequestCap)
  BY <1>2, <1>4, <1>6
<1>9. /\ ByteCap \in Nat /\ (Strict => ByteCap = MaxBytes)
      /\ ~Strict => MaxBytes - 1 + MaxMessage <= ByteCap /\ p + MaxMessage <= ByteCap
  BY <1>2, <1>5, <1>7
<1> QED
  BY <1>1, <1>3, <1>8, <1>9, Zenon

\* The caps are constants of a server.
LEMMA SameCaps ==
    ASSUME UNCHANGED maxTotal
    PROVE  Strict' = Strict /\ RequestCap' = RequestCap /\ ByteCap' = ByteCap
  BY Zenon DEF Strict, RequestCap, ByteCap

\* Below the limits there is room.
LEMMA BelowHasRoom ==
    ASSUME FlowInv, NEW n \in Int, NEW b \in Int, n < MaxRequests, b < MaxBytes
    PROVE  n < RequestCap /\ (Strict \/ b + MaxMessage <= ByteCap)
<1>1. MaxMessage \in Nat /\ MaxBytes \in Nat /\ MaxRequests \in Nat
  BY LimitsAssumption, Zenon
<1>2. RequestCap \in Nat /\ ByteCap \in Nat /\ MaxRequests <= RequestCap
  BY Caps, Zenon
<1>3. ~Strict => MaxBytes - 1 + MaxMessage <= ByteCap
  BY Caps, Zenon
<1> QED
  BY <1>1, <1>2, <1>3

\* Nothing is added to the counts, and a connection that had no room is still paused or
\* about to be looked at, or has room now.
LEMMA BoundKept ==
    ASSUME FlowInv, FlowInv', BoundInv, UNCHANGED maxTotal, total' <= total,
           \A c \in Conns : reqs'[c] <= reqs[c] /\ bytes'[c] <= bytes[c],
           \A c \in Conns : paused[c] \/ (cur = c /\ readPc \in {"check", "pause"}) => Room(c)'
    PROVE  BoundInv'
<1>1. /\ \A c \in Conns : reqs[c] \in Int /\ reqs'[c] \in Int /\ bytes[c] \in Int /\ bytes'[c] \in Int
      /\ total \in Int /\ total' \in Int /\ maxTotal \in Nat
  BY Zenon DEF FlowInv, FlowTypes, CounterTypes
<1>2. /\ Strict' = Strict /\ RequestCap' = RequestCap /\ ByteCap' = ByteCap
      /\ RequestCap \in Nat /\ ByteCap \in Nat /\ MaxMessage \in Nat
  BY SameCaps, Caps, LimitsAssumption, Zenon
<1>3. \A c \in Conns : reqs[c] <= RequestCap /\ bytes[c] <= ByteCap
  BY Zenon DEF BoundInv, InputBounded
<1>4. \A c \in Conns : reqs'[c] <= RequestCap /\ bytes'[c] <= ByteCap
  BY <1>1, <1>2, <1>3
<1>5. Strict => total' <= maxTotal
  BY <1>1 DEF BoundInv, InputBounded
<1>6. InputBounded'
  BY <1>2, <1>4, <1>5, Zenon DEF InputBounded
<1>7. ASSUME NEW c \in Conns PROVE Room(c)'
  <2>1. CASE paused[c] \/ (cur = c /\ readPc \in {"check", "pause"})
    BY <2>1, Zenon
  <2>2. CASE reqs[c] < RequestCap /\ (Strict \/ bytes[c] + MaxMessage <= ByteCap)
    <3>1. reqs'[c] < RequestCap /\ (Strict \/ bytes'[c] + MaxMessage <= ByteCap)
      BY <1>1, <1>2, <2>2
    <3> QED
      BY <1>2, <3>1, Zenon DEF Room
  <2> QED
    BY <2>1, <2>2, Zenon DEF BoundInv, Room
<1> QED
  BY <1>6, <1>7, Zenon DEF BoundInv

\* resume_paused_connections resumes only connections below the low-water marks, which
\* are below the limits.
LEMMA ResumedHasRoom ==
    ASSUME FlowInv, NEW released, ResumePaused(released), UNCHANGED <<reqs, bytes, cur, maxTotal>>,
           readPc \in {"check", "pause"} => readPc' = readPc
    PROVE  \A c \in Conns : paused[c] \/ (cur = c /\ readPc \in {"check", "pause"}) => Room(c)'
<1>1. paused \in [Conns -> BOOLEAN] /\ \A c \in Conns : reqs[c] \in Int /\ bytes[c] \in Int
  BY Zenon DEF FlowInv, FlowTypes, CounterTypes
<1>2. paused' = [c \in Conns |-> paused[c] /\ c \notin Resumable(released)]
  BY Zenon DEF ResumePaused
<1>3. MaxRequests \div 2 < MaxRequests /\ MaxBytes \div 2 < MaxBytes
  BY LimitsAssumption
<1>4. ASSUME NEW c \in Conns, c \in Resumable(released)
      PROVE  reqs[c] < RequestCap /\ (Strict \/ bytes[c] + MaxMessage <= ByteCap)
  <2>1. reqs[c] \in 0..(MaxRequests \div 2) /\ bytes[c] \in 0..(MaxBytes \div 2)
    BY <1>4, Zenon DEF Resumable, BelowResumeWatermark, AtMost
  <2>2. reqs[c] \in Int /\ bytes[c] \in Int /\ reqs[c] < MaxRequests /\ bytes[c] < MaxBytes
    BY <1>3, <2>1, LimitsAssumption
  <2> QED
    BY <2>2, BelowHasRoom, Zenon
<1>5. Strict' = Strict /\ RequestCap' = RequestCap /\ ByteCap' = ByteCap
  BY SameCaps, Zenon
<1> QED
  BY <1>1, <1>2, <1>4, <1>5, Zenon DEF Room

\* A reservation is made within both limits.
LEMMA ReserveBound ==
    ASSUME FlowInv, FlowInv', BoundInv, UNCHANGED maxTotal, ReserveConnection \/ ReserveGlobal
    PROVE  BoundInv'
<1>1. /\ \A c \in Conns : reqs[c] \in Int /\ bytes[c] \in Int
      /\ total \in Int /\ maxTotal \in Nat /\ cur \in Conns /\ bytes \in [Conns -> Int]
      /\ Parsing /\ FlowTypes
  BY Zenon DEF FlowInv, FlowTypes, CounterTypes
<1>2. Strict /\ consumed[cur] % 2 = 1 /\ UNCHANGED <<reqs, paused, cur>> /\ readPc \notin {"check", "pause"}
  BY <1>1, Zenon DEF Parsing, ReserveConnection, ReserveGlobal, gates
<1>3. PICK size \in Nat : size = SizeOf(Current)
  BY <1>1, <1>2, CurrentType, Zenon DEF Current
<1>4. /\ Strict' = Strict /\ RequestCap' = RequestCap /\ ByteCap' = ByteCap /\ ByteCap = MaxBytes
      /\ MaxBytes \in Nat
  BY <1>2, SameCaps, Caps, LimitsAssumption, Zenon
<1>5. /\ \A c \in Conns : reqs[c] <= RequestCap /\ bytes[c] <= ByteCap
      /\ total <= maxTotal /\ \A c \in Conns : Room(c)
  BY <1>2, Zenon DEF BoundInv, InputBounded
<1>6. \A c \in Conns : Room(c)'
  BY <1>2, <1>4, <1>5, Zenon DEF Room
<1>7. CASE ReserveConnection
  <2>1. total' = total
    BY <1>7, Zenon DEF ReserveConnection
  <2>2. \/ bytes' = [bytes EXCEPT ![cur] = @]
        \/ bytes' = [bytes EXCEPT ![cur] = @ + size] /\ bytes[cur] \in 0..(MaxBytes - size)
    BY <1>3, <1>7, Zenon DEF ReserveConnection, AtMost
  <2>3. /\ bytes'[cur] = bytes[cur] \/ (bytes'[cur] = bytes[cur] + size /\ bytes[cur] \in 0..(MaxBytes - size))
        /\ \A c \in Conns : c # cur => bytes'[c] = bytes[c]
    BY <1>1, <2>2, Zenon
  <2>4. bytes'[cur] <= MaxBytes
    <3>1. bytes[cur] <= MaxBytes
      BY <1>1, <1>4, <1>5, Zenon
    <3> QED
      BY <1>1, <1>4, <2>3, <3>1
  <2>5. \A c \in Conns : reqs'[c] <= RequestCap /\ bytes'[c] <= ByteCap
    BY <1>2, <1>4, <1>5, <2>3, <2>4, Zenon
  <2> QED
    BY <1>4, <1>5, <1>6, <2>1, <2>5, Zenon DEF BoundInv, InputBounded
<1>8. CASE ReserveGlobal
  <2>1. bytes' = bytes /\ (total' = total \/ (total' = total + size /\ total \in 0..(maxTotal - size)))
    BY <1>3, <1>8, Zenon DEF ReserveGlobal, AtMost
  <2>2. total' <= maxTotal
    BY <1>1, <1>5, <2>1
  <2> QED
    BY <1>2, <1>4, <1>5, <1>6, <2>1, <2>2, Zenon DEF BoundInv, InputBounded
<1> QED
  BY <1>7, <1>8, Zenon

\* A dispatched request fits: the connection was not paused.
LEMMA DispatchBound ==
    ASSUME FlowInv, FlowInv', BoundInv, UNCHANGED maxTotal, Dispatch PROVE BoundInv'
<1>1. /\ reqs \in [Conns -> Int] /\ bytes \in [Conns -> Int] /\ maxTotal \in Nat /\ cur \in Conns
      /\ total \in Int /\ Parsing /\ FlowTypes
  BY Zenon DEF FlowInv, FlowTypes, CounterTypes
<1>2. /\ readPc = "parse" /\ readPc' = "check" /\ UNCHANGED <<cur, paused>> /\ consumed[cur] % 2 = 1
      /\ reqs' = [reqs EXCEPT ![cur] = @ + 1]
  BY Zenon DEF Dispatch, gates
<1>3. ~paused[cur]
  BY <1>1, <1>2, Zenon DEF Parsing
<1>4. SizeOf(Current) \in 1..MaxMessage
  BY <1>1, <1>2, CurrentType, RequestType, Zenon DEF Current
<1>5. PICK size \in Nat : /\ size = (IF Strict THEN 0 ELSE SizeOf(Current))
                          /\ bytes' = [bytes EXCEPT ![cur] = @ + size] /\ total' = total + size
  <2>1. (IF Strict THEN 0 ELSE SizeOf(Current)) \in Nat
    BY <1>4, LimitsAssumption
  <2> QED
    BY <2>1, Zenon DEF Dispatch
<1>6. size <= MaxMessage /\ MaxMessage \in Nat /\ (Strict => size = 0)
  BY <1>4, <1>5, LimitsAssumption
<1>7. /\ Strict' = Strict /\ RequestCap' = RequestCap /\ ByteCap' = ByteCap
      /\ RequestCap \in Nat /\ ByteCap \in Nat
  BY SameCaps, Caps, Zenon
<1>8. /\ reqs[cur] < RequestCap /\ (Strict \/ bytes[cur] + MaxMessage <= ByteCap)
      /\ bytes[cur] <= ByteCap /\ reqs[cur] \in Int /\ bytes[cur] \in Int
  BY <1>1, <1>2, <1>3, Zenon DEF BoundInv, Room, InputBounded
<1>9. /\ reqs'[cur] = reqs[cur] + 1 /\ bytes'[cur] = bytes[cur] + size
      /\ \A c \in Conns : c # cur => reqs'[c] = reqs[c] /\ bytes'[c] = bytes[c]
  BY <1>1, <1>2, <1>5, Zenon
<1>10. reqs'[cur] <= RequestCap /\ bytes'[cur] <= ByteCap
  BY <1>6, <1>7, <1>8, <1>9
<1>11. Strict => total' <= maxTotal
  BY <1>1, <1>5, <1>6 DEF BoundInv, InputBounded
<1>12. InputBounded'
  BY <1>7, <1>9, <1>10, <1>11, Zenon DEF BoundInv, InputBounded
<1>13. \A c \in Conns : Room(c)'
  BY <1>2, <1>7, <1>9, Zenon DEF BoundInv, Room
<1> QED
  BY <1>12, <1>13, Zenon DEF BoundInv

\* The weight of a set is at most its size times the longest message's.
LEMMA WeightBound ==
    ASSUME NEW S \in SUBSET Requests, IsFiniteSet(S)
    PROVE  Weight(S) <= Cardinality(S) * MaxMessage
<1>1. MaxMessage \in Nat
  BY LimitsAssumption, Zenon
<1>2. IsFiniteSet(1..MaxMessage) /\ Cardinality(1..MaxMessage) = MaxMessage
  <2>1. 1 \in Int /\ MaxMessage \in Int
    BY <1>1
  <2>2. /\ IsFiniteSet(1..MaxMessage)
        /\ Cardinality(1..MaxMessage) = IF 1 > MaxMessage THEN 0 ELSE MaxMessage - 1 + 1
    BY <2>1, FS_Interval, Zenon
  <2> QED
    BY <1>1, <2>2
<1>3. IsFiniteSet(S \X (1..MaxMessage)) /\ Cardinality(S \X (1..MaxMessage)) = Cardinality(S) * MaxMessage
  BY <1>2, FS_Product, Zenon
<1>4. BytesOf(S) \in SUBSET (S \X (1..MaxMessage))
  <2> SUFFICES ASSUME NEW r \in S, NEW b \in {r} \X (1..SizeOf(r)) PROVE b \in S \X (1..MaxMessage)
    BY Zenon DEF BytesOf
  <2>1. SizeOf(r) \in 1..MaxMessage
    BY RequestType, Zenon
  <2>2. 1..SizeOf(r) \subseteq 1..MaxMessage
    BY <1>1, <2>1
  <2> QED
    BY <2>2
<1> QED
  BY <1>3, <1>4, FS_Subset, Zenon DEF Weight

\* More requests may weigh more.
LEMMA ProductGrows ==
    ASSUME NEW m \in Nat, NEW n \in Nat, NEW p \in Nat, m + 1 <= n PROVE m * p + p <= n * p
<1>1. PICK d \in Nat : n = m + 1 + d
  <2>1. n - (m + 1) \in Nat /\ n = m + 1 + (n - (m + 1))
    OBVIOUS
  <2> QED
    BY <2>1, Zenon
<1>2. n * p = m * p + p + d * p
  BY <1>1
<1>3. d * p \in Nat /\ m * p \in Nat /\ n * p \in Nat
  OBVIOUS
<1> QED
  BY <1>2, <1>3

\* Nothing of a leased connection is active: each other worker has at most one request
\* of it, answered and not released yet.
LEMMA LeasedHasFew ==
    ASSUME FlowInv, CountInv, NEW w \in PoolWorkers, poolPc[w] = "continue", NEW k \in Conns,
           k = poolReq[w][1]
    PROVE  /\ reqs[k] + 1 <= Cardinality(PoolWorkers)
           /\ bytes[k] + MaxMessage <= Cardinality(PoolWorkers) * MaxMessage
<1>1. k \in leased /\ Leases /\ Parsing /\ 0 # 1
  BY DEF FlowInv, Leases
<1>2. Executing(k) = {} /\ QueuedOf(k) = {} /\ consumed[k] % 2 = 0
  BY <1>1, Zenon DEF Leases
<1> DEFINE V == {v \in PoolWorkers : poolPc[v] = "release" /\ poolReq[v][1] = k}
<1> DEFINE f == [v \in V |-> poolReq[v]]
<1>3. f \in Surjection(V, OutstandingOf(k))
  <2>1. \A v \in V : f[v] \in OutstandingOf(k)
    BY Zenon DEF OutstandingOf, Outstanding
  <2>2. ASSUME NEW r \in OutstandingOf(k) PROVE \E v \in V : f[v] = r
    <3>1. r \in Outstanding /\ r[1] = k
      BY Zenon DEF OutstandingOf
    <3>2. CASE \E i \in DOMAIN pendingJobs : r = pendingJobs[i]
      BY <1>2, <3>1, <3>2, Zenon DEF QueuedOf
    <3>3. CASE \E v \in PoolWorkers : poolPc[v] \in {"running", "closed", "release"} /\ r = poolReq[v]
      <4>1. PICK v \in PoolWorkers : poolPc[v] \in {"running", "closed", "release"} /\ r = poolReq[v]
        BY <3>3, Zenon
      <4>2. poolPc[v] \notin {"running", "closed"}
        BY <1>2, <3>1, <4>1, Zenon DEF Executing
      <4> QED
        BY <3>1, <4>1, <4>2, Zenon
    <3> QED
      BY <3>1, <3>2, <3>3, Zenon DEF Outstanding
  <2> QED
    BY <2>1, <2>2, Zenon DEF Surjection
<1>4. w \notin V /\ V \in SUBSET (PoolWorkers \ {w})
  BY Zenon
<1> HIDE DEF V, f
<1>5. /\ IsFiniteSet(PoolWorkers \ {w})
      /\ Cardinality(PoolWorkers \ {w}) = Cardinality(PoolWorkers) - 1
      /\ Cardinality(PoolWorkers) \in Nat
  BY LimitsAssumption, FS_RemoveElement, FS_CardinalityType, Zenon
<1>6. /\ IsFiniteSet(V) /\ Cardinality(V) <= Cardinality(PoolWorkers \ {w})
  BY <1>4, <1>5, FS_Subset, Zenon
<1>7. Cardinality(OutstandingOf(k)) <= Cardinality(V)
  BY <1>3, <1>6, FS_Surjection, Zenon
<1>8. Cardinality(V) \in Nat /\ Cardinality(OutstandingOf(k)) \in Nat
  BY <1>6, CountFacts, FS_CardinalityType, Zenon
<1>9. Cardinality(OutstandingOf(k)) + 1 <= Cardinality(PoolWorkers)
  <2>1. Cardinality(V) <= Cardinality(PoolWorkers) - 1
    BY <1>5, <1>6, Zenon
  <2> QED
    BY <1>5, <1>7, <1>8, <2>1
<1>10. reqs[k] = Cardinality(OutstandingOf(k))
  BY Zenon DEF CountInv, Exact
<1>11. ReservedOf(k) = {}
  BY <1>1, <1>2, Zenon DEF Parsing, ReservedOf
<1>12. AccountedOf(k) = OutstandingOf(k)
  BY <1>11, Zenon DEF AccountedOf
<1>13. bytes[k] = Weight(OutstandingOf(k)) - Weight(UnbackedOf(k))
  BY <1>12, Zenon DEF CountInv, Exact
<1>14. /\ Weight(OutstandingOf(k)) \in Nat /\ Weight(UnbackedOf(k)) \in Nat
       /\ Weight(OutstandingOf(k)) <= Cardinality(OutstandingOf(k)) * MaxMessage
  BY <1>12, CountFacts, WeightBound, Zenon
<1>15. MaxMessage \in Nat
  BY LimitsAssumption, Zenon
<1>16. Cardinality(OutstandingOf(k)) * MaxMessage + MaxMessage <= Cardinality(PoolWorkers) * MaxMessage
  BY <1>5, <1>8, <1>9, <1>15, ProductGrows, Zenon
<1>17. PICK p \in Nat, q \in Nat : /\ p = Cardinality(OutstandingOf(k)) * MaxMessage
                                   /\ q = Cardinality(PoolWorkers) * MaxMessage
  BY <1>5, <1>8, <1>15
<1>18. p + MaxMessage <= q /\ Weight(OutstandingOf(k)) <= p
  BY <1>14, <1>16, <1>17, Zenon
<1>19. bytes[k] + MaxMessage <= q
  BY <1>13, <1>14, <1>15, <1>18
<1> QED
  BY <1>9, <1>10, <1>17, <1>19, Zenon

\* A continuation read does not test the watermarks, and needs none of them.
LEMMA ContinueBound ==
    ASSUME FlowInv, CountInv, FlowInv', BoundInv, UNCHANGED maxTotal, NEW w \in PoolWorkers, Continue(w)
    PROVE  BoundInv'
<1>1. PICK k : k = poolReq[w][1]
  BY Zenon
<1>2. k \in Conns /\ k \in leased /\ ~Strict /\ <<k, consumed[k] \div 2 + 1>> \in Requests
  BY <1>1, ContinueType, Zenon
<1>3. PICK size \in Nat : size = SizeOf(<<k, consumed[k] \div 2 + 1>>) /\ size \in 1..MaxMessage
  BY <1>2, RequestType, Zenon
<1>4. /\ reqs' = [reqs EXCEPT ![k] = @ + 1] /\ bytes' = [bytes EXCEPT ![k] = @ + size]
      /\ paused' = [paused EXCEPT ![k] = FALSE] /\ UNCHANGED <<cur, readPc>> /\ poolPc[w] = "continue"
  BY <1>1, <1>3, Zenon DEF Continue, reactor
<1>5. /\ reqs \in [Conns -> Int] /\ bytes \in [Conns -> Int] /\ paused \in [Conns -> BOOLEAN]
      /\ reqs[k] \in Int /\ bytes[k] \in Int
  BY <1>2, Zenon DEF FlowInv, FlowTypes, CounterTypes
<1>6. /\ reqs'[k] = reqs[k] + 1 /\ bytes'[k] = bytes[k] + size
      /\ \A c \in Conns : c # k => reqs'[c] = reqs[c] /\ bytes'[c] = bytes[c] /\ paused'[c] = paused[c]
  BY <1>2, <1>4, <1>5, Zenon
<1>7. /\ Strict' = Strict /\ RequestCap' = RequestCap /\ ByteCap' = ByteCap
      /\ RequestCap \in Nat /\ ByteCap \in Nat /\ MaxMessage \in Nat
      /\ Cardinality(PoolWorkers) + 1 <= RequestCap
      /\ Cardinality(PoolWorkers) * MaxMessage + MaxMessage <= ByteCap
  BY <1>2, SameCaps, Caps, LimitsAssumption, Zenon
<1>8. PICK n \in Nat : n = Cardinality(PoolWorkers)
  BY LimitsAssumption, FS_CardinalityType, Zenon
<1>9. PICK p \in Nat : p = n * MaxMessage
  BY <1>7
<1>10. reqs[k] + 1 <= n /\ bytes[k] + MaxMessage <= p
  BY <1>1, <1>2, <1>4, <1>8, <1>9, LeasedHasFew, Zenon
<1>11. n + 1 <= RequestCap /\ p + MaxMessage <= ByteCap
  BY <1>7, <1>8, <1>9, Zenon
<1>12. /\ reqs'[k] <= RequestCap /\ reqs'[k] < RequestCap
       /\ bytes'[k] <= ByteCap /\ bytes'[k] + MaxMessage <= ByteCap
  BY <1>3, <1>5, <1>6, <1>7, <1>10, <1>11
<1>13. \A c \in Conns : reqs'[c] <= RequestCap /\ bytes'[c] <= ByteCap
  BY <1>6, <1>12, Zenon DEF BoundInv, InputBounded
<1>14. InputBounded'
  BY <1>2, <1>7, <1>13, Zenon DEF InputBounded
<1>15. ASSUME NEW c \in Conns PROVE Room(c)'
  <2>1. CASE c = k
    BY <1>7, <1>12, <2>1, Zenon DEF Room
  <2>2. CASE c # k
    BY <1>4, <1>6, <1>7, <2>2, Zenon DEF BoundInv, Room
  <2> QED
    BY <2>1, <2>2, Zenon
<1> QED
  BY <1>14, <1>15, Zenon DEF BoundInv

\* Initially nothing is counted.
LEMMA InitBound == FlowInit => BoundInv
<1> SUFFICES ASSUME FlowInit PROVE BoundInv
  BY Zenon
<1>1. FlowInv
  BY InitFlow, Zenon
<1>2. /\ total = 0 /\ maxTotal \in Nat
      /\ \A c \in Conns : reqs[c] = 0 /\ bytes[c] = 0
  BY <1>1, Zenon DEF FlowInit, FlowInv, FlowTypes, CounterTypes
<1>3. 0 \in Int /\ 0 < MaxRequests /\ 0 < MaxBytes
  BY LimitsAssumption
<1>4. 0 < RequestCap /\ (Strict \/ 0 + MaxMessage <= ByteCap)
  BY <1>1, <1>3, BelowHasRoom, Zenon
<1>5. 0 <= RequestCap /\ 0 <= ByteCap
  <2>1. RequestCap \in Nat /\ ByteCap \in Nat
    BY <1>1, Caps, Zenon
  <2> QED
    BY <2>1
<1>6. 0 <= maxTotal
  BY <1>2
<1> QED
  BY <1>2, <1>4, <1>5, <1>6, Zenon DEF BoundInv, InputBounded, Room

\* A count that is given back.
LEMMA Lowered ==
    ASSUME NEW f \in [Conns -> Int], NEW k \in Conns, NEW n \in Nat, NEW g, g = [f EXCEPT ![k] = @ - n]
    PROVE  \A c \in Conns : g[c] <= f[c]
<1>1. \A c \in Conns : f[c] \in Int
  BY Zenon
<1>2. g[k] = f[k] - n /\ \A c \in Conns : c # k => g[c] = f[c]
  BY Zenon
<1>3. f[k] - n <= f[k] /\ \A c \in Conns : f[c] <= f[c]
  BY <1>1
<1> QED
  BY <1>2, <1>3, Zenon

\* A close, a rollback and a release only lower the counts.
LEMMA LowerBound ==
    ASSUME FlowInv, FlowInv', BoundInv, UNCHANGED <<maxTotal, paused>>,
           \/ ReserveRollback \/ CloseConsumed \/ \E c \in Conns : Close(c)
           \/ \E w \in PoolWorkers : Overflow(w) \/ Release(w)
    PROVE  BoundInv'
<1>1. /\ reqs \in [Conns -> Int] /\ bytes \in [Conns -> Int] /\ total \in Int /\ cur \in Conns
      /\ Parsing /\ FlowTypes /\ WorkTypes /\ \A c \in Conns : reqs[c] \in Int /\ bytes[c] \in Int
  BY Zenon DEF FlowInv, FlowTypes, CounterTypes
<1>2. ASSUME NEW k \in Conns, NEW n \in Nat, NEW m \in Nat, NEW t \in Nat,
             bytes' = [bytes EXCEPT ![k] = @ - n], total' = total - t,
             reqs' = [reqs EXCEPT ![k] = @ - m],
             readPc \in {"check", "pause"} => UNCHANGED <<readPc, cur>>
      PROVE  BoundInv'
  <2>1. \A c \in Conns : reqs'[c] <= reqs[c] /\ bytes'[c] <= bytes[c]
    BY <1>1, <1>2, Lowered, Zenon
  <2>2. total' <= total
    BY <1>1, <1>2
  <2>3. \A c \in Conns : paused[c] \/ (cur = c /\ readPc \in {"check", "pause"}) => Room(c)'
    BY <1>2, Zenon DEF Room
  <2> QED
    BY <2>1, <2>2, <2>3, BoundKept, Zenon
<1>3. ASSUME UNCHANGED reqs, NEW k \in Conns PROVE reqs' = [reqs EXCEPT ![k] = @ - 0]
  <2>1. reqs[k] - 0 = reqs[k]
    BY <1>1
  <2> QED
    BY <1>1, <1>3, <2>1, Zenon
<1>4. total - 0 = total /\ 0 \in Nat /\ 1 \in Nat
  BY <1>1
<1>5. CASE ReserveRollback
  <2>1. /\ readPc = "rollback" /\ bytes' = [bytes EXCEPT ![cur] = @ - SizeOf(Current)]
        /\ UNCHANGED <<reqs, total>>
    BY <1>5, Zenon DEF ReserveRollback
  <2>2. SizeOf(Current) \in Nat
    BY <1>1, <2>1, CurrentType, Zenon DEF Parsing, Current
  <2> QED
    BY <1>1, <1>2, <1>3, <1>4, <2>1, <2>2, Zenon
<1>6. ASSUME NEW k \in Conns, Closing(k), UNCHANGED reqs,
             readPc \in {"check", "pause"} => UNCHANGED <<readPc, cur>>
      PROVE  BoundInv'
  <2>1. PICK held : /\ held = (IF reserved[k] THEN SizeOf(Parsed(k)) ELSE 0)
                    /\ bytes' = [bytes EXCEPT ![k] = @ - held] /\ total' = total - held
    BY <1>6, Zenon DEF Closing
  <2>2. reserved[k] => SizeOf(Parsed(k)) \in Nat
    BY <1>1, CurrentType, Zenon DEF Parsing
  <2>3. held \in Nat
    BY <2>1, <2>2
  <2> QED
    BY <1>2, <1>3, <1>4, <1>6, <2>1, <2>3, Zenon
<1>7. CASE CloseConsumed
  BY <1>1, <1>6, <1>7, Zenon DEF CloseConsumed
<1>8. CASE \E c \in Conns : Close(c)
  BY <1>6, <1>8, Zenon DEF Close
<1>9. ASSUME NEW w \in PoolWorkers, poolPc[w] # "idle"
      PROVE  poolReq[w][1] \in Conns /\ SizeOf(poolReq[w]) \in Nat
  BY <1>1, <1>9, RequestType, Zenon DEF WorkTypes
<1>10. ASSUME NEW w \in PoolWorkers, Overflow(w) PROVE BoundInv'
  <2>1. poolPc[w] # "idle" /\ Closing(poolReq[w][1]) /\ UNCHANGED <<reqs, readPc, cur>>
    BY <1>10, Zenon DEF Overflow, reactor
  <2>2. PICK k \in Conns : k = poolReq[w][1]
    BY <1>9, <2>1, Zenon
  <2> QED
    BY <1>6, <2>1, <2>2, Zenon
<1>11. ASSUME NEW w \in PoolWorkers, Release(w) PROVE BoundInv'
  <2>1. /\ poolPc[w] # "idle" /\ UNCHANGED <<readPc, cur>>
        /\ bytes' = [bytes EXCEPT ![poolReq[w][1]] = @ - SizeOf(poolReq[w])]
        /\ reqs' = [reqs EXCEPT ![poolReq[w][1]] = @ - 1] /\ total' = total - SizeOf(poolReq[w])
    BY <1>11, Zenon DEF Release, reactor
  <2>2. PICK k \in Conns, n \in Nat : k = poolReq[w][1] /\ n = SizeOf(poolReq[w])
    BY <1>9, <2>1, Zenon
  <2> QED
    BY <1>2, <1>4, <2>1, <2>2, Zenon
<1> QED
  BY <1>5, <1>7, <1>8, <1>10, <1>11, Zenon

\* The steps that leave the counts alone.
LEMMA SameBound ==
    ASSUME FlowInv, FlowInv', BoundInv, UNCHANGED <<maxTotal, reqs, bytes, total>>,
           \A c \in Conns : paused[c] \/ (cur = c /\ readPc \in {"check", "pause"}) => Room(c)'
    PROVE  BoundInv'
<1>1. \A c \in Conns : reqs[c] \in Int /\ bytes[c] \in Int /\ total \in Int
  BY Zenon DEF FlowInv, FlowTypes, CounterTypes
<1>2. \A c \in Conns : reqs'[c] <= reqs[c] /\ bytes'[c] <= bytes[c]
  BY <1>1
<1>3. total' <= total
  BY DEF FlowInv, FlowTypes, CounterTypes
<1> QED
  BY <1>2, <1>3, BoundKept, Zenon

\* The reactor's own steps.
LEMMA ReactorBound ==
    ASSUME FlowInv, FlowInv', BoundInv, UNCHANGED maxTotal,
           \/ Read \/ ParseDone \/ ParseHeader \/ PauseIfNeeded \/ Pause \/ CloseResume
           \/ \E c \in Conns : ClientSends(c) \/ ReadableEvent(c) \/ ProcessResumed(c)
    PROVE  BoundInv'
<1>1. UNCHANGED <<reqs, bytes, total>>
  BY Zenon DEF Read, ParseDone, ParseHeader, PauseIfNeeded, Pause, CloseResume, ClientSends,
         ReadableEvent, ProcessResumed, counters
<1>2. cur \in Conns /\ paused \in [Conns -> BOOLEAN] /\ \A c \in Conns : reqs[c] \in Int /\ bytes[c] \in Int
  BY Zenon DEF FlowInv, FlowTypes, CounterTypes
<1>3. CASE CloseResume
  <2>1. ResumePaused(cur) /\ readPc = "release" /\ UNCHANGED cur
    BY <1>3, Zenon DEF CloseResume
  <2> QED
    BY <1>1, <2>1, ResumedHasRoom, SameBound, Zenon
<1>4. CASE PauseIfNeeded
  <2>1. /\ readPc = "check" /\ readPc' = IF AbovePauseWatermark(cur) THEN "pause" ELSE "parse"
        /\ UNCHANGED <<cur, paused>>
    BY <1>4, Zenon DEF PauseIfNeeded, gates
  <2>2. ASSUME ~AbovePauseWatermark(cur)
        PROVE  reqs[cur] < RequestCap /\ (Strict \/ bytes[cur] + MaxMessage <= ByteCap)
    <3>1. reqs[cur] < MaxRequests /\ bytes[cur] < MaxBytes
      BY <1>2, <2>2, LimitsAssumption DEF AbovePauseWatermark, AtLeast
    <3> QED
      BY <1>2, <3>1, BelowHasRoom, Zenon
  <2>3. \A c \in Conns : paused[c] \/ (cur = c /\ readPc \in {"check", "pause"}) => Room(c)'
    BY <1>1, <2>1, <2>2, SameCaps, Zenon DEF Room
  <2> QED
    BY <1>1, <2>3, SameBound, Zenon
<1>5. CASE Pause
  <2>1. paused' = [paused EXCEPT ![cur] = TRUE]
    BY <1>5, Zenon DEF Pause
  <2>2. \A c \in Conns : paused[c] \/ cur = c => paused'[c]
    BY <1>2, <2>1, Zenon
  <2>3. \A c \in Conns : paused[c] \/ (cur = c /\ readPc \in {"check", "pause"}) => Room(c)'
    BY <2>2, Zenon DEF Room
  <2> QED
    BY <1>1, <2>3, SameBound, Zenon
<1>6. CASE \E c \in Conns : ClientSends(c)
  <2>1. UNCHANGED <<cur, readPc, paused>>
    BY <1>6, Zenon DEF ClientSends, gates, reactor
  <2>2. \A c \in Conns : paused[c] \/ (cur = c /\ readPc \in {"check", "pause"}) => Room(c)'
    BY <2>1, Zenon DEF Room
  <2> QED
    BY <1>1, <2>2, SameBound, Zenon
<1>7. CASE Read \/ ParseDone \/ ParseHeader \/ \E c \in Conns : ReadableEvent(c) \/ ProcessResumed(c)
  <2>1. readPc \notin {"check", "pause"} /\ UNCHANGED paused
    BY <1>7, Zenon DEF Read, ParseDone, ParseHeader, ReadableEvent, ProcessResumed, gates
  <2>2. \A c \in Conns : paused[c] \/ (cur = c /\ readPc \in {"check", "pause"}) => Room(c)'
    BY <2>1, Zenon DEF Room
  <2> QED
    BY <1>1, <2>2, SameBound, Zenon
<1> QED
  BY <1>3, <1>4, <1>5, <1>6, <1>7, Zenon

\* The workers'.
LEMMA WorkerBound ==
    ASSUME FlowInv, CountInv, FlowInv', BoundInv, UNCHANGED maxTotal, NEW w \in PoolWorkers, PoolWorker(w)
    PROVE  BoundInv'
<1>1. UNCHANGED <<cur, readPc>>
  BY WorkerKeeps, Zenon
<1>2. CASE Continue(w)
  BY <1>2, ContinueBound, Zenon
<1>3. CASE Overflow(w) \/ Release(w)
  <2>1. UNCHANGED paused
    BY <1>3, Zenon DEF Overflow, Release, gates
  <2> QED
    BY <1>3, <2>1, LowerBound, Zenon
<1>4. CASE OverflowResume(w) \/ Resume(w)
  <2>1. ResumePaused(poolReq[w][1]) /\ UNCHANGED <<reqs, bytes, total>>
    BY <1>4, Zenon DEF OverflowResume, Resume, counters
  <2>2. PICK released : released = poolReq[w][1]
    BY Zenon
  <2>3. \A c \in Conns : paused[c] \/ (cur = c /\ readPc \in {"check", "pause"}) => Room(c)'
    BY <1>1, <2>1, <2>2, ResumedHasRoom, Zenon
  <2> QED
    BY <2>1, <2>3, SameBound, Zenon
<1>5. CASE TakeJob(w) \/ Respond(w) \/ AcquireLease(w) \/ ContinueNothing(w)
  <2>1. UNCHANGED <<reqs, bytes, total>>
    BY <1>5, Zenon DEF TakeJob, Respond, AcquireLease, ContinueNothing, counters
  <2>2. \A c \in Conns : paused[c] => paused'[c]
    <3>1. CASE ContinueNothing(w)
      <4>1. poolPc[w] = "continue" /\ paused' = [paused EXCEPT ![poolReq[w][1]] = FALSE]
        BY <3>1, Zenon DEF ContinueNothing
      <4>2. ~paused[poolReq[w][1]] /\ paused \in [Conns -> BOOLEAN]
        BY <4>1, Zenon DEF FlowInv, Leases, FlowTypes, CounterTypes
      <4> QED
        BY <4>1, <4>2, Zenon
    <3>2. CASE ~ContinueNothing(w)
      BY <1>5, <3>2, Zenon DEF TakeJob, Respond, AcquireLease, gates
    <3> QED
      BY <3>1, <3>2, Zenon
  <2>3. \A c \in Conns : paused[c] \/ (cur = c /\ readPc \in {"check", "pause"}) => Room(c)'
    BY <1>1, <2>2, Zenon DEF Room
  <2> QED
    BY <2>1, <2>3, SameBound, Zenon
<1> QED
  BY <1>2, <1>3, <1>4, <1>5, Zenon DEF PoolWorker

\* Every step keeps the bounds.
LEMMA BoundStep == FlowInv /\ CountInv /\ FlowInv' /\ BoundInv /\ [FlowNext]_flowVars => BoundInv'
<1> SUFFICES ASSUME FlowInv, CountInv, FlowInv', BoundInv, [FlowNext]_flowVars PROVE BoundInv'
  BY Zenon
<1>1. CASE UNCHANGED flowVars
  <2>1. UNCHANGED <<maxTotal, reqs, bytes, total, cur, readPc, paused>>
    BY <1>1, Zenon DEF flowVars, counters, gates, reactor
  <2> QED
    BY <2>1, SameBound, Zenon DEF Room
<1>2. CASE FlowNext
  <2>1. UNCHANGED maxTotal
    BY <1>2, Zenon DEF FlowNext
  <2>2. CASE ReserveRollback \/ CloseConsumed \/ \E c \in Conns : Close(c)
    <3>1. UNCHANGED paused
      BY <2>2, Zenon DEF ReserveRollback, CloseConsumed, Close, gates
    <3> QED
      BY <2>1, <2>2, <3>1, LowerBound, Zenon
  <2>3. CASE ReserveConnection \/ ReserveGlobal
    BY <2>1, <2>3, ReserveBound, Zenon
  <2>4. CASE Dispatch
    BY <2>1, <2>4, DispatchBound, Zenon
  <2>5. CASE \/ Read \/ ParseDone \/ ParseHeader \/ PauseIfNeeded \/ Pause \/ CloseResume
             \/ \E c \in Conns : ClientSends(c) \/ ReadableEvent(c) \/ ProcessResumed(c)
    BY <2>1, <2>5, ReactorBound, Zenon
  <2>6. CASE \E w \in PoolWorkers : PoolWorker(w)
    BY <2>1, <2>6, WorkerBound, Zenon
  <2> QED
    BY <1>2, <2>2, <2>3, <2>4, <2>5, <2>6, Zenon DEF FlowNext, FlowReactor
<1> QED
  BY <1>1, <1>2, Zenon

\* A connection's requests and bytes stay within its limits, up to the message that is
\* parsed before they are tested and the one each worker may still have when a
\* continuation lease reads past them; with a budget they never exceed either limit, nor
\* the server's its budget.
THEOREM InputWithinLimits == FlowSpec => []InputBounded
<1>1. FlowInit => FlowInv /\ QueuedInv /\ CountInv /\ BoundInv
  BY InitFlow, InitQueued, InitCount, InitBound, Zenon
<1>2. FlowInv /\ QueuedInv /\ CountInv /\ BoundInv /\ [FlowNext]_flowVars
         => (FlowInv /\ QueuedInv /\ CountInv /\ BoundInv)'
  BY FlowStep, QueuedStep, CountStep, BoundStep, Zenon
<1>3. BoundInv => InputBounded
  BY Zenon DEF BoundInv
<1> QED
  BY <1>1, <1>2, <1>3, PTL DEF FlowSpec
=============================================================================
