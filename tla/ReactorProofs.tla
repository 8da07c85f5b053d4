---------------------------- MODULE ReactorProofs ----------------------------
(***************************************************************************)
(* Proofs about the reactor and what it waits for: the words of a frame,   *)
(* the waits of wait_for_io, and the lease of a connection, which one      *)
(* thread at a time reads and whose requests active_regular counts, for    *)
(* any number of workers and frames.                                       *)
(***************************************************************************)
EXTENDS WireCodec, Deadlines, ConnectionLease, SequenceTheorems,
        FiniteSetTheorems, TLAPS

\* Every step is tried with SMT and Zenon and, where a loaded machine needs it, with
\* SMT for longer.
USE SMT, Zenon, SMTT(30)

-----------------------------------------------------------------------------
\* The words of a frame.

\* The four bytes of put_u32 are bytes, and get_u32 recovers the word from them:
\* no value of the 32-bit fields is truncated or reordered.
LEMMA WordRoundTrip ==
    ASSUME NEW v \in U32
    PROVE  /\ \A i \in 1..4 : PutU32(v)[i] \in 0..255
           /\ GetU32(PutU32(v)) = v
<1> DEFINE a == v \div 256
           b == v \div (256 * 256)
           c == v \div (256 * 256 * 256)
<1>1. v \in Nat /\ v < 256 * 256 * 256 * 256
  BY SMT DEF U32
<1>2. a \in Nat /\ b \in Nat /\ c \in Nat /\ c <= 255
  BY <1>1, SMT
<1>3. v = a * 256 + (v % 256) /\ v % 256 \in 0..255
  BY <1>1, SMT
<1>4. a = b * 256 + (a % 256) /\ a % 256 \in 0..255
  BY <1>1, SMT
<1>5. b = c * 256 + (b % 256) /\ b % 256 \in 0..255
  BY <1>1, SMT
<1>6. PutU32(v) = <<c % 256, b % 256, a % 256, v % 256>>
  BY SMT DEF PutU32
<1> HIDE DEF a, b, c
<1>7. c % 256 = c /\ c \in 0..255
  BY <1>2, SMT
<1>8. \A i \in 1..4 : PutU32(v)[i] \in 0..255
  BY <1>3, <1>4, <1>5, <1>6, <1>7, SMT
<1>9. GetU32(PutU32(v)) = v
  BY <1>1, <1>2, <1>3, <1>4, <1>5, <1>6, <1>7, SMT DEF GetU32
<1> QED
  BY <1>8, <1>9, Zenon

\* The two flag bytes recover the 16-bit flags.
LEMMA FlagsRoundTrip ==
    ASSUME NEW type, NEW id, NEW arg1, NEW arg2, NEW version, NEW flags \in U16
    PROVE  Flags(EncodeHeader(type, id, arg1, arg2, flags, version)) = flags
<1>1. ((flags \div 256) % 256) * 256 + (flags % 256) = flags
  <2>1. flags \in Nat /\ flags \div 256 <= 255
    BY SMT DEF U16
  <2> QED
    BY <2>1, SMT
<1> QED
  BY <1>1, SMT DEF Flags, EncodeHeader

\* Every header that encode_header builds decodes to the values it was built from.
THEOREM HeaderRoundTrip ==
    ASSUME NEW type, NEW version, NEW id \in U32, NEW arg1 \in U32, NEW arg2 \in U32,
           NEW flags \in U16
    PROVE  DecodeHeader(EncodeHeader(type, id, arg1, arg2, flags, version))
             = [type |-> type, id |-> id, arg1 |-> arg1, arg2 |-> arg2,
                flags |-> flags, version |-> version]
<1> DEFINE h == EncodeHeader(type, id, arg1, arg2, flags, version)
<1>1. /\ h.type = type /\ h.version = version
      /\ h.id = PutU32(id) /\ h.arg1 = PutU32(arg1) /\ h.arg2 = PutU32(arg2)
  BY Zenon DEF EncodeHeader
<1>2. GetU32(h.id) = id /\ GetU32(h.arg1) = arg1 /\ GetU32(h.arg2) = arg2
  BY <1>1, WordRoundTrip, Zenon
<1>3. Flags(h) = flags
  BY FlagsRoundTrip
<1>4. DecodeHeader(h) = [type |-> h.type, id |-> GetU32(h.id), arg1 |-> GetU32(h.arg1),
                         arg2 |-> GetU32(h.arg2), flags |-> Flags(h), version |-> h.version]
  BY Zenon DEF DecodeHeader
<1> QED
  BY <1>1, <1>2, <1>3, <1>4, Zenon

\* decode_header refuses none of the frames the library sends: requests and stream
\* frames without flags, the one-shot request that carries a descriptor, and the
\* cancellation of a request in the version that has it.
THEOREM SentIsAccepted ==
    ASSUME NEW version \in Versions, NEW type \in 1..9,
           NEW id \in U32, NEW arg1 \in U32, NEW arg2 \in U32, NEW flags \in {0, CarriesFd},
           flags = CarriesFd => type = Types.request /\ id = 0,
           type = Types.cancelRequest =>
               version = Cancellable /\ id # 0 /\ arg1 = 0 /\ arg2 = 0
    PROVE  Accepts(EncodeHeader(type, id, arg1, arg2, flags, version))
<1> DEFINE h == EncodeHeader(type, id, arg1, arg2, flags, version)
<1>1. /\ h.magic = Magic /\ h.type = type /\ h.version = version
      /\ h.id = PutU32(id) /\ h.arg1 = PutU32(arg1) /\ h.arg2 = PutU32(arg2)
  BY Zenon DEF EncodeHeader
<1>2. GetU32(h.id) = id /\ GetU32(h.arg1) = arg1 /\ GetU32(h.arg2) = arg2
  BY <1>1, WordRoundTrip, Zenon
<1>3. flags \in U16
  BY SMT DEF U16, CarriesFd
<1>4. Flags(h) = flags
  BY <1>3, FlagsRoundTrip
<1>5. Types.request # Types.cancelRequest /\ Types.request = 1 /\ Types.cancelRequest = 9
  BY DEF Types
<1> HIDE DEF h
<1>6. Accepts(h)
  BY <1>1, <1>2, <1>4, <1>5 DEF Accepts, CarriesFd, CarriesHandle, Versions, Cancellable
<1> QED
  BY <1>6, Zenon DEF h

-----------------------------------------------------------------------------
\* The waits of wait_for_io.

\* Division by the length of a millisecond rounds down by less than one.
LEMMA Quotient ==
    ASSUME NEW x \in Nat, NEW m \in Nat \ {0}
    PROVE  /\ x \div m \in Nat
           /\ (x \div m) * m <= x
           /\ x < (x \div m) * m + m
<1>1. /\ x = (x \div m) * m + (x % m)
      /\ x % m \in 0..(m - 1)
      /\ x \div m \in Int
  BY SMT
<1> DEFINE q == x \div m
           r == x % m
<1>2. x = q * m + r /\ r \in 0..(m - 1) /\ q \in Int
  BY <1>1, Zenon
<1> HIDE DEF q, r
<1>3. q \in Nat
  BY <1>2, SMTT(30)
<1> QED
  BY <1>2, <1>3, SMT DEF q

\* The deadline of a timeout, for every clock, every length of a millisecond and
\* every timeout the clock can count.
THEOREM DeadlineIsKept == DeadlineKept
<1> SUFFICES ASSUME NEW start \in Clock, NEW ms \in 0..ClockMax
             PROVE  LET d == DeadlineFrom(start, ms)
                    IN  /\ d = None <=> ms = 0
                        /\ d \in start..ClockMax
                        /\ ms # 0 => \/ d = start + ms * TicksPerMs
                                          \/ /\ d = ClockMax - 1
                                             /\ start + (ms + 1) * TicksPerMs > d
  BY Zenon DEF DeadlineKept
<1> DEFINE q == (ClockMax - start) \div TicksPerMs
<1>1. /\ ClockMax \in Nat /\ start \in Nat /\ start < ClockMax
      /\ ms \in Nat /\ TicksPerMs \in Nat \ {0}
  BY ClockAssumption, SMT DEF Clock
<1>2. /\ q \in Nat
      /\ q * TicksPerMs <= ClockMax - start
      /\ ClockMax - start < q * TicksPerMs + TicksPerMs
  <2>1. ClockMax - start \in Nat
    BY <1>1, SMT
  <2> QED
    BY <2>1, <1>1, Quotient, Zenon
<1>3. DeadlineFrom(start, ms) = IF ms = 0 THEN ClockMax
                                   ELSE IF ms >= q THEN ClockMax - 1
                                   ELSE start + ms * TicksPerMs
  BY Zenon DEF DeadlineFrom, None
<1> HIDE DEF q
<1>4. CASE ms = 0
  BY <1>1, <1>3, <1>4, SMT DEF None
<1>5. CASE ms # 0 /\ ms >= q
  <2>1. q * TicksPerMs <= ms * TicksPerMs
    BY <1>1, <1>2, <1>5, SMTT(30)
  <2>2. (ms + 1) * TicksPerMs = ms * TicksPerMs + TicksPerMs
    BY <1>1, SMT
  <2>3. start + (ms + 1) * TicksPerMs > ClockMax - 1
    BY <1>1, <1>2, <2>1, <2>2, SMT
  <2> QED
    BY <1>1, <1>3, <1>5, <2>3, SMT DEF None
<1>6. CASE ms # 0 /\ ms < q
  <2>1. ms * TicksPerMs + TicksPerMs <= q * TicksPerMs
    BY <1>1, <1>2, <1>6, SMTT(30)
  <2>2. ms * TicksPerMs \in Nat
    BY <1>1, SMT
  <2>3. DeadlineFrom(start, ms) = start + ms * TicksPerMs
    BY <1>1, <1>2, <1>3, <1>6, SMT
  <2> QED
    BY <1>1, <1>2, <2>1, <2>2, <2>3, <1>6, SMT DEF None
<1> QED
  BY <1>1, <1>2, <1>4, <1>5, <1>6, SMT

\* The wait of a poll, for every clock, every length of a millisecond and every
\* longest wait.
THEOREM PollIsCovered == PollCovers
<1> SUFFICES ASSUME NEW at \in Clock, NEW limit \in 0..ClockMax
             PROVE  LET t == PollTimeout(at, limit)
                    IN  /\ t = -1 <=> limit = None
                        /\ t = 0 <=> limit # None /\ at >= limit
                        /\ t > 0 => /\ t * TicksPerMs >= limit - at \/ t = IntMax
                                    /\ (t - 1) * TicksPerMs < limit - at
  BY Zenon DEF PollCovers
<1>1. /\ ClockMax \in Nat /\ at \in Nat /\ limit \in Nat
      /\ TicksPerMs \in Nat \ {0} /\ IntMax \in Nat \ {0}
  BY ClockAssumption, SMT DEF Clock
<1>2. CASE limit = None
  BY <1>1, <1>2, SMT DEF PollTimeout, None
<1>3. CASE limit # None /\ at >= limit
  BY <1>1, <1>3, SMT DEF PollTimeout, None
<1>4. CASE limit # None /\ at < limit
  <2> DEFINE c == CeilMs(limit - at)
             t == PollTimeout(at, limit)
  <2>1. limit - at \in Nat \ {0} /\ limit - at + TicksPerMs - 1 \in Nat
    BY <1>1, <1>4, SMT
  <2>2. /\ c \in Nat
        /\ c * TicksPerMs <= limit - at + TicksPerMs - 1
        /\ limit - at + TicksPerMs - 1 < c * TicksPerMs + TicksPerMs
    BY <1>1, <2>1, Quotient, Zenon DEF CeilMs
  <2>3. t = Smaller(c, IntMax)
    BY <1>1, <1>4, SMT DEF PollTimeout
  <2> HIDE DEF c
  <2>4. c * TicksPerMs >= limit - at
    BY <1>1, <2>1, <2>2, SMT
  <2>5. c # 0
    BY <1>1, <2>1, <2>4, SMT
  <2>6. (c - 1) * TicksPerMs = c * TicksPerMs - TicksPerMs
    BY <1>1, <2>2, SMT
  <2>7. (c - 1) * TicksPerMs < limit - at
    BY <1>1, <2>1, <2>2, <2>6, SMT
  <2>8. CASE c < IntMax
    BY <1>1, <1>4, <2>2, <2>3, <2>4, <2>5, <2>7, <2>8, SMT DEF Smaller, None
  <2>9. CASE ~(c < IntMax)
    <3>1. t = IntMax /\ IntMax <= c
      BY <1>1, <2>2, <2>3, <2>9, SMT DEF Smaller
    <3>2. (IntMax - 1) * TicksPerMs <= (c - 1) * TicksPerMs
      BY <1>1, <2>2, <3>1, SMTT(30)
    <3>3. (IntMax - 1) * TicksPerMs < limit - at
      BY <1>1, <2>1, <2>2, <2>7, <3>2, SMT
    <3> QED
      BY <1>1, <1>4, <3>1, <3>3, SMT DEF None
  <2> QED
    BY <2>8, <2>9, Zenon
<1> QED
  BY <1>2, <1>3, <1>4, <1>1, SMT DEF None

-----------------------------------------------------------------------------
\* Between the steps of wait_for_io: its deadline is the earlier of the two limits,
\* and a poll is as long as the remaining time, rounded up, or the longest possible.
WaitInv ==
    /\ now \in Clock /\ begun \in Clock /\ begun <= now
    /\ timeout \in 0..ClockMax /\ absolute \in 0..ClockMax
    /\ until \in Int
    /\ wait # "call" => deadline = WaitDeadline(begun, timeout, absolute)
    /\ wait = "poll" =>
           \/ until = -1 /\ deadline = None
           \/ /\ until \in Nat /\ deadline # None
              /\ until < deadline + TicksPerMs
              /\ until >= deadline \/ until >= begun + IntMax * TicksPerMs
    /\ wait = "timed_out" =>
           /\ deadline # None
           /\ now >= deadline \/ now >= begun + IntMax * TicksPerMs

\* The deadline of a wait in terms of the limits it was given.
LEMMA DeadlineOfWait ==
    ASSUME NEW start \in Clock, NEW ms \in 0..ClockMax, NEW limit \in 0..ClockMax
    PROVE  LET d == WaitDeadline(start, ms, limit)
           IN  /\ d \in 0..ClockMax
               /\ d = None <=> ms = 0 /\ limit = None
               /\ d <= limit
               /\ ms # 0 => d < start + (ms + 1) * TicksPerMs
               /\ d # None /\ d # limit =>
                      ms # 0 /\ (d = start + ms * TicksPerMs \/ d = ClockMax - 1)
<1>1. /\ ClockMax \in Nat /\ start \in Nat /\ start < ClockMax /\ ms \in Nat /\ limit \in Nat
      /\ TicksPerMs \in Nat \ {0}
  BY ClockAssumption, SMT DEF Clock
<1> DEFINE e == DeadlineFrom(start, ms)
           d == WaitDeadline(start, ms, limit)
<1>2. /\ e = None <=> ms = 0
      /\ e \in start..ClockMax
      /\ ms # 0 => \/ e = start + ms * TicksPerMs
                   \/ e = ClockMax - 1 /\ start + (ms + 1) * TicksPerMs > e
  BY DeadlineIsKept, Zenon DEF DeadlineKept
<1>3. d = IF ms > 0 THEN IF limit < e THEN limit ELSE e ELSE limit
  BY Zenon DEF WaitDeadline, Smaller
<1>4. (ms + 1) * TicksPerMs = ms * TicksPerMs + TicksPerMs /\ ms * TicksPerMs \in Nat
  BY <1>1, SMT
<1> HIDE DEF e, d
<1>5. CASE ms = 0
  BY <1>1, <1>3, <1>5, SMT DEF d, None
<1>6. CASE ms # 0
  <2>1. e \in Nat /\ e < ClockMax /\ e < start + (ms + 1) * TicksPerMs
    BY <1>1, <1>2, <1>4, <1>6, SMT DEF None
  <2>2. d \in Nat /\ d <= e /\ d <= limit /\ (d = limit \/ d = e)
    BY <1>1, <1>3, <1>6, <2>1, SMT
  <2>3. (ms + 1) * TicksPerMs \in Nat
    BY <1>1, <1>4, SMT
  <2> QED
    BY <1>1, <1>2, <1>6, <2>1, <2>2, <2>3, SMT DEF d, None
<1> QED
  BY <1>1, <1>5, <1>6, SMT

\* A wait that has not begun has no deadline to keep.
LEMMA WaitInvInit == WaitInit => WaitInv
  BY ClockAssumption DEF WaitInit, WaitInv, Clock

\* Every step of wait_for_io keeps the invariant; only StartPoll needs the arithmetic.
LEMMA WaitInvStep == WaitInv /\ [WaitNext]_waitVars => WaitInv'
<1> SUFFICES ASSUME WaitInv, [WaitNext]_waitVars PROVE WaitInv'
  BY Zenon
<1>1. /\ ClockMax \in Nat \ {0} /\ TicksPerMs \in Nat \ {0} /\ IntMax \in Nat \ {0}
      /\ now \in Nat /\ begun \in Nat /\ now < ClockMax
  BY ClockAssumption, SMT DEF WaitInv, Clock
<1>2. CASE WaitForIo
  BY <1>1, <1>2 DEF WaitInv, WaitForIo
<1>3. CASE StartPoll
  <2> DEFINE t == PollTimeout(now, deadline)
  <2>1. deadline \in 0..ClockMax
    BY <1>3, DeadlineOfWait DEF WaitInv, StartPoll
  <2>2. /\ t = -1 <=> deadline = None
        /\ t = 0 <=> deadline # None /\ now >= deadline
        /\ t > 0 => /\ t * TicksPerMs >= deadline - now \/ t = IntMax
                    /\ (t - 1) * TicksPerMs < deadline - now
    BY <2>1, PollIsCovered, Zenon DEF PollCovers, WaitInv
  <2>3. CASE deadline = None
    BY <1>1, <1>3, <2>3 DEF WaitInv, StartPoll
  <2>4. CASE deadline # None
    <3>1. until' = now + t * TicksPerMs /\ t # 0
      BY <1>3, <2>4, Zenon DEF StartPoll
    <3>2. t \in Nat \ {0}
      <4>1. now < deadline /\ deadline - now \in Nat \ {0}
        BY <1>1, <2>1, <2>2, <2>4, <3>1, SMT
      <4>2. t = Smaller(CeilMs(deadline - now), IntMax)
        BY <1>1, <2>1, <2>4, <4>1, SMT DEF PollTimeout
      <4>3. CeilMs(deadline - now) \in Nat
        <5>1. deadline - now + TicksPerMs - 1 \in Nat
          BY <1>1, <4>1, SMT
        <5> QED
          BY <5>1, <1>1, Quotient, Zenon DEF CeilMs
      <4>4. t \in Nat
        BY <1>1, <4>2, <4>3, Zenon DEF Smaller
      <4> QED
        BY <3>1, <4>4, Zenon
    <3> HIDE DEF t
    <3>3. (t - 1) * TicksPerMs = t * TicksPerMs - TicksPerMs /\ t * TicksPerMs \in Nat
      BY <1>1, <3>2, SMT
    <3>4. until' \in Nat /\ until' < deadline + TicksPerMs
      BY <1>1, <2>1, <2>2, <3>1, <3>2, <3>3, SMT
    <3>5. until' >= deadline \/ until' >= begun + IntMax * TicksPerMs
      <4>1. CASE t = IntMax
        <5>1. until' = now + IntMax * TicksPerMs /\ IntMax * TicksPerMs \in Nat /\ begun <= now
          BY <3>1, <3>3, <4>1, Zenon DEF WaitInv
        <5> QED
          BY <1>1, <5>1, SMT
      <4>2. CASE t # IntMax
        BY <1>1, <2>1, <2>2, <3>1, <3>2, <3>3, <4>2, SMT
      <4> QED
        BY <4>1, <4>2, Zenon
    <3> QED
      BY <1>3, <2>4, <3>4, <3>5 DEF WaitInv, StartPoll
  <2> QED
    BY <2>3, <2>4, Zenon
<1>4. CASE Expired
  <2>1. deadline \in 0..ClockMax
    BY <1>4, DeadlineOfWait DEF WaitInv, Expired
  <2>2. deadline # None /\ now >= deadline
    BY <1>4, <2>1, PollIsCovered, Zenon DEF PollCovers, WaitInv, Expired
  <2> QED
    BY <1>4, <2>2, Zenon DEF WaitInv, Expired
<1>5. CASE PollReturns
  BY <1>5 DEF WaitInv, PollReturns
<1>6. CASE PollTimesOut
  <2>1. /\ until \in Nat /\ deadline # None /\ now >= until
        /\ until >= deadline \/ until >= begun + IntMax * TicksPerMs
    BY <1>6, Zenon DEF WaitInv, PollTimesOut
  <2>2. deadline \in 0..ClockMax
    BY <1>6, DeadlineOfWait, Zenon DEF WaitInv, PollTimesOut
  <2>3. begun + IntMax * TicksPerMs \in Nat
    BY <1>1, SMT
  <2>4. now >= deadline \/ now >= begun + IntMax * TicksPerMs
    BY <1>1, <2>1, <2>2, <2>3, SMT
  <2> QED
    BY <1>6, <2>1, <2>4, Zenon DEF WaitInv, PollTimesOut
<1>7. CASE Tick
  <2>1. now' = now + 1 /\ now' \in Clock /\ begun <= now' /\ wait # "timed_out"
    BY <1>1, <1>7 DEF Tick, WaitInv
  <2> QED
    BY <1>7, <2>1, Zenon DEF WaitInv, Tick
<1>8. CASE WaitEnded \/ UNCHANGED waitVars
  BY <1>8, Zenon DEF WaitInv, WaitEnded, waitVars
<1> QED
  BY <1>2, <1>3, <1>4, <1>5, <1>6, <1>7, <1>8, Zenon DEF WaitNext

\* wait_for_io keeps its limits, for every clock, timeout, absolute deadline and
\* longest poll, and however often it is interrupted.
THEOREM WaitIsKept == WaitSpec => []WaitKept
<1>1. WaitInv => WaitKept
  <2> SUFFICES ASSUME WaitInv PROVE WaitKept
    BY Zenon
  <2>1. /\ ClockMax \in Nat \ {0} /\ TicksPerMs \in Nat \ {0} /\ IntMax \in Nat \ {0}
        /\ now \in Nat /\ begun \in Nat /\ now < ClockMax /\ timeout \in Nat /\ absolute \in Nat
    BY ClockAssumption, SMT DEF WaitInv, Clock
  <2> DEFINE end == begun + timeout * TicksPerMs
  <2>2. /\ end \in Nat
        /\ begun + (timeout + 1) * TicksPerMs = end + TicksPerMs
        /\ begun + (timeout + 2) * TicksPerMs = end + TicksPerMs + TicksPerMs
    BY <2>1, SMT
  <2> HIDE DEF end
  <2>3. ASSUME wait # "call"
        PROVE  /\ deadline \in Nat
               /\ deadline = None <=> timeout = 0 /\ absolute = None
               /\ deadline <= absolute
               /\ timeout # 0 => deadline < end + TicksPerMs
               /\ deadline # None /\ deadline # absolute =>
                      timeout # 0 /\ (deadline = end \/ deadline = ClockMax - 1)
    <3> DEFINE d == WaitDeadline(begun, timeout, absolute)
    <3>1. /\ d \in 0..ClockMax
          /\ d = None <=> timeout = 0 /\ absolute = None
          /\ d <= absolute
          /\ timeout # 0 => d < begun + (timeout + 1) * TicksPerMs
          /\ d # None /\ d # absolute =>
                 timeout # 0 /\ (d = begun + timeout * TicksPerMs \/ d = ClockMax - 1)
      BY DeadlineOfWait, Zenon DEF WaitInv
    <3>2. deadline = d
      BY <2>3, Zenon DEF WaitInv
    <3> HIDE DEF d
    <3>3. end = begun + timeout * TicksPerMs
      BY Zenon DEF end
    <3> QED
      BY <2>1, <2>2, <3>1, <3>2, <3>3, SMT
  <2>4. ASSUME wait = "poll"
        PROVE  /\ until = -1 <=> timeout = 0 /\ absolute = None
               /\ until # -1 => /\ absolute # None => until < absolute + TicksPerMs
                                /\ timeout # 0 => until < begun + (timeout + 2) * TicksPerMs
    <3>1. \/ until = -1 /\ deadline = None
          \/ until \in Nat /\ deadline # None /\ until < deadline + TicksPerMs
      BY <2>4, Zenon DEF WaitInv
    <3> QED
      BY <2>1, <2>2, <2>3, <2>4, <3>1, SMT
  <2>5. ASSUME wait = "timed_out"
        PROVE  \/ absolute # None /\ now >= absolute
               \/ timeout # 0 /\ (now >= end \/ now = ClockMax - 1)
               \/ now >= begun + IntMax * TicksPerMs
    <3>1. deadline # None /\ (now >= deadline \/ now >= begun + IntMax * TicksPerMs)
      BY <2>5, Zenon DEF WaitInv
    <3> QED
      BY <2>1, <2>2, <2>3, <2>5, <3>1, SMT DEF None
  <2>6. end = begun + timeout * TicksPerMs
    BY Zenon DEF end
  <2> QED
    BY <2>4, <2>5, <2>6, Zenon DEF WaitKept
<1> QED
  BY <1>1, WaitInvInit, WaitInvStep, PTL DEF WaitSpec

-----------------------------------------------------------------------------
(* The lease of a connection: who reads. *)

\* A worker that reads the descriptor or may still put it back in the poller.  One
\* that rearms a closing connection will only close it.
Owner(w) == wpc[w] \in {"stream", "reading", "insert"} \/ (wpc[w] = "rearm" /\ ~closing)

StreamJob(i) == i \in 1..Len(jobs) /\ jobs[i] = "stream"

Labels == {"idle", "write", "stream", "complete", "last", "lease", "reading", "rearm",
           "insert", "serialized", "busy"}

LeaseTypes ==
    /\ jobs \in Seq({"fixed", "stream"})
    /\ wpc \in [Workers -> Labels] /\ then \in [Workers -> {"idle", "write", "serialized", "busy"}]
    /\ closing \in BOOLEAN /\ streamActive \in BOOLEAN /\ workerOwned \in BOOLEAN /\ busy \in BOOLEAN

\* The two flags say that the descriptor is handed out.  They are cleared by the
\* owner alone, so they stay set on a connection that was closed meanwhile.
Flagged ==
    /\ \A w \in Workers : Owner(w) => streamActive \/ workerOwned
    /\ \A i \in Nat : StreamJob(i) => streamActive

\* There is one owner, or one stream on its way to a worker, or neither.
OneOwner ==
    /\ \A w, v \in Workers : Owner(w) /\ Owner(v) => w = v
    /\ \A i, j \in Nat : StreamJob(i) /\ StreamJob(j) => i = j
    /\ \A w \in Workers, i \in Nat : ~(Owner(w) /\ StreamJob(i))

\* The reactor parses a connection that is not handed out, and marks it busy, which
\* refuses the continuation lease.
ConsumeAlone == rpc = "consume" => busy /\ ~streamActive /\ ~workerOwned

IInv == LeaseTypes /\ Flagged /\ OneOwner /\ ConsumeAlone

-----------------------------------------------------------------------------
\* The initial state satisfies the inductive invariant.
LEMMA InitInvariant == LeaseInit => IInv
<1> SUFFICES ASSUME LeaseInit PROVE IInv
  BY Zenon
<1>1. jobs = <<>> /\ wpc = [w \in Workers |-> "idle"] /\ then = wpc /\ rpc = "top"
  BY Zenon DEF LeaseInit
<1>2. LeaseTypes
  <2>1. closing \in BOOLEAN /\ streamActive \in BOOLEAN /\ workerOwned \in BOOLEAN /\ busy \in BOOLEAN
    BY Zenon DEF LeaseInit
  <2>2. jobs \in Seq({"fixed", "stream"})
    BY <1>1
  <2>3. wpc \in [Workers -> Labels] /\ then \in [Workers -> {"idle", "write", "serialized", "busy"}]
    BY <1>1, Zenon DEF Labels
  <2> QED
    BY <2>1, <2>2, <2>3, Zenon DEF LeaseTypes
<1>3. \A w \in Workers : ~Owner(w)
  BY <1>1, Zenon DEF Owner
<1>4. \A i \in Nat : ~StreamJob(i)
  BY <1>1 DEF StreamJob
<1> QED
  BY <1>1, <1>2, <1>3, <1>4, Zenon DEF IInv, Flagged, OneOwner, ConsumeAlone

\* The client, the kernel and the reactor outside of consume neither hand the
\* descriptor out nor take it back.
LEMMA QuietStep ==
    ASSUME IInv, UNCHANGED <<jobs, wpc, then, streamActive, workerOwned>>, closing' \in BOOLEAN,
           busy' \in BOOLEAN, closing => closing',
           rpc' = "consume" => busy' /\ ~streamActive /\ ~workerOwned
    PROVE  IInv'
<1>1. LeaseTypes'
  BY Zenon DEF IInv, LeaseTypes
<1>2. Flagged' /\ OneOwner'
  BY Zenon DEF IInv, Flagged, OneOwner, Owner, StreamJob
<1>3. ConsumeAlone'
  BY Zenon DEF ConsumeAlone
<1> QED
  BY <1>1, <1>2, <1>3, Zenon DEF IInv

\* A worker that moves between labels that own nothing, or keeps what it owns.
LEMMA WorkerStep ==
    ASSUME IInv, NEW w \in Workers, NEW pc \in Labels, wpc' = [wpc EXCEPT ![w] = pc],
           UNCHANGED <<jobs, streamActive, workerOwned, busy, rpc>>,
           then' \in [Workers -> {"idle", "write", "serialized", "busy"}],
           closing' \in BOOLEAN, closing => closing',
           Owner(w)' => Owner(w)
    PROVE  IInv'
<1>1. LeaseTypes'
  BY Zenon DEF IInv, LeaseTypes
<1>2. \A v \in Workers : Owner(v)' => Owner(v)
  BY Zenon DEF IInv, LeaseTypes, Owner
<1>3. \A i \in Nat : StreamJob(i)' <=> StreamJob(i)
  BY Zenon DEF StreamJob
<1>4. Flagged' /\ OneOwner'
  BY <1>2, <1>3, Zenon DEF IInv, Flagged, OneOwner
<1>5. ConsumeAlone'
  BY Zenon DEF IInv, ConsumeAlone
<1> QED
  BY <1>1, <1>4, <1>5, Zenon DEF IInv

\* Every step of the reactor keeps the invariant.
LEMMA ReactorStep == IInv /\ (Reactor \/ Timeout \/ ClientSend \/ ClientHangup) => IInv'
<1> SUFFICES ASSUME IInv, Reactor \/ Timeout \/ ClientSend \/ ClientHangup PROVE IInv'
  BY Zenon
<1>0. closing \in BOOLEAN /\ streamActive \in BOOLEAN /\ workerOwned \in BOOLEAN /\ busy \in BOOLEAN
  BY Zenon DEF IInv, LeaseTypes
<1> USE DEF conn, table, client, extra, threads
<1>1. CASE ClientSend \/ ClientHangup \/ Timeout \/ Expire \/ Woken \/ Fetch
  BY <1>0, <1>1, QuietStep, Zenon
     DEF ClientSend, ClientHangup, Timeout, Expire, Woken, Fetch, IInv, ConsumeAlone
<1>2. CASE ExpireClose \/ EventClose
  BY <1>0, <1>2, QuietStep, Zenon DEF ExpireClose, EventClose, CloseConnection
<1>3. CASE HandleEvent
  BY <1>0, <1>3, QuietStep, Zenon DEF HandleEvent
<1>4. CASE ConsumeSerialized
  BY <1>0, <1>4, QuietStep, Zenon DEF ConsumeSerialized, ParseFrame, IInv, ConsumeAlone
<1>5. CASE ConsumeBusy
  <2>1. closing' \in BOOLEAN /\ (closing => closing') /\ UNCHANGED busy
    BY <1>0, <1>5, Zenon DEF ConsumeBusy, WriteSucceeds, WriteFails
  <2>2. rpc' = "consume" => rpc = "consume"
    BY <1>5, Zenon DEF ConsumeBusy
  <2>3. UNCHANGED <<jobs, wpc, then, streamActive, workerOwned>>
    BY <1>5, Zenon DEF ConsumeBusy
  <2> QED
    BY <1>0, <2>1, <2>2, <2>3, QuietStep, Zenon DEF IInv, ConsumeAlone
<1>6. CASE ConsumeBad
  BY <1>0, <1>6, QuietStep, Zenon DEF ConsumeBad, ParseFrame
<1>7. CASE ConsumeEnd
  BY <1>0, <1>7, QuietStep, Zenon DEF ConsumeEnd
\* A fixed request is queued behind what is queued.
<1>8. CASE ConsumeFixed
  <2>1. /\ jobs' = Append(jobs, "fixed") /\ UNCHANGED <<wpc, then, closing, streamActive, workerOwned>>
        /\ UNCHANGED <<busy, rpc>>
    BY <1>8, Zenon DEF ConsumeFixed, ParseFrame
  <2>2. jobs \in Seq({"fixed", "stream"})
    BY Zenon DEF IInv, LeaseTypes
  <2>3. \A i \in Nat : StreamJob(i)' => StreamJob(i)
    BY <2>1, <2>2 DEF StreamJob
  <2>4. \A w \in Workers : Owner(w)' <=> Owner(w)
    BY <2>1, Zenon DEF Owner
  <2>5. LeaseTypes'
    BY <2>1, <2>2 DEF IInv, LeaseTypes
  <2>6. Flagged' /\ OneOwner'
    BY <2>1, <2>3, <2>4, Zenon DEF IInv, Flagged, OneOwner
  <2> QED
    BY <2>1, <2>5, <2>6, Zenon DEF IInv, ConsumeAlone
\* A stream is refused, or is handed out for the first time.
<1>9. CASE ConsumeStream
  <2>1. CASE closing' = TRUE /\ rpc' = "close" /\ UNCHANGED <<streamActive, busy, armed, jobs>>
    <3>1. UNCHANGED <<wpc, then, workerOwned>>
      BY <1>9, Zenon DEF ConsumeStream
    <3> QED
      BY <1>0, <2>1, <3>1, QuietStep, Zenon
  <2>2. CASE jobs' = Append(jobs, "stream") /\ streamActive' = TRUE /\ UNCHANGED closing
             /\ busy' = FALSE /\ rpc' = "top"
    <3>1. jobs \in Seq({"fixed", "stream"}) /\ UNCHANGED <<wpc, then, workerOwned>>
      BY <1>9, Zenon DEF IInv, LeaseTypes, ConsumeStream
    <3>2. ~streamActive /\ ~workerOwned
      BY <1>9, Zenon DEF ConsumeStream, ParseFrame, IInv, ConsumeAlone
    <3>3. \A w \in Workers : ~Owner(w)
      BY <3>2, Zenon DEF IInv, Flagged
    <3>4. \A w \in Workers : ~Owner(w)'
      BY <2>2, <3>1, <3>3, Zenon DEF Owner
    <3>5. \A i \in Nat : StreamJob(i)' => i = Len(jobs) + 1
      <4>1. \A i \in 1..Len(jobs) : jobs'[i] = jobs[i]
        BY <2>2, <3>1
      <4>2. Len(jobs') = Len(jobs) + 1 /\ Len(jobs) \in Nat
        BY <2>2, <3>1
      <4>3. \A i \in Nat : ~StreamJob(i)
        BY <3>2, Zenon DEF IInv, Flagged
      <4> QED
        BY <4>1, <4>2, <4>3 DEF StreamJob
    <3>6. LeaseTypes'
      <4>1. jobs' \in Seq({"fixed", "stream"})
        BY <2>2, <3>1
      <4> QED
        BY <2>2, <3>1, <4>1, Zenon DEF IInv, LeaseTypes
    <3> QED
      BY <2>2, <3>4, <3>5, <3>6, Zenon DEF IInv, Flagged, OneOwner, ConsumeAlone
  <2> QED
    BY <1>9, <2>1, <2>2, Zenon DEF ConsumeStream
<1> QED
  BY <1>1, <1>2, <1>3, <1>4, <1>5, <1>6, <1>7, <1>8, <1>9, Zenon DEF Reactor

\* Every step of a worker keeps the invariant.
LEMMA WorkersStep == ASSUME IInv, NEW w \in Workers, Worker(w) PROVE IInv'
<1>0. /\ closing \in BOOLEAN /\ then \in [Workers -> {"idle", "write", "serialized", "busy"}]
      /\ wpc \in [Workers -> Labels] /\ jobs \in Seq({"fixed", "stream"})
  BY Zenon DEF IInv, LeaseTypes
<1> USE DEF conn, table, client, extra, threads, Goto
<1>L. \A pc \in {"idle", "write", "complete", "last", "lease", "rearm", "insert"} : pc \in Labels
  BY Zenon DEF Labels
\* A stream passes from the queue to its worker.
<1>1. CASE Take(w)
  <2>1. /\ jobs # <<>> /\ jobs' = Tail(jobs) /\ wpc[w] = "idle"
        /\ wpc' = [wpc EXCEPT ![w] = IF Head(jobs) = "stream" THEN "stream" ELSE "write"]
        /\ UNCHANGED <<then, closing, streamActive, workerOwned, busy, rpc>>
    BY <1>1, Zenon DEF Take
  <2>2. /\ jobs' \in Seq({"fixed", "stream"}) /\ Len(jobs') = Len(jobs) - 1 /\ Len(jobs) \in Nat \ {0}
        /\ \A i \in 1..Len(jobs') : jobs'[i] = jobs[i + 1]
        /\ Head(jobs) = jobs[1]
    BY <1>0, <2>1
  <2>3. \A i \in Nat : StreamJob(i)' => StreamJob(i + 1) /\ i # 0
    BY <2>2 DEF StreamJob
  <2>4. \A v \in Workers : Owner(v)' => Owner(v) \/ (v = w /\ StreamJob(1))
    BY <1>0, <2>1, <2>2 DEF Owner, StreamJob
  <2>5. LeaseTypes'
    BY <2>1, <2>2, Zenon DEF IInv, LeaseTypes, Labels
  <2>6. Flagged'
    BY <2>1, <2>3, <2>4 DEF IInv, Flagged
  <2>7. OneOwner'
    <3>1. \A v, u \in Workers : Owner(v)' /\ Owner(u)' => v = u
      BY <2>4, Zenon DEF IInv, OneOwner
    <3>2. ASSUME NEW i \in Nat, NEW j \in Nat, StreamJob(i)', StreamJob(j)' PROVE i = j
      <4>1. StreamJob(i + 1) /\ StreamJob(j + 1) /\ i + 1 \in Nat /\ j + 1 \in Nat
        BY <2>3, <3>2
      <4>2. i + 1 = j + 1
        BY <4>1, Zenon DEF IInv, OneOwner
      <4> QED
        BY <4>2
    <3>3. ASSUME NEW v \in Workers, NEW i \in Nat, Owner(v)', StreamJob(i)' PROVE FALSE
      <4>1. StreamJob(i + 1) /\ i + 1 \in Nat /\ i + 1 # 1
        BY <2>3, <3>3
      <4>2. ~Owner(v)
        BY <4>1, Zenon DEF IInv, OneOwner
      <4>3. StreamJob(1)
        BY <2>4, <3>3, <4>2, Zenon
      <4> QED
        BY <4>1, <4>3, Zenon DEF IInv, OneOwner
    <3> QED
      BY <3>1, <3>2, <3>3, Zenon DEF OneOwner
  <2> QED
    BY <2>1, <2>5, <2>6, <2>7, Zenon DEF IInv, ConsumeAlone
<1>2. CASE Write(w)
  <2>1. wpc' = [wpc EXCEPT ![w] = "complete"] /\ UNCHANGED <<jobs, then, rpc>>
    BY <1>2, Zenon DEF Write
  <2>2. UNCHANGED <<streamActive, workerOwned, busy>>
    BY <1>2, Zenon DEF Write, CloseConnection
  <2>3. (closing => closing') /\ closing' \in BOOLEAN
    BY <1>0, <1>2, Zenon DEF Write, WriteFails, WriteSucceeds, CloseConnection
  <2>4. ~Owner(w)'
    BY <1>0, <2>1, Zenon DEF Owner
  <2> QED
    BY <1>0, <2>1, <2>2, <2>3, <2>4, <1>L, WorkerStep, Zenon
<1>3. CASE Complete(w) \/ LastDone(w) \/ ServeSerialized(w)
  <2>1. \E pc \in {"last", "idle", "lease", "complete"} : wpc' = [wpc EXCEPT ![w] = pc]
    BY <1>3, Zenon DEF Complete, LastDone, ServeSerialized
  <2>2. UNCHANGED <<jobs, then, rpc, closing, streamActive, workerOwned, busy>>
    BY <1>3, Zenon DEF Complete, LastDone, ServeSerialized
  <2>3. ~Owner(w)'
    BY <1>0, <2>1, Zenon DEF Owner
  <2> QED
    BY <1>0, <2>1, <2>2, <2>3, <1>L, WorkerStep, Zenon
\* The lease is granted when nothing is handed out.
<1>4. CASE Lease(w)
  <2>1. CASE Goto(w, "idle") /\ UNCHANGED <<armed, workerOwned>>
    <3>1. ~Owner(w)'
      BY <1>0, <2>1, Zenon DEF Owner
    <3> QED
      BY <1>0, <1>4, <2>1, <3>1, <1>L, WorkerStep, Zenon DEF Lease
  <2>2. CASE ~busy /\ ~streamActive /\ ~workerOwned /\ workerOwned' = TRUE /\ Goto(w, "reading")
    <3>1. UNCHANGED <<jobs, then, rpc, closing, streamActive, busy>>
      BY <1>4, Zenon DEF Lease
    <3>2. (\A v \in Workers : ~Owner(v)) /\ (\A i \in Nat : ~StreamJob(i)) /\ rpc # "consume"
      BY <2>2, Zenon DEF IInv, Flagged, ConsumeAlone
    <3>3. \A v \in Workers : Owner(v)' => v = w
      BY <1>0, <2>2, <3>1, <3>2, Zenon DEF Owner
    <3>4. \A i \in Nat : ~StreamJob(i)'
      BY <3>1, <3>2, Zenon DEF StreamJob
    <3>5. LeaseTypes'
      BY <2>2, <3>1, Zenon DEF IInv, LeaseTypes, Labels
    <3> QED
      BY <2>2, <3>1, <3>2, <3>3, <3>4, <3>5, Zenon DEF IInv, Flagged, OneOwner, ConsumeAlone
  <2> QED
    BY <1>4, <2>1, <2>2, Zenon DEF Lease
<1>5. CASE ReadRequest(w) \/ ReadNothing(w) \/ StreamExchange(w)
  <2>1. wpc' = [wpc EXCEPT ![w] = "rearm"] /\ wpc[w] \in {"reading", "stream"}
    BY <1>5, Zenon DEF ReadRequest, ReadNothing, StreamExchange
  <2>2. UNCHANGED <<jobs, rpc, streamActive, workerOwned, busy>>
    BY <1>5, Zenon DEF ReadRequest, ReadNothing, StreamExchange
  <2>3. closing' \in BOOLEAN /\ (closing => closing')
    BY <1>0, <1>5, Zenon DEF ReadRequest, ReadNothing, StreamExchange
  <2>4. then' \in [Workers -> {"idle", "write", "serialized", "busy"}]
    BY <1>0, <1>5, Zenon DEF ReadRequest, ReadNothing, StreamExchange
  <2>5. Owner(w)
    BY <2>1, Zenon DEF Owner
  <2> QED
    BY <2>1, <2>2, <2>3, <2>4, <2>5, <1>L, WorkerStep, Zenon
<1>6. CASE Rearm(w)
  <2>0. then[w] \in {"idle", "write", "serialized", "busy"} /\ then[w] \in Labels
    BY <1>0, Zenon DEF Labels
  <2>1. CASE closing /\ CloseConnection /\ Goto(w, then[w])
    <3>1. UNCHANGED <<jobs, then, rpc, streamActive, workerOwned, busy>>
      BY <1>6, <2>1, Zenon DEF Rearm, CloseConnection
    <3>2. closing' = TRUE
      BY <2>1, Zenon DEF CloseConnection
    <3>3. ~Owner(w)'
      BY <1>0, <2>0, <2>1, Zenon DEF Owner
    <3> QED
      BY <1>0, <2>0, <2>1, <3>1, <3>2, <3>3, <1>L, WorkerStep, Zenon
  <2>2. CASE ~closing /\ Goto(w, "insert") /\ UNCHANGED <<conn, table>>
    <3>1. Owner(w)
      BY <1>6, <2>2, Zenon DEF Rearm, Owner
    <3> QED
      BY <1>0, <1>6, <2>2, <3>1, <1>L, WorkerStep, Zenon DEF Rearm
  <2> QED
    BY <1>6, <2>1, <2>2, Zenon DEF Rearm
\* The descriptor goes back to the poller: its owner was the only one.
<1>7. CASE Insert(w)
  <2>1. /\ wpc[w] = "insert" /\ wpc' = [wpc EXCEPT ![w] = then[w]] /\ busy' = FALSE
        /\ streamActive' = FALSE /\ workerOwned' = FALSE /\ UNCHANGED <<jobs, closing, rpc, then>>
    BY <1>7, Zenon DEF Insert
  <2>2. Owner(w)
    BY <2>1, Zenon DEF Owner
  <2>3. \A v \in Workers : ~Owner(v)'
    <3>1. then[w] \in {"idle", "write", "serialized", "busy"}
      BY <1>0, Zenon
    <3> QED
      BY <1>0, <2>1, <2>2, <3>1, Zenon DEF IInv, OneOwner, Owner
  <2>4. \A i \in Nat : ~StreamJob(i)'
    BY <2>1, <2>2, Zenon DEF IInv, OneOwner, StreamJob
  <2>5. rpc # "consume"
    BY <2>2, Zenon DEF IInv, Flagged, ConsumeAlone
  <2>6. LeaseTypes'
    BY <1>0, <2>1, Zenon DEF IInv, LeaseTypes, Labels
  <2> QED
    BY <2>1, <2>3, <2>4, <2>5, <2>6, Zenon DEF IInv, Flagged, OneOwner, ConsumeAlone
<1>8. CASE ServeBusy(w)
  <2>1. UNCHANGED <<jobs, rpc, streamActive, workerOwned, busy>>
    BY <1>8, Zenon DEF ServeBusy
  <2>2. CASE WriteSucceeds /\ Goto(w, "complete") /\ UNCHANGED <<then, leaked>>
    <3>1. ~Owner(w)'
      BY <1>0, <2>2, Zenon DEF Owner
    <3> QED
      BY <1>0, <2>1, <2>2, <3>1, <1>L, WorkerStep, Zenon DEF WriteSucceeds
  <2>3. CASE WriteFails /\ Goto(w, "rearm") /\ then' = [then EXCEPT ![w] = "idle"]
    <3>1. closing' = TRUE /\ ~Owner(w)'
      BY <1>0, <2>3, Zenon DEF Owner, WriteFails
    <3>2. then' \in [Workers -> {"idle", "write", "serialized", "busy"}]
      BY <1>0, <2>3, Zenon
    <3> QED
      BY <2>1, <2>3, <3>1, <3>2, <1>L, WorkerStep, Zenon
  <2> QED
    BY <1>8, <2>2, <2>3, Zenon DEF ServeBusy
<1> QED
  BY <1>1, <1>2, <1>3, <1>4, <1>5, <1>6, <1>7, <1>8, Zenon DEF Worker

\* The serialized worker never touches the descriptor.
LEMMA SerialStep == ASSUME IInv, Serial PROVE IInv'
<1>1. UNCHANGED <<jobs, wpc, then, streamActive, workerOwned, busy, rpc>>
  BY Zenon
     DEF Serial, SerialTake, SerialWrite, SerialDone, SerialWake, CloseConnection, conn, table
<1>2. closing' \in BOOLEAN /\ (closing => closing')
  BY Zenon DEF Serial, SerialTake, SerialWrite, SerialDone, SerialWake, CloseConnection, conn,
         WriteFails, WriteSucceeds, IInv, LeaseTypes
<1>3. busy \in BOOLEAN /\ (rpc = "consume" => busy /\ ~streamActive /\ ~workerOwned)
  BY Zenon DEF IInv, LeaseTypes, ConsumeAlone
<1> QED
  BY <1>1, <1>2, <1>3, QuietStep, Zenon

\* The invariant holds in every state.
LEMMA Invariance == LeaseSpec => []IInv
<1>1. IInv /\ [LeaseNext]_leaseVars => IInv'
  <2> SUFFICES ASSUME IInv, [LeaseNext]_leaseVars PROVE IInv'
    BY Zenon
  <2>1. CASE UNCHANGED leaseVars
    <3>1. UNCHANGED <<jobs, wpc, then, streamActive, workerOwned, busy, rpc, closing>>
      BY <2>1, Zenon DEF leaseVars, conn, table, threads
    <3> QED
      BY <3>1, QuietStep, Zenon DEF IInv, LeaseTypes, ConsumeAlone
  <2> QED
    BY <2>1, ReactorStep, WorkersStep, SerialStep, Zenon DEF LeaseNext
<1> QED
  BY InitInvariant, <1>1, PTL DEF LeaseSpec

\* Either the reactor parses frames on the descriptor or one worker owns it: no two
\* threads ever read a connection, through leases, streams, expiry and closing.
THEOREM OneReader == LeaseSpec => []ExclusiveReader
<1>1. IInv => ExclusiveReader
  <2> SUFFICES ASSUME IInv PROVE ExclusiveReader
    BY Zenon
  <2>1. \A w \in Readers : Owner(w)
    BY Zenon DEF Readers, Owner
  <2> QED
    BY <2>1, Zenon DEF IInv, Flagged, ConsumeAlone, OneOwner, ExclusiveReader, Readers
<1> QED
  BY Invariance, <1>1, PTL

-----------------------------------------------------------------------------
(* The lease of a connection: what active_regular counts. *)

QueuedFixed == {i \in DOMAIN jobs : jobs[i] = "fixed"}
Holders == {w \in Workers : HoldsRequest(w)}

\* The count is exact, so the lost requests are a natural number and it is an integer.
AccountInv == leaked \in Nat /\ AccountedIsHeld

LEMMA HoldersFinite == IsFiniteSet(Holders) /\ Cardinality(Holders) \in Nat
<1>1. Holders \in SUBSET Workers
  BY Zenon DEF Holders
<1>2. IsFiniteSet(Holders)
  BY <1>1, KindsAssumption, FS_Subset, Zenon
<1> QED
  BY <1>2, FS_CardinalityType, Zenon

LEMMA NextHoldersFinite == IsFiniteSet(Holders') /\ Cardinality(Holders') \in Nat
<1>1. Holders' \in SUBSET Workers
  BY Zenon DEF Holders
<1>2. IsFiniteSet(Holders')
  BY <1>1, KindsAssumption, FS_Subset, Zenon
<1> QED
  BY <1>2, FS_CardinalityType, Zenon

\* The places of a queue that hold fixed requests are finitely many.
LEMMA FixedFinite ==
    ASSUME NEW q \in Seq({"fixed", "stream"})
    PROVE  LET F == {i \in DOMAIN q : q[i] = "fixed"}
           IN  IsFiniteSet(F) /\ Cardinality(F) \in Nat
<1> DEFINE F == {i \in DOMAIN q : q[i] = "fixed"}
<1>1. Len(q) \in Nat /\ DOMAIN q = 1..Len(q)
  OBVIOUS
<1>2. IsFiniteSet(1..Len(q))
  BY <1>1, FS_Interval
<1>3. F \in SUBSET (1..Len(q))
  BY <1>1, Zenon
<1> HIDE DEF F
<1>4. IsFiniteSet(F) /\ Cardinality(F) \in Nat
  BY <1>2, <1>3, FS_Subset, FS_CardinalityType, Zenon
<1> QED
  BY <1>4, Zenon DEF F

\* A job at the end of the queue is counted when it is a fixed request.
LEMMA AppendCounts ==
    ASSUME NEW q \in Seq({"fixed", "stream"}), NEW x \in {"fixed", "stream"}
    PROVE  Cardinality({i \in DOMAIN Append(q, x) : Append(q, x)[i] = "fixed"})
             = Cardinality({i \in DOMAIN q : q[i] = "fixed"}) + (IF x = "fixed" THEN 1 ELSE 0)
<1> DEFINE a == Append(q, x)
           n == Len(q) + 1
           F == {i \in DOMAIN q : q[i] = "fixed"}
           G == {i \in DOMAIN a : a[i] = "fixed"}
<1>1. /\ DOMAIN q = 1..Len(q) /\ Len(q) \in Nat /\ DOMAIN a = 1..n
      /\ a[n] = x /\ \A i \in 1..Len(q) : a[i] = q[i]
  OBVIOUS
<1>2. n \notin DOMAIN q /\ DOMAIN a = DOMAIN q \cup {n} /\ \A i \in DOMAIN q : a[i] = q[i]
  <2> HIDE DEF a
  <2> QED
    BY <1>1
<1>3. IsFiniteSet(F) /\ Cardinality(F) \in Nat
  BY FixedFinite, Zenon
<1> HIDE DEF a, n
<1>4. CASE x = "fixed"
  <2>1. G = F \cup {n} /\ n \notin F
    BY <1>1, <1>2, <1>4, Zenon
  <2>2. Cardinality(G) = Cardinality(F) + 1
    BY <1>3, <2>1, FS_AddElement, Zenon
  <2> QED
    BY <1>4, <2>2, Zenon DEF a
<1>5. CASE x # "fixed"
  <2>1. G = F
    BY <1>1, <1>2, <1>5, Zenon
  <2> HIDE DEF F, G
  <2>2. Cardinality(G) = Cardinality(F) + 0
    BY <1>3, <2>1
  <2> QED
    BY <1>5, <2>2, Zenon DEF a, F, G
<1> QED
  BY <1>4, <1>5, Zenon

\* The job that a worker takes from the front is no longer counted.
LEMMA TailCounts ==
    ASSUME NEW q \in Seq({"fixed", "stream"}), q # <<>>
    PROVE  Cardinality({i \in DOMAIN Tail(q) : Tail(q)[i] = "fixed"})
             = Cardinality({i \in DOMAIN q : q[i] = "fixed"}) - (IF Head(q) = "fixed" THEN 1 ELSE 0)
<1> DEFINE t == Tail(q)
           F == {i \in DOMAIN q : q[i] = "fixed"}
           G == {i \in DOMAIN t : t[i] = "fixed"}
           shift == [i \in G |-> i + 1]
<1>1. /\ DOMAIN q = 1..Len(q) /\ Len(q) \in Nat /\ Len(q) > 0 /\ DOMAIN t = 1..(Len(q) - 1)
      /\ Head(q) = q[1] /\ \A i \in 1..(Len(q) - 1) : t[i] = q[i + 1]
  OBVIOUS
<1>2. t \in Seq({"fixed", "stream"})
  OBVIOUS
<1>3. /\ IsFiniteSet(F) /\ Cardinality(F) \in Nat
      /\ IsFiniteSet(G) /\ Cardinality(G) \in Nat
  BY <1>2, FixedFinite, Zenon
<1> HIDE DEF t
<1>4. \A i \in G : i \in Int /\ i + 1 \in F \ {1}
  BY <1>1
<1>5. \A j \in F \ {1} : j - 1 \in G /\ j = (j - 1) + 1
  BY <1>1
<1>6. shift \in Bijection(G, F \ {1})
  <2>1. shift \in [G -> F \ {1}]
    BY <1>4, Zenon
  <2>2. \A i, j \in G : shift[i] = shift[j] => i = j
    BY <1>4
  <2>3. \A j \in F \ {1} : \E i \in G : shift[i] = j
    BY <1>5, Zenon
  <2> HIDE DEF shift, F, G
  <2> QED
    BY <2>1, <2>2, <2>3, Zenon DEF Bijection, Injection, Surjection, IsInjective
<1>7. Cardinality(F \ {1}) = Cardinality(G)
  BY <1>3, <1>6, FS_Bijection, Zenon DEF ExistsBijection
<1>8. CASE Head(q) = "fixed"
  <2>1. 1 \in F
    BY <1>1, <1>8
  <2>2. Cardinality(F \ {1}) = Cardinality(F) - 1
    BY <1>3, <2>1, FS_RemoveElement, Zenon
  <2> QED
    BY <1>7, <1>8, <2>2, Zenon DEF t
<1>9. CASE Head(q) # "fixed"
  <2>1. F \ {1} = F
    BY <1>1, <1>9, Zenon
  <2>2. Cardinality(G) = Cardinality(F)
    BY <1>7, <2>1, Zenon
  <2> HIDE DEF F, G
  <2>3. Cardinality(G) = Cardinality(F) - 0
    BY <1>3, <2>2
  <2> QED
    BY <1>9, <2>3, Zenon DEF t, F, G
<1> QED
  BY <1>8, <1>9, Zenon

\* What a worker that moves does to the set of workers that hold a request.
LEMMA HoldersStep ==
    ASSUME NEW w \in Workers,
           \A v \in Workers \ {w} : wpc'[v] = wpc[v] /\ then'[v] = then[v]
    PROVE  /\ (HoldsRequest(w) <=> HoldsRequest(w)') => Cardinality(Holders') = Cardinality(Holders)
           /\ ~HoldsRequest(w) /\ HoldsRequest(w)' => Cardinality(Holders') = Cardinality(Holders) + 1
           /\ HoldsRequest(w) /\ ~HoldsRequest(w)' => Cardinality(Holders') = Cardinality(Holders) - 1
<1>1. \A v \in Workers \ {w} : HoldsRequest(v)' <=> HoldsRequest(v)
  BY Zenon DEF HoldsRequest
<1>2. ASSUME HoldsRequest(w) <=> HoldsRequest(w)' PROVE Cardinality(Holders') = Cardinality(Holders)
  <2>1. Holders' = Holders
    BY <1>1, <1>2, Zenon DEF Holders
  <2> QED
    BY <2>1, Zenon
<1>3. ASSUME ~HoldsRequest(w), HoldsRequest(w)' PROVE Cardinality(Holders') = Cardinality(Holders) + 1
  <2>1. Holders' = Holders \cup {w} /\ w \notin Holders
    BY <1>1, <1>3, Zenon DEF Holders
  <2> QED
    BY <2>1, HoldersFinite, FS_AddElement, Zenon
<1>4. ASSUME HoldsRequest(w), ~HoldsRequest(w)' PROVE Cardinality(Holders') = Cardinality(Holders) - 1
  <2>1. Holders' = Holders \ {w} /\ w \in Holders
    BY <1>1, <1>4, Zenon DEF Holders
  <2> QED
    BY <2>1, HoldersFinite, FS_RemoveElement, Zenon
<1> QED
  BY <1>2, <1>3, <1>4, Zenon

LEMMA InitAccounts == LeaseInit => AccountInv
<1> SUFFICES ASSUME LeaseInit PROVE AccountInv
  BY Zenon
<1>1. /\ active = 0 /\ leaked = 0 /\ jobs = <<>> /\ \A w \in Workers : wpc[w] = "idle"
  BY Zenon DEF LeaseInit
<1>2. QueuedFixed = {}
  BY <1>1 DEF QueuedFixed
<1>3. Holders = {}
  BY <1>1, Zenon DEF Holders, HoldsRequest, Holding
<1>4. Cardinality(QueuedFixed) = 0 /\ Cardinality(Holders) = 0
  BY <1>2, <1>3, FS_EmptySet, Zenon
<1>5. active = Cardinality(QueuedFixed) + Cardinality(Holders) + leaked
  BY <1>1, <1>4
<1> QED
  BY <1>1, <1>5 DEF AccountInv, AccountedIsHeld, QueuedFixed, Holders

\* A step keeps the count exact when it adds to it what it adds to the queue, to the
\* workers' hands and to the lost requests.
LEMMA Balanced ==
    ASSUME LeaseTypes, AccountInv, NEW q \in Int, NEW h \in Int, leaked' \in Nat,
           Cardinality(QueuedFixed') = Cardinality(QueuedFixed) + q,
           Cardinality(Holders') = Cardinality(Holders) + h,
           active' = active + q + h + (leaked' - leaked)
    PROVE  AccountInv'
<1>1. Cardinality(QueuedFixed) \in Nat
  BY FixedFinite, Zenon DEF LeaseTypes, QueuedFixed
<1>2. active = Cardinality(QueuedFixed) + Cardinality(Holders) + leaked /\ leaked \in Nat
  BY Zenon DEF AccountInv, AccountedIsHeld, QueuedFixed, Holders
<1>3. active' = Cardinality(QueuedFixed') + Cardinality(Holders') + leaked'
  BY <1>1, <1>2, HoldersFinite
<1> QED
  BY <1>3, Zenon DEF AccountInv, AccountedIsHeld, QueuedFixed, Holders

LEMMA SameAccounts ==
    ASSUME AccountInv, UNCHANGED <<jobs, active, leaked, wpc, then>> PROVE AccountInv'
  BY Zenon DEF AccountInv, AccountedIsHeld, HoldsRequest

\* The reactor counts the fixed requests that it queues, and nothing else.
LEMMA ReactorAccounts ==
    ASSUME LeaseTypes, AccountInv, Reactor \/ Timeout \/ ClientSend \/ ClientHangup \/ Serial
    PROVE  AccountInv'
<1>1. active \in Int /\ leaked \in Nat
  <2>1. active = Cardinality(QueuedFixed) + Cardinality(Holders) + leaked /\ leaked \in Nat
    BY Zenon DEF AccountInv, AccountedIsHeld, QueuedFixed, Holders
  <2>2. Cardinality(QueuedFixed) \in Nat
    BY FixedFinite, Zenon DEF LeaseTypes, QueuedFixed
  <2> QED
    BY <2>1, <2>2, HoldersFinite
<1>2. ASSUME NEW x \in {"fixed", "stream"}, jobs' = Append(jobs, x),
             UNCHANGED <<leaked, wpc, then>>, active' = active + (IF x = "fixed" THEN 1 ELSE 0)
      PROVE  AccountInv'
  <2> DEFINE q == IF x = "fixed" THEN 1 ELSE 0
  <2>1. Cardinality(QueuedFixed') = Cardinality(QueuedFixed) + q
    BY <1>2, AppendCounts, Zenon DEF LeaseTypes, QueuedFixed
  <2>2. Cardinality(Holders') = Cardinality(Holders) + 0
    <3>1. Holders' = Holders
      BY <1>2, Zenon DEF Holders, HoldsRequest
    <3> QED
      BY <3>1, HoldersFinite
  <2>3. q \in Int /\ active' = active + q + 0 + (leaked' - leaked) /\ leaked' \in Nat
    BY <1>1, <1>2
  <2> QED
    BY <2>1, <2>2, <2>3, Balanced
<1>3. CASE ConsumeFixed
  BY <1>2, <1>3 DEF ConsumeFixed, threads, extra
<1>4. CASE ConsumeStream
  <2>1. UNCHANGED <<active, leaked, wpc, then>> /\ (jobs' = jobs \/ jobs' = Append(jobs, "stream"))
    BY <1>4, Zenon DEF ConsumeStream, extra
  <2>2. CASE jobs' = Append(jobs, "stream")
    BY <1>1, <1>2, <2>1, <2>2
  <2> QED
    BY <2>1, <2>2, SameAccounts, Zenon
<1>5. CASE Serial
  BY <1>5, SameAccounts, Zenon
     DEF Serial, SerialTake, SerialWrite, SerialDone, SerialWake, CloseConnection, conn, extra
<1>6. CASE \/ ClientSend \/ ClientHangup \/ Timeout \/ Expire \/ ExpireClose \/ Woken \/ Fetch
           \/ HandleEvent \/ EventClose
  BY <1>6, SameAccounts, Zenon
     DEF ClientSend, ClientHangup, Timeout, Expire, ExpireClose, Woken, Fetch, HandleEvent,
         EventClose, CloseConnection, conn, threads, extra
<1>7. CASE ConsumeSerialized \/ ConsumeBusy \/ ConsumeBad \/ ConsumeEnd
  BY <1>7, SameAccounts, Zenon
     DEF ConsumeSerialized, ConsumeBusy, ConsumeBad, ConsumeEnd, conn, threads, extra
<1> QED
  BY <1>3, <1>4, <1>5, <1>6, <1>7, Zenon DEF Reactor

\* Workers take over what was queued, complete what they hold, and lose a request only
\* where the busy reply of continue_connection throws.
LEMMA WorkerAccounts ==
    ASSUME LeaseTypes, AccountInv, NEW w \in Workers, Worker(w) PROVE AccountInv'
<1>1. active \in Int /\ leaked \in Nat /\ Cardinality(QueuedFixed) \in Nat
      /\ Cardinality(Holders) \in Nat
  <2>1. active = Cardinality(QueuedFixed) + Cardinality(Holders) + leaked /\ leaked \in Nat
    BY Zenon DEF AccountInv, AccountedIsHeld, QueuedFixed, Holders
  <2>2. Cardinality(QueuedFixed) \in Nat
    BY FixedFinite, Zenon DEF LeaseTypes, QueuedFixed
  <2> QED
    BY <2>1, <2>2, HoldersFinite
<1>2. /\ wpc \in [Workers -> Labels] /\ then \in [Workers -> {"idle", "write", "serialized", "busy"}]
      /\ jobs \in Seq({"fixed", "stream"})
  BY Zenon DEF LeaseTypes
<1>3. ASSUME UNCHANGED <<jobs, active, leaked>>, HoldsRequest(w) <=> HoldsRequest(w)',
             \A v \in Workers \ {w} : wpc'[v] = wpc[v] /\ then'[v] = then[v]
      PROVE  AccountInv'
  <2>1. Cardinality(Holders') = Cardinality(Holders)
    BY <1>3, HoldersStep, Zenon
  <2>2. Cardinality(QueuedFixed') = Cardinality(QueuedFixed)
    BY <1>3, Zenon DEF QueuedFixed
  <2> QED
    BY <1>3, <2>1, <2>2, Zenon DEF AccountInv, AccountedIsHeld, QueuedFixed, Holders
<1>4. ASSUME NEW h \in {-1, 0, 1}, jobs' = jobs, leaked' \in Nat, active' = active + h + (leaked' - leaked),
             h = 1 => ~HoldsRequest(w) /\ HoldsRequest(w)',
             h = -1 => HoldsRequest(w) /\ ~HoldsRequest(w)',
             h = 0 => (HoldsRequest(w) <=> HoldsRequest(w)'),
             \A v \in Workers \ {w} : wpc'[v] = wpc[v] /\ then'[v] = then[v]
      PROVE  AccountInv'
  <2>1. Cardinality(Holders') = Cardinality(Holders) + h
    BY <1>1, <1>4, HoldersStep
  <2>2. Cardinality(QueuedFixed') = Cardinality(QueuedFixed) + 0
    BY <1>1, <1>4 DEF QueuedFixed
  <2>3. h \in Int /\ active' = active + 0 + h + (leaked' - leaked)
    BY <1>1, <1>4
  <2> QED
    BY <1>4, <2>1, <2>2, <2>3, Balanced
<1>5. CASE Take(w)
  <2>1. /\ jobs # <<>> /\ jobs' = Tail(jobs) /\ wpc[w] = "idle" /\ UNCHANGED <<then, active, leaked>>
        /\ wpc' = [wpc EXCEPT ![w] = IF Head(jobs) = "stream" THEN "stream" ELSE "write"]
    BY <1>5, Zenon DEF Take, Goto, conn, extra
  <2>2. Head(jobs) \in {"fixed", "stream"}
    BY <1>2, <2>1
  <2>3. Cardinality(QueuedFixed') = Cardinality(QueuedFixed) - (IF Head(jobs) = "fixed" THEN 1 ELSE 0)
    BY <1>2, <2>1, TailCounts, Zenon DEF QueuedFixed
  <2>4. /\ \A v \in Workers \ {w} : wpc'[v] = wpc[v] /\ then'[v] = then[v]
        /\ ~HoldsRequest(w) /\ wpc'[w] = IF Head(jobs) = "stream" THEN "stream" ELSE "write"
    BY <1>2, <2>1, Zenon DEF HoldsRequest, Holding
  <2>5. CASE Head(jobs) = "fixed"
    <3>1. HoldsRequest(w)'
      BY <2>4, <2>5, Zenon DEF HoldsRequest, Holding
    <3>2. Cardinality(Holders') = Cardinality(Holders) + 1
      BY <2>4, <3>1, HoldersStep, Zenon
    <3>3. Cardinality(QueuedFixed') = Cardinality(QueuedFixed) + (-1)
      BY <1>1, <2>3, <2>5
    <3>4. leaked' \in Nat /\ active' = active + (-1) + 1 + (leaked' - leaked)
      BY <1>1, <2>1
    <3> QED
      BY <3>2, <3>3, <3>4, Balanced
  <2>6. CASE Head(jobs) = "stream"
    <3>1. ~HoldsRequest(w)'
      BY <2>4, <2>6, Zenon DEF HoldsRequest, Holding
    <3>2. Cardinality(Holders') = Cardinality(Holders) + 0
      BY <1>1, <2>4, <3>1, HoldersStep
    <3>3. Cardinality(QueuedFixed') = Cardinality(QueuedFixed) + 0
      BY <1>1, <2>3, <2>6
    <3>4. leaked' \in Nat /\ active' = active + 0 + 0 + (leaked' - leaked)
      BY <1>1, <2>1
    <3> QED
      BY <3>2, <3>3, <3>4, Balanced
  <2> QED
    BY <2>2, <2>5, <2>6, Zenon
<1>6. CASE Write(w) \/ ServeSerialized(w)
  <2>1. /\ wpc[w] \in Holding /\ wpc' = [wpc EXCEPT ![w] = "complete"]
        /\ UNCHANGED <<jobs, active, leaked, then>>
    BY <1>6, Zenon DEF Write, ServeSerialized, CloseConnection, Goto, Holding, extra
  <2> QED
    BY <1>2, <1>3, <2>1, Zenon DEF HoldsRequest, Holding
<1>7. CASE Complete(w)
  <2>1. /\ wpc[w] = "complete" /\ UNCHANGED <<jobs, leaked, then>> /\ active' = active - 1
        /\ wpc' = [wpc EXCEPT ![w] = IF active = 1 THEN "last" ELSE "idle"]
    BY <1>7, Zenon DEF Complete, Goto, extra
  <2>2. /\ HoldsRequest(w) /\ ~HoldsRequest(w)'
        /\ \A v \in Workers \ {w} : wpc'[v] = wpc[v] /\ then'[v] = then[v]
    BY <1>2, <2>1, Zenon DEF HoldsRequest, Holding
  <2>3. active' = active + (-1) + (leaked' - leaked) /\ leaked' \in Nat
    BY <1>1, <2>1
  <2> QED
    BY <1>4, <2>1, <2>2, <2>3
<1>8. CASE LastDone(w) \/ Lease(w) \/ ReadNothing(w) \/ StreamExchange(w)
  <2>1. /\ wpc[w] \in {"last", "lease", "reading", "stream"} /\ UNCHANGED <<jobs, active, leaked>>
        /\ \E pc \in {"idle", "lease", "reading", "rearm"} :
              wpc' = [wpc EXCEPT ![w] = pc]
              /\ IF pc = "rearm" THEN then' = [then EXCEPT ![w] = "idle"] ELSE then' = then
    BY <1>8, Zenon DEF LastDone, Lease, ReadNothing, StreamExchange, Goto, conn, extra
  <2>2. /\ ~HoldsRequest(w) /\ ~HoldsRequest(w)'
        /\ \A v \in Workers \ {w} : wpc'[v] = wpc[v] /\ then'[v] = then[v]
    BY <1>2, <2>1, Zenon DEF HoldsRequest, Holding
  <2> QED
    BY <1>3, <2>1, <2>2, Zenon
<1>9. CASE ReadRequest(w)
  <2>1. /\ wpc[w] = "reading" /\ UNCHANGED <<jobs, leaked>> /\ active' = active + 1
        /\ wpc' = [wpc EXCEPT ![w] = "rearm"]
        /\ \E pc \in {"write", "serialized", "busy"} : then' = [then EXCEPT ![w] = pc]
    BY <1>9, Zenon DEF ReadRequest, Goto, extra
  <2>2. /\ ~HoldsRequest(w) /\ HoldsRequest(w)'
        /\ \A v \in Workers \ {w} : wpc'[v] = wpc[v] /\ then'[v] = then[v]
    BY <1>2, <2>1, Zenon DEF HoldsRequest, Holding
  <2>3. active' = active + 1 + (leaked' - leaked) /\ leaked' \in Nat
    BY <1>1, <2>1
  <2> QED
    BY <1>4, <2>1, <2>2, <2>3
<1>10. CASE Rearm(w) \/ Insert(w)
  <2>1. /\ wpc[w] \in {"rearm", "insert"} /\ UNCHANGED <<jobs, active, leaked, then>>
        /\ wpc' = [wpc EXCEPT ![w] = then[w]] \/ wpc' = [wpc EXCEPT ![w] = "insert"]
    BY <1>10, Zenon DEF Rearm, Insert, CloseConnection, Goto, conn, extra
  <2>2. /\ HoldsRequest(w) <=> HoldsRequest(w)'
        /\ \A v \in Workers \ {w} : wpc'[v] = wpc[v] /\ then'[v] = then[v]
    BY <1>2, <2>1, Zenon DEF HoldsRequest, Holding
  <2> QED
    BY <1>3, <2>1, <2>2, Zenon
<1>11. CASE ServeBusy(w)
  <2>1. /\ wpc[w] = "busy" /\ UNCHANGED <<jobs, active>>
        /\ \/ wpc' = [wpc EXCEPT ![w] = "complete"] /\ UNCHANGED <<then, leaked>>
           \/ /\ wpc' = [wpc EXCEPT ![w] = "rearm"] /\ then' = [then EXCEPT ![w] = "idle"]
              /\ leaked' = leaked + 1
    BY <1>11, Zenon DEF ServeBusy, Goto
  <2>2. CASE leaked' = leaked /\ wpc' = [wpc EXCEPT ![w] = "complete"] /\ then' = then
    BY <1>2, <1>3, <2>1, <2>2, Zenon DEF HoldsRequest, Holding
  <2>3. CASE /\ wpc' = [wpc EXCEPT ![w] = "rearm"] /\ then' = [then EXCEPT ![w] = "idle"]
             /\ leaked' = leaked + 1
    <3>1. /\ HoldsRequest(w) /\ ~HoldsRequest(w)'
          /\ \A v \in Workers \ {w} : wpc'[v] = wpc[v] /\ then'[v] = then[v]
      BY <1>2, <2>1, <2>3, Zenon DEF HoldsRequest, Holding
    <3>2. active' = active + (-1) + (leaked' - leaked) /\ leaked' \in Nat
      BY <1>1, <2>1, <2>3
    <3> QED
      BY <1>4, <2>1, <3>1, <3>2
  <2> QED
    BY <2>1, <2>2, <2>3, Zenon
<1> QED
  BY <1>5, <1>6, <1>7, <1>8, <1>9, <1>10, <1>11, Zenon DEF Worker

\* An accounted request goes back to complete_regular_request on every path: for any
\* number of workers and frames active_regular counts the requests that are queued or in
\* a worker's hands, and those that a failed busy reply of continue_connection dropped.
THEOREM AccountsAreHeld == LeaseSpec => []AccountedIsHeld
<1>1. IInv /\ AccountInv /\ [LeaseNext]_leaseVars => AccountInv'
  <2> SUFFICES ASSUME IInv, AccountInv, [LeaseNext]_leaseVars PROVE AccountInv'
    BY Zenon
  <2>1. LeaseTypes
    BY Zenon DEF IInv
  <2>2. CASE UNCHANGED leaseVars
    BY <2>2, SameAccounts, Zenon DEF leaseVars, conn, threads, extra
  <2> QED
    BY <2>1, <2>2, ReactorAccounts, WorkerAccounts, Zenon DEF LeaseNext
<1>2. AccountInv => AccountedIsHeld
  BY Zenon DEF AccountInv
<1> QED
  BY InitAccounts, Invariance, <1>1, <1>2, PTL DEF LeaseSpec
=============================================================================
