------------------------------ MODULE Deadlines ------------------------------
(***************************************************************************)
(* Deadlines and the wait that keeps them.  A timeout in milliseconds      *)
(* becomes a point of the steady clock, and a point of the clock becomes   *)
(* the whole number of milliseconds that one poll waits.  The largest      *)
(* value of the clock means "no deadline", so neither conversion may       *)
(* produce it by accident and neither may run past it.                     *)
(*                                                                         *)
(* wait_for_io reads the clock once for its deadline and again before      *)
(* every poll; time passes in between, and signals interrupt the poll.     *)
(***************************************************************************)
EXTENDS Integers

CONSTANTS
    ClockMax,       \* Deadline::max(), in ticks of the clock
    TicksPerMs,     \* ticks in a millisecond
    IntMax          \* the longest wait one poll can express, in milliseconds

ASSUME ClockAssumption ==
    /\ ClockMax \in Nat \ {0}
    /\ TicksPerMs \in Nat \ {0}
    /\ IntMax \in Nat \ {0}

None == ClockMax
Clock == 0..(ClockMax - 1)
Smaller(x, y) == IF x < y THEN x ELSE y

\* Faulty: the sum that runs past the end of the clock is clamped to its last value.
DeadlineClamped(start, ms) ==
    IF ms = 0 THEN None ELSE Smaller(start + ms * TicksPerMs, ClockMax)

DeadlineFrom(start, ms) ==
    IF ms = 0 THEN None
    ELSE IF ms >= (ClockMax - start) \div TicksPerMs THEN ClockMax - 1
    ELSE start + ms * TicksPerMs

CeilMs(ticks) == (ticks + TicksPerMs - 1) \div TicksPerMs

\* The code also takes the maximum with 1, which the rounding up makes redundant.
PollTimeout(at, limit) ==
    IF limit = None THEN -1
    ELSE IF at >= limit THEN 0
    ELSE Smaller(CeilMs(limit - at), IntMax)

-----------------------------------------------------------------------------
\* wait_for_io, called with an inactivity timeout and an absolute deadline.

VARIABLES now,        \* the steady clock
          timeout,    \* inactivity_timeout, in milliseconds
          absolute,   \* absolute_deadline
          begun,      \* the clock when wait_deadline was computed
          deadline,   \* wait_deadline
          until,      \* when the poll times out, or -1 for never
          wait        \* where the waiting thread is

waitVars == <<now, timeout, absolute, begun, deadline, until, wait>>

WaitInit ==
    /\ now \in Clock /\ timeout \in 0..ClockMax /\ absolute \in 0..ClockMax
    /\ begun = now /\ deadline = None /\ until = -1 /\ wait = "call"

WaitDeadline(start, inactivity, limit) ==
    IF inactivity > 0 THEN Smaller(limit, DeadlineFrom(start, inactivity)) ELSE limit

WaitForIo ==
    /\ wait = "call"
    /\ begun' = now
    /\ deadline' = WaitDeadline(now, timeout, absolute)
    /\ wait' = "loop"
    /\ UNCHANGED <<now, timeout, absolute, until>>

StartPoll ==
    /\ wait = "loop" /\ PollTimeout(now, deadline) # 0
    /\ until' = IF deadline = None THEN -1 ELSE now + PollTimeout(now, deadline) * TicksPerMs
    /\ wait' = "poll"
    /\ UNCHANGED <<now, timeout, absolute, begun, deadline>>

Expired ==
    /\ wait = "loop" /\ PollTimeout(now, deadline) = 0
    /\ wait' = "timed_out"
    /\ UNCHANGED <<now, timeout, absolute, begun, deadline, until>>

\* What wait_once reports: a ready descriptor, a signal, or an error.
PollReturns ==
    /\ wait = "poll"
    /\ wait' \in {"ready", "loop", "failed"} /\ until' = -1
    /\ UNCHANGED <<now, timeout, absolute, begun, deadline>>

PollTimesOut ==
    /\ wait = "poll" /\ until # -1 /\ now >= until
    /\ wait' = "timed_out"
    /\ UNCHANGED <<now, timeout, absolute, begun, deadline, until>>

Tick ==
    /\ wait \in {"call", "loop", "poll"} /\ now + 1 \in Clock
    /\ now' = now + 1
    /\ UNCHANGED <<timeout, absolute, begun, deadline, until, wait>>

WaitEnded == wait \in {"ready", "timed_out", "failed"} /\ UNCHANGED waitVars

WaitNext ==
    WaitForIo \/ StartPoll \/ Expired \/ PollReturns \/ PollTimesOut \/ Tick \/ WaitEnded

WaitSpec == WaitInit /\ [][WaitNext]_waitVars

-----------------------------------------------------------------------------
\* wait_for_io keeps both of its limits however often it is interrupted.  It polls
\* without limit only when it was given none.  A poll ends less than a millisecond
\* after the absolute deadline and, for the rounding at the end of the clock, less
\* than two after the timeout.  ETIMEDOUT is not thrown before one of the two has
\* passed, except at the end of the clock and after the longest wait that one poll
\* can express.
WaitKept ==
    /\ wait = "poll" => (until = -1 <=> timeout = 0 /\ absolute = None)
    /\ wait = "poll" /\ until # -1 =>
           /\ absolute # None => until < absolute + TicksPerMs
           /\ timeout # 0 => until < begun + (timeout + 2) * TicksPerMs
    /\ wait = "timed_out" =>
           \/ absolute # None /\ now >= absolute
           \/ timeout # 0 /\ (now >= begun + timeout * TicksPerMs \/ now = ClockMax - 1)
           \/ now >= begun + IntMax * TicksPerMs

\* deadline_from_now: only a timeout of zero means "no deadline", however late the
\* clock and however long the timeout; a deadline is never in the past and never
\* later than the timeout asks for; and it is earlier than that only where the
\* clock ends.
DeadlineKept ==
    \A start \in Clock : \A ms \in 0..ClockMax :
        LET d == DeadlineFrom(start, ms)
        IN  /\ d = None <=> ms = 0
            /\ d \in start..ClockMax
            /\ ms # 0 => \/ d = start + ms * TicksPerMs
                         \/ d = ClockMax - 1 /\ start + (ms + 1) * TicksPerMs > d

\* poll_timeout_ms: a poll waits for ever only without a deadline and not at all
\* only once it has passed; otherwise it does not return before the deadline, unless
\* the wait is longer than a poll can express, and is less than a millisecond late.
PollCovers ==
    \A at \in Clock : \A limit \in 0..ClockMax :
        LET t == PollTimeout(at, limit)
        IN  /\ t = -1 <=> limit = None
            /\ t = 0 <=> limit # None /\ at >= limit
            /\ t > 0 => /\ t * TicksPerMs >= limit - at \/ t = IntMax
                        /\ (t - 1) * TicksPerMs < limit - at
=============================================================================
