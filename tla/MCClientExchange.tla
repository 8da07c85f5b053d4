--------------------------- MODULE MCClientExchange ---------------------------
EXTENDS ClientExchange

CONSTANTS a, b

Both(x, y) == [c \in {a, b} |-> IF c = a THEN x ELSE y]

Base == [kind |-> Both("request", "request"), verdict |-> Both("ok", "ok"),
         timeouts |-> FALSE, stops |-> FALSE, version |-> 3, backlog |-> 1,
         maxConnections |-> 2, maxStreams |-> 1, maxStreamSize |-> 0, serverMax |-> 3,
         clientMax |-> 3, clientStream |-> 0, answer |-> 1, stalled |-> {}]

MCConfigs == {
    \* two streams for one slot, one of them of a handler that throws, and a stop
    [Base EXCEPT !.kind = Both("stream", "stream"), !.verdict = Both("ok", "throws"),
                 !.stops = TRUE, !.version = 2],
    \* the same with deadlines, and no handler
    [Base EXCEPT !.kind = Both("stream", "stream"), !.verdict = Both("ok", "unknown"),
                 !.timeouts = TRUE],
    \* and with a limit of the clients' own that their bodies exceed
    [Base EXCEPT !.kind = Both("stream", "stream"), !.clientStream = 3],
    \* a retried request for one connection: against deadlines and a stop, beside a
    \* stream, and beside a descriptor that is turned away
    [Base EXCEPT !.kind = Both("idempotent", "none"), !.timeouts = TRUE, !.stops = TRUE,
                 !.maxConnections = 1],
    [Base EXCEPT !.kind = Both("idempotent", "stream"), !.maxConnections = 1],
    [Base EXCEPT !.kind = Both("idempotent", "fd"), !.verdict = Both("throws", "denied"),
                 !.maxConnections = 1],
    \* a descriptor, with deadlines and a stop
    [Base EXCEPT !.kind = Both("fd", "none"), !.timeouts = TRUE, !.stops = TRUE],
    \* an authorization hook that throws, for a retried request beside a stream
    [Base EXCEPT !.kind = Both("idempotent", "stream"), !.verdict = Both("hookThrows", "ok")],
    \* a client that is suspended in the middle of its stream, and a stop
    [Base EXCEPT !.kind = Both("stream", "none"), !.stalled = {a}, !.stops = TRUE],
    \* requests and streams above a limit of the server or of the client
    [Base EXCEPT !.kind = Both("request", "stream"), !.serverMax = 1],
    [Base EXCEPT !.kind = Both("request", "stream"), !.clientMax = 2, !.clientStream = 4,
                 !.answer = 5],
    [Base EXCEPT !.kind = Both("request", "stream"), !.clientMax = 1, !.clientStream = 1],
    [Base EXCEPT !.kind = Both("request", "stream"), !.verdict = Both("unknown", "ok"),
                 !.maxStreamSize = 3],
    [Base EXCEPT !.kind = Both("request", "stream"), !.serverMax = 2, !.maxStreamSize = 4,
                 !.answer = 5] }
=============================================================================
